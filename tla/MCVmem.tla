------------------------------- MODULE MCVmem -------------------------------
(***************************************************************************)
(* Instances of Vmem with four entries per table: 64 pages, RAM from page  *)
(* 16 on, addresses of GM up to page 31.  The guest's tables are a root at *)
(* page 16 and a second level at page 17.                                  *)
(***************************************************************************)
EXTENDS Vmem, TLC

Symmetry == Permutations(Pool)

VA(l3, l2, l1) == (2 :> l3) @@ (1 :> l2) @@ (0 :> l1)
Leaf(page, perm) == [perm |-> {"V"} \union perm, addr |-> page]
RWXU == {"R", "W", "X", "U"}

\* A page of the pool that looks like a table full of mappings.
OldData == [i \in 0 .. 3 |-> Leaf(0, RWXU)]

Slots(e0, e1, e3) == (0 :> e0) @@ (1 :> e1) @@ (2 :> {}) @@ (3 :> e3)

Code == VA(1, 0, 2)
NextCode == VA(1, 0, 3)
Root == VA(1, 0, 0)
Second == VA(1, 0, 1)
Data == VA(0, 0, 1)
NextData == VA(0, 0, 2)
Upper == VA(7, 0, 1)
Hole == VA(3, 0, 1)
Absent == VA(1, 3, 1)

\* The pages of GM from 16 to 27 exist.
Memory == 20 .. 31

Load(va) == [kind |-> "R", known |-> TRUE, instr |-> <<Code>>, data |-> <<va>>]
Store(va) == [kind |-> "W", known |-> TRUE, instr |-> <<Code>>, data |-> <<va>>]
Atomic(va) == [Store(va) EXCEPT !.known = FALSE]

-----------------------------------------------------------------------------
\* A guest that runs the code of GU at the address it has in GM, with large
\* pages, one of which does not exist.
GoodVirt == {Code, Root, Second, Data}
GoodPtes ==
    (16 :> Slots({TableEntry(17), Leaf(32, RWXU), EmptyEntry},
                 {Leaf(16, RWXU)}, {}))
    @@ (17 :> Slots({Leaf(16, RWXU), Leaf(20, {"R", "U"})}, {}, {}))
GoodAccesses == {Load(Data), Store(Data), Store(Root)}

\* One that also uses small pages, with a table of the last level at page 19.
SmallPtes ==
    (16 :> Slots({TableEntry(17)}, {Leaf(16, RWXU)}, {}))
    @@ (17 :> Slots({TableEntry(19)}, {}, {}))
    @@ (19 :> Slots({}, {Leaf(20, RWXU)}, {}))
SmallVirt == {Code, NextCode, Root, Second, Data}

-----------------------------------------------------------------------------
\* A guest whose root table may be its own child.
LoopVirt == {Code, Root, Data}
LoopPtes ==
    (16 :> Slots({TableEntry(16), Leaf(16, RWXU)}, {Leaf(16, RWXU)}, {}))
    @@ (17 :> Slots({}, {}, {}))
LoopAccesses == {Load(Data)}

\* A guest that does anything: tables below and above the RAM and where there
\* is no memory, tables that are their own child, pages of devices and beyond
\* the RAM, pages that are not for GU or do not exist, every kind of address,
\* accesses across the end of a page, atomic instructions.
WildVirt == {Code, NextCode, Root, Second, Data, NextData, Upper, Hole, Absent}
WildPtes ==
    (16 :> Slots({TableEntry(16), TableEntry(17), TableEntry(8),
                  TableEntry(28), TableEntry(64), Leaf(0, RWXU), Leaf(64, RWXU)},
                 {Leaf(16, RWXU)},
                 {Leaf(16, RWXU)}))
    @@ (17 :> Slots({Leaf(20, {"R", "U"}), Leaf(20, {"R"})}, {}, {}))
WildReads == {Leaf(32, RWXU), TableEntry(8)}
WildAccesses ==
    {Store(Root), Load(Data), Store(Data), Load(Upper), Load(Hole),
     Load(Absent), Atomic(Data),
     [Load(Data) EXCEPT !.data = <<Data, NextData>>],
     [Load(Data) EXCEPT !.instr = <<Code, NextCode>>]}
=============================================================================
