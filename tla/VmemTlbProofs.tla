---------------------------- MODULE VmemTlbProofs ----------------------------
(***************************************************************************)
(* The shadow table implements GuestTlb, for every guest that keeps its    *)
(* page tables in its RAM.                                                 *)
(***************************************************************************)
EXTENDS VmemProofs

\* The entry of the machine table with indices i and j.
Region(i, j) == [perm |-> Perm, addr |-> (i * N + j) * N + Offset]

\* The machine table maps every page of GM to the same page above Offset, for
\* every kind of access.
MachineExact ==
    \A i, j \in Slot :
        LET top == pt[MachineRoot][i]
            e == pt[top.addr][j]
        IN  IsTable(top) /\ Valid(e) => e = Region(i, j)

\* What try_resolve_gu_to_gm has found so far, if every pointer had a value.
WalkKnown ==
    LET va == fault_addr
        e2 == Descend(gmem, satp_ppn, Top(va))
        w == Walk(gmem, satp_ppn, va)
    IN  /\ phase = "walk" =>
              /\ level = 2 => entry = TableEntry(satp_ppn)
              /\ level = 1 => entry = e2
              /\ level = 0 => /\ IsTable(e2)
                              /\ entry = Descend(gmem, e2.addr, va[1])
        /\ phase = "map" /\ shadow_pt_active =>
              {"V", "U"} \subseteq w.perm /\ entry.addr = w.addr
        /\ phase = "shadow" =>
              {"V", "U"} \subseteq w.perm /\ entry.addr = w.addr + Offset

GuestWalkInv ==
    /\ phase \in {"guest", "fetch"} => level = 2
    /\ TablesInRam(fault_addr) => WalkKnown

\* The guest's tables hold what it wrote to them.
Written ==
    \A t \in GuestTables, i \in Slot :
        gmem[t][i] \in GuestPtes[t][i] \union {EmptyEntry}

TlbInv == VInv /\ MachineExact /\ GuestWalkInv

-----------------------------------------------------------------------------
(* A page of GM is put together again from its indices.                    *)
LEMMA Together ==
    ASSUME NEW g \in Nat
    PROVE  (Lvl3(g) * N + Lvl2(g)) * N + (g % N) = g
<1> DEFINE h == g \div N
<1>1. N \in Nat \ {0}
  BY VmemAssumption
<1>2. h \in Nat /\ g = N * h + (g % N) /\ g % N \in 0 .. N - 1
  BY <1>1, DivMod
<1>3. h = N * (h \div N) + (h % N) /\ h \div N \in Nat /\ h % N \in 0 .. N - 1
  BY <1>1, <1>2, DivMod
<1> DEFINE a == h \div N
           b == h % N
           c == g % N
<1>4. a \in Nat /\ b \in Nat /\ c \in Nat /\ h = N * a + b /\ g = N * h + c
  BY <1>1, <1>2, <1>3
<1>5. Lvl3(g) = a /\ Lvl2(g) = b
  BY DEF Lvl3, Lvl2
<1> HIDE DEF a, b, c, h
<1>6. a * N + b = h
  BY <1>1, <1>4
<1>7. h * N = N * h
  BY <1>1, <1>2
<1>8. (a * N + b) * N + c = g
  BY <1>4, <1>6, <1>7
<1> QED BY <1>5, <1>8 DEF c

(* The host's page for a page of GM.                                       *)
LEMMA HostExact ==
    ASSUME VInv', MachineExact', NEW g \in Nat, InRam(g),
           IsTable(pt'[MachineRoot][Lvl3(g)]), GoodLeaf(MachineEntry(pt', g))
    PROVE  HostPage(pt', g) = g + Offset
<1> DEFINE a == Lvl3(g)
           b == Lvl2(g)
           top == pt'[MachineRoot][a]
<1>1. a \in Slot /\ b \in Slot
  BY Levels
<1>2. top.addr \in DOMAIN pt'
  <2>1. TableOrEmpty(top, MachineMid')
    BY <1>1 DEF VInv, TreeInv, Tree, Contents
  <2>2. top.addr \in MachineMid'
    BY <2>1, EntryCases
  <2> QED BY <2>2 DEF VInv, TreeInv, Tree, Sorted, TablePages
<1>3. MachineEntry(pt', g) = pt'[top.addr][b]
  BY <1>2 DEF MachineEntry, Descend
<1>4. Valid(pt'[top.addr][b])
  BY <1>3, EntryKinds
<1>5. MachineEntry(pt', g).addr = (a * N + b) * N + Offset
  <2>1. IsTable(top) /\ Valid(pt'[top.addr][b])
    BY <1>4
  <2>2. pt'[top.addr][b] = Region(a, b)
    <3> HIDE DEF a, b
    <3> QED BY <1>1, <2>1 DEF MachineExact
  <2>3. Region(a, b).addr = (a * N + b) * N + Offset
    BY DEF Region
  <2> QED BY <1>3, <2>2, <2>3
<1> DEFINE x == (a * N + b) * N
           c == g % N
<1>6. x \in Nat /\ Offset \in Nat /\ c \in Nat
  <2>1. N \in Nat /\ a \in Nat /\ b \in Nat
    BY <1>1, VmemAssumption DEF Slot
  <2>2. a * N \in Nat
    BY <2>1
  <2>3. x \in Nat
    <3> HIDE DEF a, b
    <3> QED BY <2>1, <2>2
  <2>4. c \in Nat
    BY Levels DEF Slot
  <2> QED BY <2>3, <2>4, VmemAssumption
<1>7. x + c = g
  BY Together
<1>8. HostPage(pt', g) = (x + Offset) + c
  BY <1>5 DEF HostPage
<1> HIDE DEF x, c
<1> QED BY <1>6, <1>7, <1>8

-----------------------------------------------------------------------------
(* A step that changes no table of the machine.                            *)
LEMMA MachineSame ==
    ASSUME VInv, MachineExact,
           \A p \in MachineMid \union {MachineRoot}, i \in Slot :
              pt'[p][i] = pt[p][i]
    PROVE  MachineExact'
<1> SUFFICES ASSUME NEW i \in Slot, NEW j \in Slot,
                    IsTable(pt'[MachineRoot][i]),
                    Valid(pt'[pt'[MachineRoot][i].addr][j])
             PROVE  pt'[pt'[MachineRoot][i].addr][j] = Region(i, j)
  BY DEF MachineExact
<1> DEFINE top == pt[MachineRoot][i]
<1>1. pt'[MachineRoot][i] = top
  OBVIOUS
<1>2. TableOrEmpty(top, MachineMid)
  BY DEF VInv, TreeInv, Tree, Contents
<1>3. IsTable(top)
  BY <1>1
<1>4. top.addr \in MachineMid
  BY <1>2, <1>3, EntryCases
<1>5. pt'[top.addr][j] = pt[top.addr][j]
  BY <1>4
<1> QED BY <1>1, <1>3, <1>5 DEF MachineExact

(* A new region of the machine table.                                      *)
LEMMA EnsureExact ==
    ASSUME VInv, MachineExact, NEW g \in Nat, InRam(g),
           ensure_guest_machine_mapped(g)
    PROVE  MachineExact'
<1> DEFINE top == pt[MachineRoot][Lvl3(g)]
<1>0. Tree(pt, free, ShadowRoots, MachineMid, ShadowMid, ShadowLow)
  BY DEF VInv, TreeInv
<1>1. CASE Mapped(g)
  BY <1>1, MachineSame DEF ensure_guest_machine_mapped
<1>2. CASE ~Mapped(g)
  <2>1. PICK child \in Pool :
           /\ free' = free \ {child}
           /\ Valid(top) => top = TableEntry(child) /\ child \in MachineMid
           /\ ~Valid(top) => child \in free
           /\ pt' \in [TablePages -> [Slot -> Entry]]
           /\ pt'[MachineRoot][Lvl3(g)] = TableEntry(child)
           /\ \A i \in Slot \ {Lvl3(g)} : pt'[MachineRoot][i] = pt[MachineRoot][i]
           /\ pt'[child][Lvl2(g)] = RegionEntry(g)
           /\ \A i \in Slot \ {Lvl2(g)} :
                 pt'[child][i] = IF Valid(top) THEN pt[child][i] ELSE EmptyEntry
           /\ \A p \in TablePages \ {MachineRoot, child} : pt'[p] = pt[p]
    BY <1>0, <1>2, EnsureShape DEF TreeInv
  <2>2. Lvl3(g) \in Slot
    BY Levels
  <2> SUFFICES ASSUME NEW i \in Slot, NEW j \in Slot,
                      IsTable(pt'[MachineRoot][i]),
                      Valid(pt'[pt'[MachineRoot][i].addr][j])
               PROVE  pt'[pt'[MachineRoot][i].addr][j] = Region(i, j)
    BY DEF MachineExact
  <2>3. CASE i = Lvl3(g)
    <3>1. pt'[MachineRoot][i].addr = child
      BY <2>1, <2>3, EntryKinds
    <3>2. CASE j = Lvl2(g)
      <4>1. pt'[child][j] = RegionEntry(g)
        BY <2>1, <3>2
      <4>2. RegionEntry(g) = Region(i, j)
        BY <2>3, <3>2 DEF RegionEntry, Region
      <4> QED BY <3>1, <4>1, <4>2
    <3>3. CASE j # Lvl2(g)
      <4>1. Valid(top) /\ pt'[child][j] = pt[child][j]
        BY <2>1, <3>1, <3>3, EntryKinds
      <4>2. IsTable(top) /\ top.addr = child
        BY <2>1, <4>1, EntryKinds
      <4>3. pt[child][j] = Region(i, j)
        BY <2>3, <3>1, <4>1, <4>2 DEF MachineExact
      <4> QED BY <3>1, <4>1, <4>3
    <3> QED BY <3>2, <3>3
  <2>4. CASE i # Lvl3(g)
    <3> DEFINE q == pt[MachineRoot][i].addr
    <3>1. pt'[MachineRoot][i] = pt[MachineRoot][i] /\ IsTable(pt[MachineRoot][i])
      BY <2>1, <2>4
    <3>2. q \in MachineMid
      <4>1. TableOrEmpty(pt[MachineRoot][i], MachineMid)
        BY <1>0 DEF Tree, Contents
      <4> QED BY <3>1, <4>1, EntryCases
    <3>3. q # child
      <4>1. CASE Valid(top)
        <5>1. IsTable(top) /\ top.addr = child
          BY <2>1, <4>1, EntryKinds
        <5> QED BY <1>0, <2>2, <2>4, <3>1, <5>1 DEF Tree, OneParent
      <4>2. CASE ~Valid(top)
        BY <1>0, <2>1, <3>2, <4>2 DEF Tree, Sorted
      <4> QED BY <4>1, <4>2
    <3>4. q \in TablePages \ {MachineRoot, child}
      BY <1>0, <3>2, <3>3, VmemAssumption DEF Tree, Sorted, TablePages
    <3>5. pt'[q] = pt[q]
      BY <2>1, <3>4
    <3> QED BY <3>1, <3>5 DEF MachineExact
  <2> QED BY <2>3, <2>4
<1> QED BY <1>1, <1>2

-----------------------------------------------------------------------------
(* Walks of shadow tables that are equal.                                  *)
LEMMA ShadowSame ==
    ASSUME NEW P, NEW F, NEW S, NEW mm, NEW sm, NEW sl,
           Tree(P, F, S, mm, sm, sl),
           NEW Q, NEW G, NEW mm2, NEW sm2, NEW sl2,
           Tree(Q, G, S, mm2, sm2, sl2),
           \A p \in S \union sm \union sl : Q[p] = P[p],
           NEW r \in S, NEW va \in Virt
    PROVE  Walk(Q, r, va) = Walk(P, r, va)
<1> DEFINE e2 == P[r][Top(va)]
           e1 == P[e2.addr][va[1]]
           e0 == P[e1.addr][va[0]]
           d2 == Q[r][Top(va)]
           d1 == Q[d2.addr][va[1]]
           d0 == Q[d1.addr][va[0]]
<1>1. Walk(P, r, va) = IF IsTable(e2) /\ IsTable(e1) /\ IsLeaf(e0)
                       THEN e0 ELSE EmptyEntry
  BY ShadowWalk
<1>2. Walk(Q, r, va) = IF IsTable(d2) /\ IsTable(d1) /\ IsLeaf(d0)
                       THEN d0 ELSE EmptyEntry
  BY ShadowWalk
<1>3. Top(va) \in Slot /\ va[1] \in Slot
  BY VirtIndices
<1>4. d2 = e2
  OBVIOUS
<1>5. IsTable(e2) => e2.addr \in sm
  <2>1. TableOrEmpty(e2, sm)
    BY <1>3 DEF Tree, Contents
  <2> QED BY <2>1, EntryCases
<1>6. IsTable(e2) => d1 = e1
  BY <1>4, <1>5
<1>7. IsTable(e2) /\ IsTable(e1) => e1.addr \in sl
  <2>1. IsTable(e2) => TableOrEmpty(e1, sl)
    BY <1>3, <1>5 DEF Tree, Contents
  <2> QED BY <2>1, EntryCases
<1>8. IsTable(e2) /\ IsTable(e1) => d0 = e0
  BY <1>6, <1>7
<1> HIDE DEF e2, e1, e0, d2, d1, d0
<1> QED BY <1>1, <1>2, <1>4, <1>6, <1>8

(* There is nothing below NULL.                                            *)
LEMMA NullWalk ==
    ASSUME NEW P, DOMAIN P = TablePages, NEW va
    PROVE  Walk(P, NULL, va) = EmptyEntry
<1>1. Descend(P, NULL, Top(va)) = EmptyEntry
  BY VmemAssumption DEF Descend, TablePages
<1>2. ~IsLeaf(EmptyEntry) /\ ~IsTable(EmptyEntry)
  BY EntryKinds
<1> QED BY <1>1, <1>2 DEF Walk

(* There is nothing below an empty root.                                   *)
LEMMA EmptyRootWalk ==
    ASSUME NEW P, NEW F, NEW S, NEW mm, NEW sm, NEW sl,
           Tree(P, F, S, mm, sm, sl), NEW r \in S,
           \A i \in Slot : P[r][i] = EmptyEntry, NEW va \in Virt
    PROVE  Walk(P, r, va) = EmptyEntry
<1>1. ~IsTable(P[r][Top(va)])
  BY VirtIndices, EntryKinds
<1> QED BY <1>1, ShadowWalk

(* The translations that the shadow table holds, when no walk changes.     *)
LEMMA CachedSame ==
    ASSUME \A va \in Virt : Walk(pt', shadow_page_table', va)
                             = Walk(pt, shadow_page_table, va)
    PROVE  Cached' = Cached
BY DEF Cached

(* The same when there are none.                                           *)
LEMMA CachedNone ==
    ASSUME \A va \in Virt : Walk(pt, shadow_page_table, va) = EmptyEntry
    PROVE  Cached = {}
<1>1. \A va \in Virt : ~Valid(Walk(pt, shadow_page_table, va))
  BY EntryKinds
<1> QED BY <1>1 DEF Cached

(* The same in the next state.                                             *)
LEMMA CachedNoneNext ==
    ASSUME \A va \in Virt : Walk(pt', shadow_page_table', va) = EmptyEntry
    PROVE  Cached' = {}
<1>1. \A va \in Virt : ~Valid(Walk(pt', shadow_page_table', va))
  BY EntryKinds
<1> QED BY <1>1 DEF Cached

(* The machine table grows without a change of what GU sees.               *)
LEMMA EnsureWalks ==
    ASSUME VInv, NEW g \in Nat, InRam(g), ensure_guest_machine_mapped(g),
           UNCHANGED shadow_page_table
    PROVE  \A va \in Virt : Walk(pt', shadow_page_table', va)
                             = Walk(pt, shadow_page_table, va)
<1>1. /\ TreeInv'
      /\ \A p \in ShadowRoots \union ShadowMid \union ShadowLow : pt'[p] = pt[p]
  BY Ensure DEF VInv
<1>2. CASE shadow_page_table = NULL
  <2>1. DOMAIN pt = TablePages /\ DOMAIN pt' = TablePages
    BY <1>1 DEF VInv, TreeInv, Tree, Sorted
  <2>2. \A va \in Virt : /\ Walk(pt', shadow_page_table', va) = EmptyEntry
                         /\ Walk(pt, shadow_page_table, va) = EmptyEntry
    BY <1>2, <2>1, NullWalk
  <2> QED BY <2>2
<1>3. CASE shadow_page_table # NULL
  <2>1. shadow_page_table \in ShadowRoots /\ ShadowRoots' = ShadowRoots
    BY <1>3 DEF ShadowRoots
  <2>2. Tree(pt, free, ShadowRoots, MachineMid, ShadowMid, ShadowLow)
    BY DEF VInv, TreeInv
  <2>3. Tree(pt', free', ShadowRoots, MachineMid', ShadowMid', ShadowLow')
    BY <1>1, <2>1 DEF TreeInv
  <2> DEFINE r == shadow_page_table
  <2>4. r \in ShadowRoots
    BY <2>1
  <2> HIDE DEF r
  <2>5. \A va \in Virt : Walk(pt', r, va) = Walk(pt, r, va)
    BY <1>1, <2>2, <2>3, <2>4, ShadowSame
  <2> QED BY <2>5 DEF r
<1> QED BY <1>2, <1>3

(* What the new leaf adds is what the guest's tables say.                  *)
LEMMA LeafCached ==
    ASSUME TlbInv, TablesInRam(fault_addr), ShadowLeaf, phase' = "guest"
    PROVE  Cached' \subseteq Cached \union Current
<1> DEFINE fa == fault_addr
           r == shadow_page_table
           f2 == pt[r][fa[2]]
           w == Walk(gmem, satp_ppn, fa)
<1>0. VInv
  BY DEF TlbInv
<1>1. /\ phase = "shadow" /\ level = 0
      /\ pt' = [pt EXCEPT ![table][fa[0]] = NewLeaf]
      /\ UNCHANGED <<free, guest_vars>>
  BY DEF ShadowLeaf, Panic, NewLeaf
<1>2. /\ fa \in Virt /\ r \in ShadowRoots /\ table \in ShadowLow
      /\ GoodLeaf(NewLeaf) /\ NewLeaf.addr = entry.addr
  BY <1>0, <1>1, ShadowPlace, NewLeafGood DEF NewLeaf
<1>3. /\ fa[2] \in Slot /\ Top(fa) = fa[2] /\ fa[1] \in Slot /\ fa[0] \in Slot
      /\ IsTable(f2) /\ pt[f2.addr][fa[1]] = TableEntry(table)
  BY <1>0, <1>1, <1>2, VirtIndices DEF VInv, ShadowInv
<1>4. /\ Tree(pt', free', ShadowRoots, MachineMid, ShadowMid, ShadowLow)
      /\ \A p \in TablePages, i \in Slot :
            pt'[p][i] = IF p = table /\ i = fa[0] THEN NewLeaf ELSE pt[p][i]
  BY <1>0, <1>1, LeafTree DEF guest_vars
<1>5. Tree(pt, free, ShadowRoots, MachineMid, ShadowMid, ShadowLow)
  BY <1>0 DEF VInv, TreeInv
<1>6. /\ r # table /\ r \in TablePages /\ table \in TablePages
      /\ \A q \in ShadowMid : q # table /\ q \in TablePages
      /\ \A q \in ShadowLow : q \in TablePages
  BY <1>2, <1>5 DEF Tree, Sorted, TablePages
<1>7. f2.addr \in ShadowMid
  <2>1. TableOrEmpty(f2, ShadowMid)
    BY <1>2, <1>3, <1>5 DEF Tree, Contents
  <2> QED BY <1>3, <2>1, EntryCases
<1>8. {"V", "U"} \subseteq w.perm /\ entry.addr = w.addr + Offset
  BY <1>1 DEF TlbInv, GuestWalkInv, WalkKnown
<1> HIDE DEF w
<1>9. ASSUME NEW va \in Virt, Canonical(va), Valid(Walk(pt', r, va))
      PROVE  <<va, Walk(pt', r, va).addr>> \in Cached \union Current
  <2> DEFINE e2 == pt[r][Top(va)]
             e1 == pt[e2.addr][va[1]]
             e0 == pt[e1.addr][va[0]]
             d2 == pt'[r][Top(va)]
             d1 == pt'[d2.addr][va[1]]
             d0 == pt'[d1.addr][va[0]]
  <2>1. Walk(pt', r, va) = IF IsTable(d2) /\ IsTable(d1) /\ IsLeaf(d0)
                           THEN d0 ELSE EmptyEntry
    <3>1. r \in ShadowRoots
      BY <1>2
    <3>2. Tree(pt', free', ShadowRoots, MachineMid, ShadowMid, ShadowLow)
      BY <1>4
    <3> HIDE DEF r
    <3> QED BY <3>1, <3>2, ShadowWalk
  <2>2. Walk(pt, r, va) = IF IsTable(e2) /\ IsTable(e1) /\ IsLeaf(e0)
                          THEN e0 ELSE EmptyEntry
    <3> HIDE DEF r
    <3> QED BY <1>2, <1>5, ShadowWalk
  <2>3. Top(va) \in Slot /\ va[1] \in Slot /\ va[0] \in Slot
    BY VirtIndices
  <2>4. /\ IsTable(d2) /\ IsTable(d1) /\ IsLeaf(d0)
        /\ Walk(pt', r, va) = d0
    <3> HIDE DEF d2, d1, d0
    <3> QED BY <1>9, <2>1, EntryKinds
  <2>5. d2 = e2
    BY <1>4, <1>6, <2>3
  <2>6. IsTable(e2) /\ e2.addr \in ShadowMid
    <3>1. TableOrEmpty(e2, ShadowMid)
      BY <1>2, <1>5, <2>3 DEF Tree, Contents
    <3> QED BY <2>4, <2>5, <3>1, EntryCases
  <2>7. d1 = e1
    BY <1>4, <1>6, <2>3, <2>5, <2>6
  <2>8. IsTable(e1) /\ e1.addr \in ShadowLow
    <3>1. TableOrEmpty(e1, ShadowLow)
      BY <1>5, <2>3, <2>6 DEF Tree, Contents
    <3> QED BY <2>4, <2>7, <3>1, EntryCases
  <2>9. CASE e1.addr = table /\ va[0] = fa[0]
    <3>1. d0 = NewLeaf
      BY <1>4, <1>6, <2>3, <2>7, <2>9
    <3>2. /\ IsTable(pt[f2.addr][fa[1]])
          /\ pt[f2.addr][fa[1]].addr = table
      BY <1>3, EntryKinds
    <3>3. e2.addr = f2.addr /\ va[1] = fa[1]
      BY <1>3, <1>5, <1>7, <2>3, <2>6, <2>8, <2>9, <3>2 DEF Tree, OneParent
    <3>4. Top(va) = fa[2]
      BY <1>2, <1>3, <1>5, <2>3, <2>6, <3>3 DEF Tree, OneParent
    <3>5. Walk(gmem, satp_ppn, va) = w
      BY <1>3, <2>9, <3>3, <3>4 DEF Walk, w
    <3>6. GuestWalk(va) = w
      BY <1>9, <3>5 DEF GuestWalk
    <3>7. <<va, GuestWalk(va).addr + Offset>> \in Current
      BY <1>8, <3>6 DEF Current
    <3>8. Walk(pt', r, va).addr = GuestWalk(va).addr + Offset
      BY <1>2, <1>8, <2>4, <3>1, <3>6
    <3> QED BY <3>7, <3>8
  <2>10. CASE ~(e1.addr = table /\ va[0] = fa[0])
    <3>1. d0 = e0
      <4>1. e1.addr \in TablePages
        BY <1>6, <2>8
      <4>2. d0 = pt'[e1.addr][va[0]]
        BY <2>7
      <4> HIDE DEF e1, d0
      <4> QED BY <1>4, <2>3, <2>10, <4>1, <4>2
    <3>2. Walk(pt, r, va) = Walk(pt', r, va)
      <4>1. IsLeaf(e0) /\ Walk(pt', r, va) = e0
        BY <2>4, <3>1
      <4> HIDE DEF e2, e1, e0
      <4> QED BY <2>2, <2>6, <2>8, <4>1
    <3>3. <<va, Walk(pt, r, va).addr>> \in Cached
      BY <1>9, <3>2 DEF Cached
    <3> QED BY <3>2, <3>3
  <2> QED BY <2>9, <2>10
<1>10. shadow_page_table' = r
  BY <1>1 DEF guest_vars
<1> QED BY <1>9, <1>10 DEF Cached

-----------------------------------------------------------------------------
\* A step in which the tables are grown for the page g of GM.
EnsureStep == \E g \in Nat : /\ InRam(g)
                             /\ ensure_guest_machine_mapped(g)
                             /\ UNCHANGED shadow_page_table
                             /\ sfence' = FALSE

(* The steps by what they do to the tables.                                *)
LEMMA StepKinds ==
    ASSUME VInv, Next
    PROVE  \/ UNCHANGED <<pt, shadow_page_table>> /\ sfence' = FALSE
           \/ UNCHANGED vars
           \/ guest_mret
           \/ flush_shadow_pagetable
           \/ EnsureStep
           \/ ShadowDown
           \/ ShadowLeaf /\ phase' = "guest"
<1> USE DEF table_vars, guest_vars, Panic
<1>1. entry.addr \in Nat
  BY DEF VInv, TypeOK, GuestEntry
<1>2. CASE GuestWrite \/ SetSatp \/ guest_exception \/ InstructionPageFault
           \/ DataPageFault \/ Fetch \/ WalkFound \/ WalkRefused \/ WalkWild
           \/ EnsurePanics \/ EmulateDevice \/ MapTooHigh \/ ShadowPanics
  BY <1>2 DEF GuestWrite, SetSatp, guest_exception, InstructionPageFault,
              DataPageFault, Fetch, WalkFound, WalkRefused, WalkWild,
              EnsurePanics, EmulateDevice, MapTooHigh, ShadowPanics, Return
<1>3. CASE WalkDown \/ MapUser \/ MapMachine
  BY <1>1, <1>3 DEF WalkDown, MapUser, MapMachine, Return, EnsureStep
<1>4. CASE ShadowLeaf
  BY <1>4 DEF ShadowLeaf, Return
<1> QED BY <1>2, <1>3, <1>4 DEF Next, Handle, halt_thread

(* No step moves a page of the machine table.                              *)
LEMMA ExactNext ==
    ASSUME VInv, MachineExact, [Next]_vars
    PROVE  MachineExact'
<1>0. Tree(pt, free, ShadowRoots, MachineMid, ShadowMid, ShadowLow)
  BY DEF VInv, TreeInv
<1>1. CASE UNCHANGED pt
  BY <1>1, MachineSame
<1>2. CASE guest_mret
  <2>1. PICK p : /\ p \in free \/ p \in {shadow_page_table, NULL}
                 /\ pt' = IF p = shadow_page_table \/ p = NULL
                          THEN pt ELSE [pt EXCEPT ![p] = NewTable(p)]
    BY <1>2 DEF guest_mret
  <2>2. CASE pt' = pt
    BY <1>1, <2>2
  <2>3. CASE p \in free /\ pt' = [pt EXCEPT ![p] = NewTable(p)]
    <3>1. \A q \in MachineMid \union {MachineRoot} : q # p
      BY <1>0, <2>3, VmemAssumption DEF Tree, Sorted
    <3>2. \A q \in MachineMid \union {MachineRoot} : pt'[q] = pt[q]
      BY <1>0, <2>3, <3>1 DEF Tree, Sorted, TablePages
    <3> QED BY <3>2, MachineSame
  <2> QED BY <2>1, <2>2, <2>3
<1>3. CASE flush_shadow_pagetable /\ shadow_page_table # NULL
  <2>1. ShadowRoots = {shadow_page_table}
    BY <1>3 DEF ShadowRoots
  <2>2. /\ Children({shadow_page_table}) = ShadowMid
        /\ Children(ShadowMid) = ShadowLow
    BY <2>1 DEF ShadowMid, ShadowLow
  <2>3. pt' = [p \in DOMAIN pt |->
                  IF p \in ShadowMid \union ShadowLow \union ShadowRoots
                  THEN EmptyTable ELSE pt[p]]
    BY <1>3, <2>1, <2>2 DEF flush_shadow_pagetable, clear_pagetable
  <2>4. \A q \in MachineMid \union {MachineRoot} :
           q \notin ShadowMid \union ShadowLow \union ShadowRoots /\ q \in DOMAIN pt
    BY <1>0, VmemAssumption DEF Tree, Sorted, TablePages
  <2>5. \A q \in MachineMid \union {MachineRoot} : pt'[q] = pt[q]
    BY <2>3, <2>4
  <2> QED BY <2>5, MachineSame
<1>4. CASE flush_shadow_pagetable /\ shadow_page_table = NULL
  BY <1>1, <1>4 DEF flush_shadow_pagetable, table_vars
<1>5. CASE EnsureStep
  BY <1>5, EnsureExact DEF EnsureStep
<1>6. CASE ShadowDown
  BY <1>6, ShadowDownStep, MachineSame
<1>7. CASE ShadowLeaf /\ phase' = "guest"
  <2>1. /\ phase = "shadow" /\ level = 0 /\ UNCHANGED <<free, shadow_page_table>>
        /\ pt' = [pt EXCEPT ![table][fault_addr[0]] = NewLeaf]
    BY <1>7 DEF ShadowLeaf, Panic, NewLeaf, guest_vars
  <2>2. \A p \in TablePages, i \in Slot :
           pt'[p][i] = IF p = table /\ i = fault_addr[0] THEN NewLeaf ELSE pt[p][i]
    BY <2>1, LeafTree
  <2>3. \A q \in MachineMid \union {MachineRoot} : q # table /\ q \in TablePages
    BY <1>0, <2>1, ShadowPlace, VmemAssumption DEF Tree, Sorted, TablePages
  <2> QED BY <2>2, <2>3, MachineSame
<1>8. CASE UNCHANGED vars
  BY <1>1, <1>8 DEF vars, table_vars
<1> QED BY <1>1, <1>2, <1>3, <1>4, <1>5, <1>6, <1>7, <1>8, StepKinds

-----------------------------------------------------------------------------
(* A leaf found by try_resolve_gu_to_gm is what the walk of the guest's    *)
(* tables gives.                                                           *)
LEMMA FoundIsWalk ==
    ASSUME TlbInv, TablesInRam(fault_addr), WalkFound
    PROVE  /\ {"V", "U"} \subseteq Walk(gmem, satp_ppn, fault_addr).perm
           /\ entry'.addr = Walk(gmem, satp_ppn, fault_addr).addr
<1> DEFINE va == fault_addr
           e2 == Descend(gmem, satp_ppn, Top(va))
           e1 == Descend(gmem, e2.addr, va[1])
<1>1. /\ phase = "walk" /\ IsLeaf(entry) /\ "U" \in entry.perm
      /\ entry' = [entry EXCEPT !.addr = @ + PageOffset(va)]
      /\ entry \in GuestEntry /\ level \in 0 .. 2
  BY DEF WalkFound, TlbInv, VInv, TypeOK
<1>2. level # 2
  BY <1>1, EntryKinds DEF TlbInv, GuestWalkInv, WalkKnown
<1>3. entry'.perm = entry.perm /\ entry'.addr = entry.addr + PageOffset(va)
  BY <1>1 DEF GuestEntry
<1>4. "V" \in entry.perm
  BY <1>1 DEF IsLeaf, Valid
<1>5. va \in Virt
  BY <1>1, FaultAddress DEF TlbInv, VInv, Handler
<1>6. CASE level = 1
  <2>1. entry = e2
    BY <1>1, <1>6 DEF TlbInv, GuestWalkInv, WalkKnown
  <2>2. Walk(gmem, satp_ppn, va) = [e2 EXCEPT !.addr = @ + va[1] * N + va[0]]
    <3>1. Descend(gmem, satp_ppn, Top(va)) = e2 /\ IsLeaf(e2) /\ ~IsTable(e2)
      BY <1>1, <2>1 DEF IsLeaf, IsTable
    <3> HIDE DEF e2, va
    <3> QED BY <3>1 DEF Walk
  <2>3. /\ Walk(gmem, satp_ppn, va).perm = entry.perm
        /\ Walk(gmem, satp_ppn, va).addr = entry.addr + va[1] * N + va[0]
    BY <1>1, <2>1, <2>2 DEF GuestEntry
  <2>4. entry.addr + va[1] * N + va[0] = entry.addr + PageOffset(va)
    <3>1. /\ entry.addr \in Nat /\ va[1] \in Nat /\ va[0] \in Nat /\ N \in Nat
      BY <1>1, <1>5, VirtIndices, VmemAssumption DEF GuestEntry, Slot
    <3>2. va[1] * N \in Nat
      BY <3>1
    <3> QED BY <1>6, <3>1, <3>2 DEF PageOffset
  <2> QED BY <1>1, <1>3, <1>4, <2>3, <2>4
<1>7. CASE level = 0
  <2>1. IsTable(e2) /\ entry = e1
    BY <1>1, <1>7 DEF TlbInv, GuestWalkInv, WalkKnown
  <2>2. ~IsLeaf(e2)
    BY <2>1 DEF IsLeaf, IsTable
  <2>3. Walk(gmem, satp_ppn, va) = [e1 EXCEPT !.addr = @ + va[0]]
    <3>1. /\ Descend(gmem, satp_ppn, Top(va)) = e2
          /\ Descend(gmem, e2.addr, va[1]) = e1
      OBVIOUS
    <3>2. IsLeaf(e1) /\ ~IsTable(e1)
      BY <1>1, <2>1 DEF IsLeaf, IsTable
    <3> HIDE DEF e2, e1, va
    <3> QED BY <2>1, <2>2, <3>1, <3>2 DEF Walk
  <2>4. /\ Walk(gmem, satp_ppn, va).perm = entry.perm
        /\ Walk(gmem, satp_ppn, va).addr = entry.addr + va[0]
    BY <1>1, <2>1, <2>3 DEF GuestEntry
  <2> QED BY <1>1, <1>3, <1>4, <1>7, <2>4 DEF PageOffset
<1> QED BY <1>1, <1>2, <1>6, <1>7

(* The next entry of the guest's tables.                                   *)
LEMMA DownIsWalk ==
    ASSUME TlbInv, TablesInRam(fault_addr), WalkDown, Present(entry.addr)
    PROVE  WalkKnown'
<1> DEFINE va == fault_addr
           e2 == Descend(gmem, satp_ppn, Top(va))
<1>0. /\ level' = level - 1
      /\ entry' = Descend(gmem, entry.addr, Vpn(va, level))
      /\ phase' = phase
  BY Zenon DEF WalkDown, NextLevel
<1>1. /\ phase = "walk" /\ phase' = "walk" /\ level \in 0 .. 2 /\ level > 0
      /\ IsTable(entry) /\ level' = level - 1
      /\ entry' = Descend(gmem, entry.addr, Vpn(va, level))
      /\ UNCHANGED <<gmem, satp_ppn, fault>> /\ fault_addr' = va
  BY <1>0 DEF WalkDown, TlbInv, VInv, TypeOK, CanDescend, guest_vars, fault_addr
<1>2. CASE level = 2
  <2>1. entry.addr = satp_ppn
    BY <1>1, <1>2, EntryKinds DEF TlbInv, GuestWalkInv, WalkKnown
  <2>2. entry' = e2 /\ level' = 1
    BY <1>1, <1>2, <2>1 DEF Vpn
  <2> QED BY <1>1, <2>2 DEF WalkKnown
<1>3. CASE level = 1
  <2>1. entry = e2
    BY <1>1, <1>3 DEF TlbInv, GuestWalkInv, WalkKnown
  <2>2. IsTable(e2) /\ entry' = Descend(gmem, e2.addr, va[1]) /\ level' = 0
    BY <1>1, <1>3, <2>1 DEF Vpn
  <2> QED BY <1>1, <2>2 DEF WalkKnown
<1> QED BY <1>1, <1>2, <1>3

(* A pointer without a value is used only for a table outside the RAM.     *)
LEMMA WildOutside ==
    ASSUME TlbInv, phase = "walk", CanDescend, ~InRam(entry.addr)
    PROVE  ~TablesInRam(fault_addr)
<1> SUFFICES ASSUME TablesInRam(fault_addr) PROVE FALSE
  OBVIOUS
<1>1. level \in 1 .. 2 /\ IsTable(entry) /\ WalkKnown
  BY DEF CanDescend, TlbInv, VInv, TypeOK, GuestWalkInv
<1>2. CASE level = 2
  BY <1>1, <1>2, EntryKinds DEF WalkKnown, TablesInRam
<1>3. CASE level = 1
  BY <1>1, <1>3 DEF WalkKnown, TablesInRam
<1> QED BY <1>1, <1>2, <1>3

(* The start of the translation.                                           *)
LEMMA TranslateWalk ==
    ASSUME TlbInv, phase \in {"guest", "fetch"}, NEW va, Translate(va),
           UNCHANGED <<guest_vars, level>>
    PROVE  GuestWalkInv'
<1>1. level' = 2 /\ shadow_pt_active' = shadow_pt_active /\ satp_ppn' = satp_ppn
  BY DEF TlbInv, GuestWalkInv, guest_vars
<1>2. \/ phase' = "walk" /\ entry' = TableEntry(satp_ppn)
      \/ phase' = "map" /\ ~shadow_pt_active
  BY DEF Translate
<1> QED BY <1>1, <1>2 DEF GuestWalkInv, WalkKnown

(* Every step keeps what is known of the guest's walk.                     *)
LEMMA GuestWalkNext ==
    ASSUME TlbInv, [Next]_vars, VInv', MachineExact'
    PROVE  GuestWalkInv'
<1> USE DEF walk_vars
<1>0. ASSUME phase \in Handler, phase' \in Handler \ {"fetch"},
             UNCHANGED <<gmem, satp_ppn, fault>>,
             TablesInRam(fault_addr) => WalkKnown'
      PROVE  GuestWalkInv'
  BY <1>0 DEF GuestWalkInv, TablesInRam, fault_addr, Handler
<1>1. CASE phase' = "halted"
  BY <1>1 DEF GuestWalkInv, WalkKnown
<1>2. CASE phase' = "guest" /\ level' = 2
  BY <1>2 DEF GuestWalkInv, WalkKnown
<1>3. CASE UNCHANGED vars
  BY <1>3 DEF vars, guest_vars, TlbInv, GuestWalkInv, WalkKnown,
              TablesInRam, fault_addr
<1>4. CASE \E reason : Panic(reason)
  BY <1>1, <1>4 DEF Panic
<1>5. CASE GuestWrite \/ SetSatp \/ guest_mret \/ guest_exception
           \/ flush_shadow_pagetable
  BY <1>2, <1>5 DEF GuestWrite, SetSatp, guest_mret, guest_exception,
                    flush_shadow_pagetable, TlbInv, GuestWalkInv
<1>6. CASE InstructionPageFault
  BY <1>6, TranslateWalk DEF InstructionPageFault
<1>7. CASE DataPageFault
  <2>1. phase' = "fetch" /\ level' = 2
    BY <1>7 DEF DataPageFault, TlbInv, GuestWalkInv
  <2> QED BY <2>1 DEF GuestWalkInv, WalkKnown
<1>8. CASE Fetch
  BY <1>4, <1>8, TranslateWalk DEF Fetch
<1>9. CASE WalkFound
  <2>1. /\ phase = "walk" /\ phase' = "map"
        /\ UNCHANGED <<gmem, satp_ppn, fault>> /\ fault_addr' = fault_addr
    BY <1>9 DEF WalkFound, guest_vars, fault_addr
  <2>2. ASSUME TablesInRam(fault_addr)
        PROVE  /\ {"V", "U"} \subseteq Walk(gmem, satp_ppn, fault_addr).perm
               /\ entry'.addr = Walk(gmem, satp_ppn, fault_addr).addr
    BY <1>9, <2>2, FoundIsWalk
  <2>3. TablesInRam(fault_addr) => WalkKnown'
    BY <2>1, <2>2 DEF WalkKnown
  <2> QED BY <1>0, <2>1, <2>3 DEF Handler
<1>10. CASE WalkDown
  <2>1. CASE phase' = "halted"
    BY <1>1, <2>1
  <2>2. CASE phase' # "halted"
    <3>1. /\ phase = "walk" /\ phase' = "walk" /\ Present(entry.addr)
          /\ UNCHANGED <<gmem, satp_ppn, fault>>
      BY <1>10, <2>2 DEF WalkDown, guest_vars
    <3>2. TablesInRam(fault_addr) => WalkKnown'
      BY <1>10, <3>1, DownIsWalk
    <3> QED BY <1>0, <3>1, <3>2 DEF Handler
  <2> QED BY <2>1, <2>2
<1>11. CASE WalkRefused \/ EnsurePanics \/ MapTooHigh \/ ShadowPanics
  BY <1>4, <1>11 DEF WalkRefused, EnsurePanics, MapTooHigh, ShadowPanics
<1>12. CASE EmulateDevice \/ MapMachine \/ ShadowLeaf
  BY <1>2, <1>4, <1>12 DEF EmulateDevice, MapMachine, ShadowLeaf, Return
<1>13. CASE MapUser
  <2>1. /\ phase = "map" /\ phase' = "shadow" /\ shadow_pt_active
        /\ UNCHANGED <<gmem, satp_ppn, fault>> /\ fault_addr' = fault_addr
        /\ entry.addr \in Nat /\ InRam(entry.addr)
        /\ ensure_guest_machine_mapped(entry.addr) /\ UNCHANGED shadow_page_table
        /\ entry \in GuestEntry
        /\ entry' = [entry EXCEPT !.addr = HostPage(pt', entry.addr)]
    BY <1>13 DEF MapUser, TlbInv, VInv, TypeOK, GuestEntry, guest_vars, fault_addr
  <2>2. /\ IsTable(pt'[MachineRoot][Lvl3(entry.addr)])
        /\ GoodLeaf(MachineEntry(pt', entry.addr))
    BY <2>1, Ensure DEF TlbInv, VInv
  <2>3. HostPage(pt', entry.addr) = entry.addr + Offset
    BY <2>1, <2>2, HostExact
  <2>4. entry'.addr = entry.addr + Offset
    BY <2>1, <2>3 DEF GuestEntry
  <2>5. TablesInRam(fault_addr) =>
           /\ {"V", "U"} \subseteq Walk(gmem, satp_ppn, fault_addr).perm
           /\ entry.addr = Walk(gmem, satp_ppn, fault_addr).addr
    BY <2>1 DEF TlbInv, GuestWalkInv, WalkKnown
  <2>6. TablesInRam(fault_addr) => WalkKnown'
    BY <2>1, <2>4, <2>5 DEF WalkKnown
  <2> QED BY <1>0, <2>1, <2>6 DEF Handler
<1>14. CASE ShadowDown
  <2>1. /\ phase = "shadow" /\ phase' = "shadow"
        /\ UNCHANGED <<gmem, satp_ppn, fault, entry>> /\ fault_addr' = fault_addr
    BY <1>14 DEF ShadowDown, guest_vars, fault_addr
  <2>2. TablesInRam(fault_addr) => WalkKnown'
    BY <2>1 DEF TlbInv, GuestWalkInv, WalkKnown
  <2> QED BY <1>0, <2>1, <2>2 DEF Handler
<1>15. CASE WalkWild
  <2> SUFFICES ASSUME entry' \in Uninitialized,
                      UNCHANGED <<guest_vars, phase, fault>>
               PROVE  GuestWalkInv'
    BY <1>4, <1>15 DEF WalkWild
  <2>1. /\ phase = "walk" /\ phase' = "walk" /\ CanDescend /\ ~InRam(entry.addr)
        /\ UNCHANGED <<gmem, satp_ppn, fault>>
    BY <1>15 DEF WalkWild, guest_vars
  <2>2. ~TablesInRam(fault_addr)
    BY <2>1, WildOutside
  <2> QED BY <1>0, <2>1, <2>2 DEF Handler
<1> QED BY <1>3, <1>5, <1>6, <1>7, <1>8, <1>9, <1>10, <1>11, <1>12, <1>13, <1>14,
           <1>15
        DEF Next, Handle, halt_thread

(* The invariant of the refinement.                                        *)
LEMMA TlbInit == Init => TlbInv
<1> SUFFICES ASSUME Init PROVE TlbInv
  OBVIOUS
<1>1. \A i \in Slot : pt[MachineRoot][i] = EmptyEntry
  BY DEF Init, EmptyTable
<1>2. MachineExact
  BY <1>1, EntryKinds DEF MachineExact
<1>3. GuestWalkInv
  BY DEF Init, GuestWalkInv, WalkKnown
<1> QED BY <1>2, <1>3, VInvInit DEF TlbInv

(* Every step keeps it.                                                    *)
LEMMA TlbNext == TlbInv /\ [Next]_vars => TlbInv'
<1> SUFFICES ASSUME TlbInv, [Next]_vars PROVE TlbInv'
  OBVIOUS
<1>1. VInv'
  BY VInvNext DEF TlbInv
<1>2. MachineExact'
  BY ExactNext DEF TlbInv
<1>3. GuestWalkInv'
  BY <1>1, <1>2, GuestWalkNext
<1> QED BY <1>1, <1>2, <1>3 DEF TlbInv

(* It always holds.                                                        *)
LEMMA TlbInvariant == Spec => []TlbInv
BY TlbInit, TlbNext, PTL DEF Spec

-----------------------------------------------------------------------------
(* mret with a new root: neither table translates anything.                *)
LEMMA MretCached ==
    ASSUME VInv, guest_mret, VInv'
    PROVE  Cached' = Cached
<1>0. Tree(pt, free, ShadowRoots, MachineMid, ShadowMid, ShadowLow)
  BY DEF VInv, TreeInv
<1>1. CASE shadow_page_table # NULL
  <2>1. UNCHANGED <<pt, shadow_page_table>>
    BY <1>1 DEF guest_mret
  <2> QED BY <2>1, CachedSame
<1>2. CASE shadow_page_table = NULL
  <2>1. shadow_page_table' \in free
    BY <1>2, FreeForRoot DEF guest_mret, VInv
  <2> DEFINE r == shadow_page_table'
  <2>2. r # NULL /\ r \in TablePages /\ r \in ShadowRoots'
    BY <1>0, <2>1, VmemAssumption DEF Tree, Sorted, TablePages, ShadowRoots
  <2>3. pt' = [pt EXCEPT ![r] = EmptyTable]
    BY <1>2, <2>2 DEF guest_mret, NewTable
  <2>4. \A i \in Slot : pt'[r][i] = EmptyEntry
    BY <1>0, <2>2, <2>3 DEF Tree, Sorted, EmptyTable
  <2>5. Tree(pt', free', ShadowRoots', MachineMid', ShadowMid', ShadowLow')
    BY DEF VInv, TreeInv
  <2> HIDE DEF r
  <2>6. \A va \in Virt : Walk(pt', r, va) = EmptyEntry
    BY <2>2, <2>4, <2>5, EmptyRootWalk
  <2>7. DOMAIN pt = TablePages
    BY <1>0 DEF Tree, Sorted
  <2>8. \A va \in Virt : Walk(pt, shadow_page_table, va) = EmptyEntry
    BY <1>2, <2>7, NullWalk
  <2> QED BY <2>6, <2>8, CachedSame DEF r
<1> QED BY <1>1, <1>2

(* sfence.vma leaves no translation.                                       *)
LEMMA FlushCached ==
    ASSUME VInv, flush_shadow_pagetable, VInv'
    PROVE  Cached' = {}
<1>1. UNCHANGED shadow_page_table
  BY DEF flush_shadow_pagetable, guest_vars
<1>2. /\ Tree(pt', free', ShadowRoots', MachineMid', ShadowMid', ShadowLow')
      /\ DOMAIN pt' = TablePages /\ DOMAIN pt = TablePages
  BY DEF VInv, TreeInv, Tree, Sorted
<1>3. CASE shadow_page_table = NULL
  <2>1. \A va \in Virt : Walk(pt', shadow_page_table', va) = EmptyEntry
    BY <1>1, <1>2, <1>3, NullWalk
  <2> QED BY <2>1, CachedNoneNext
<1>4. CASE shadow_page_table # NULL
  <2> DEFINE r == shadow_page_table
  <2>1. r \in ShadowRoots' /\ r \in TablePages
    BY <1>1, <1>4 DEF ShadowRoots, VInv, TypeOK, TablePages
  <2>2. pt'[r] = EmptyTable
    BY <1>2, <1>4, <2>1 DEF flush_shadow_pagetable, clear_pagetable
  <2>3. \A i \in Slot : pt'[r][i] = EmptyEntry
    BY <2>2 DEF EmptyTable
  <2>4. shadow_page_table' = r
    BY <1>1
  <2> HIDE DEF r
  <2>5. \A va \in Virt : Walk(pt', r, va) = EmptyEntry
    BY <1>2, <2>1, <2>3, EmptyRootWalk
  <2> QED BY <2>4, <2>5, CachedNoneNext
<1> QED BY <1>3, <1>4

(* A table of the guest was written by it.                                 *)
LEMMA TableWritten ==
    ASSUME TypeOK, Written, NEW t, NEW i \in Slot, IsTable(Descend(gmem, t, i))
    PROVE  t \in GuestTables /\ Descend(gmem, t, i) \in GuestPtes[t][i]
<1>1. t \in DOMAIN gmem
  BY EntryKinds DEF Descend
<1>2. t \in GuestTables /\ Descend(gmem, t, i) = gmem[t][i]
  BY <1>1 DEF Descend, TypeOK
<1>3. gmem[t][i] # EmptyEntry
  BY <1>2, EntryKinds
<1> QED BY <1>2, <1>3 DEF Written

(* Translation stays in the RAM for a guest that keeps its tables there.   *)
LEMMA TablesStay ==
    ASSUME TablesKept, TypeOK, Written, NEW va \in Virt
    PROVE  TablesInRam(va)
<1> DEFINE e2 == Descend(gmem, satp_ppn, Top(va))
<1>1. InRam(satp_ppn)
  BY DEF TablesKept, TypeOK
<1>2. IsTable(e2) => InRam(e2.addr)
  <2>1. Top(va) \in Slot
    BY VirtIndices
  <2>2. IsTable(e2) => /\ satp_ppn \in GuestTables
                       /\ e2 \in GuestPtes[satp_ppn][Top(va)]
    BY <2>1, TableWritten
  <2> HIDE DEF e2
  <2> QED BY <2>1, <2>2 DEF TablesKept
<1> QED BY <1>1, <1>2 DEF TablesInRam

(* What the guest does to its tables.                                      *)
LEMMA WrittenNext ==
    ASSUME TypeOK, Written, [Next]_vars
    PROVE  Written'
<1>1. CASE UNCHANGED gmem
  BY <1>1 DEF Written
<1>2. CASE GuestWrite
  <2>1. PICK t \in GuestTables, i \in Slot :
           \E e \in GuestPtes[t][i] : gmem' = [gmem EXCEPT ![t][i] = e]
    BY <1>2 DEF GuestWrite
  <2>2. PICK e \in GuestPtes[t][i] : gmem' = [gmem EXCEPT ![t][i] = e]
    BY <2>1
  <2>3. \A u \in GuestTables, j \in Slot :
           gmem'[u][j] = IF u = t /\ j = i THEN e ELSE gmem[u][j]
    BY <2>2 DEF TypeOK
  <2> QED BY <2>3 DEF Written
<1>3. CASE UNCHANGED vars
  BY <1>1, <1>3 DEF vars, guest_vars
<1> QED BY <1>1, <1>2, <1>3
        DEF Next, Handle, SetSatp, guest_mret, guest_exception,
            flush_shadow_pagetable, InstructionPageFault, DataPageFault, Fetch,
            WalkFound, WalkRefused, WalkDown, WalkWild, EnsurePanics,
            EmulateDevice, MapTooHigh, MapMachine, MapUser, ShadowDown,
            ShadowPanics, ShadowLeaf, halt_thread, Panic, guest_vars

-----------------------------------------------------------------------------
(* The shadow table is a TLB of the guest's page tables, if those are in   *)
(* the guest's RAM.                                                        *)
THEOREM ShadowIsTlbHolds ==
    ASSUME TablesKept
    PROVE  Spec => ShadowIsTlb
<1>0. Spec => []Written
  <2>1. Init => Written
    BY DEF Init, Written, EmptyTable
  <2>2. TypeOK /\ Written /\ [Next]_vars => Written'
    BY WrittenNext
  <2> QED BY <2>1, <2>2, VmemTypeCorrect, PTL DEF Spec
<1>1. Init => Tlb!Init
  <2> SUFFICES ASSUME Init PROVE Tlb!Init
    OBVIOUS
  <2>1. DOMAIN pt = TablePages /\ shadow_page_table = NULL
    BY DEF Init, TablePages
  <2>2. \A va \in Virt : Walk(pt, shadow_page_table, va) = EmptyEntry
    BY <2>1, NullWalk
  <2>3. Cached = {}
    BY <2>2, CachedNone
  <2> QED BY <2>3 DEF Init, Tlb!Init
<1>2. TlbInv /\ Written /\ TlbInv' /\ [Next]_vars => [Tlb!Next]_(Tlb!tlb_vars)
  <2> SUFFICES ASSUME TlbInv, Written, TlbInv', [Next]_vars
               PROVE  Tlb!Next \/ UNCHANGED <<Cached, Current, sfence>>
    BY DEF Tlb!tlb_vars
  <2>0. VInv /\ VInv'
    BY DEF TlbInv
  <2>1. ASSUME Cached' = Cached, sfence' = FALSE PROVE Tlb!Next
    BY <2>1 DEF Tlb!Next, Tlb!Change
  <2>2. CASE UNCHANGED vars
    BY <2>2 DEF vars, table_vars, guest_vars, Cached, Current, GuestWalk
  <2>3. CASE UNCHANGED <<pt, shadow_page_table>> /\ sfence' = FALSE
    <3>1. Cached' = Cached
      BY <2>3, CachedSame
    <3> QED BY <2>1, <2>3, <3>1
  <2>4. CASE guest_mret
    <3>1. Cached' = Cached
      BY <2>0, <2>4, MretCached
    <3>2. sfence' = FALSE
      BY <2>4 DEF guest_mret
    <3> QED BY <2>1, <3>1, <3>2
  <2>5. CASE flush_shadow_pagetable
    <3>1. Cached' = {}
      BY <2>0, <2>5, FlushCached
    <3>2. Current' = Current /\ sfence' = TRUE
      BY <2>5 DEF flush_shadow_pagetable, guest_vars, Current, GuestWalk
    <3> QED BY <3>1, <3>2 DEF Tlb!Next, Tlb!Fence
  <2>6. CASE EnsureStep
    <3>1. /\ \A va \in Virt : Walk(pt', shadow_page_table', va)
                               = Walk(pt, shadow_page_table, va)
          /\ sfence' = FALSE
      BY <2>0, <2>6, EnsureWalks DEF EnsureStep
    <3>2. Cached' = Cached
      BY <3>1, CachedSame
    <3> QED BY <2>1, <3>1, <3>2
  <2>7. CASE ShadowDown
    <3>1. UNCHANGED shadow_page_table /\ sfence' = FALSE
      BY <2>7 DEF ShadowDown, guest_vars
    <3>2. \A va \in Virt : Walk(pt', shadow_page_table, va)
                            = Walk(pt, shadow_page_table, va)
      BY <2>0, <2>7, ShadowDownStep
    <3>3. Cached' = Cached
      BY <3>1, <3>2, CachedSame
    <3> QED BY <2>1, <3>1, <3>3
  <2>8. CASE ShadowLeaf /\ phase' = "guest"
    <3>1. Cached' \subseteq Cached \union Current
      <4>1. fault_addr \in Virt
        BY <2>0, <2>8, ShadowPlace DEF ShadowLeaf
      <4>2. TablesInRam(fault_addr)
        BY <2>0, <4>1, TablesStay DEF VInv
      <4> QED BY <2>8, <4>2, LeafCached
    <3>2. sfence' = FALSE /\ UNCHANGED guest_vars
      BY <2>8 DEF ShadowLeaf, Panic, Return
    <3>3. Current' = Current
      BY <3>2 DEF guest_vars, Current, GuestWalk
    <3> QED BY <3>1, <3>2, <3>3 DEF Tlb!Next, Tlb!Use
  <2> QED BY <2>0, <2>2, <2>3, <2>4, <2>5, <2>6, <2>7, <2>8, StepKinds
<1> QED BY <1>0, <1>1, <1>2, TlbInvariant, PTL DEF Spec, ShadowIsTlb, Tlb!Spec
=============================================================================
