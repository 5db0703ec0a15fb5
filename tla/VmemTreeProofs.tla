--------------------------- MODULE VmemTreeProofs ---------------------------
(***************************************************************************)
(* The two trees of page tables of Vmem as an invariant, and what each     *)
(* change of a table does to it; the indices of addresses; the walks.  The *)
(* theorems about Vmem are in VmemProofs.                                  *)
(***************************************************************************)
EXTENDS Vmem, TLAPS, FiniteSetTheorems

TablePages == Pool \union {MachineRoot}

\* An entry of a table that has no leaves, with its children in C.
TableOrEmpty(e, C) == e = EmptyEntry \/ (e.addr \in C /\ e = TableEntry(e.addr))

\* An entry of a table of the lowest level.
GoodLeaf(e) == /\ e \in GuestEntry
               /\ IsLeaf(e)
               /\ "U" \in e.perm
               /\ e.addr >= RamStart + Offset
LeafOrEmpty(e) == e = EmptyEntry \/ GoodLeaf(e)

\* Entry j of table p is one more pointer to a table.
Links(P, p, i, c) == IsTable(P[p][i]) /\ P[p][i].addr = c

(* The tables P with the free pages F: the machine root with the tables mm *)
(* below it, the shadow roots S (at most one) with the tables sm and sl on *)
(* the two levels below.                                                   *)
Sorted(P, F, S, mm, sm, sl) ==
    /\ P \in [TablePages -> [Slot -> Entry]]
    /\ S \subseteq Pool /\ mm \subseteq Pool /\ sm \subseteq Pool /\ sl \subseteq Pool
    /\ \A p, q \in S : p = q
    /\ \A p \in Pool : /\ p \in S => p \notin mm /\ p \notin sm /\ p \notin sl
                       /\ p \in mm => p \notin sm /\ p \notin sl
                       /\ p \in sm => p \notin sl
    /\ F \subseteq Pool
    /\ \A p \in Pool : p \in F <=> /\ p \notin S /\ p \notin mm
                                   /\ p \notin sm /\ p \notin sl

Contents(P, S, mm, sm, sl) ==
    /\ \A i \in Slot : TableOrEmpty(P[MachineRoot][i], mm)
    /\ \A p \in S, i \in Slot : TableOrEmpty(P[p][i], sm)
    /\ \A p \in sm, i \in Slot : TableOrEmpty(P[p][i], sl)
    /\ \A p \in mm \union sl, i \in Slot : LeafOrEmpty(P[p][i])

Parents(P, S, mm, sm, sl) ==
    /\ \A c \in mm : \E i \in Slot : Links(P, MachineRoot, i, c)
    /\ \A c \in sm : \E p \in S, i \in Slot : Links(P, p, i, c)
    /\ \A c \in sl : \E p \in sm, i \in Slot : Links(P, p, i, c)

OneParent(P, S, sm) ==
    \A p, q \in S \union sm \union {MachineRoot} : \A i, j \in Slot :
        /\ IsTable(P[p][i]) /\ IsTable(P[q][j])
        /\ P[p][i].addr = P[q][j].addr
        => p = q /\ i = j

Tree(P, F, S, mm, sm, sl) ==
    /\ Sorted(P, F, S, mm, sm, sl)
    /\ Contents(P, S, mm, sm, sl)
    /\ Parents(P, S, mm, sm, sl)
    /\ OneParent(P, S, sm)

-----------------------------------------------------------------------------
(* The kinds of entries.                                                   *)
LEMMA EntryKinds ==
    /\ EmptyEntry \in GuestEntry /\ EmptyEntry.perm = {} /\ EmptyEntry.addr = 0
    /\ ~Valid(EmptyEntry) /\ ~IsTable(EmptyEntry) /\ ~IsLeaf(EmptyEntry)
    /\ \A t : /\ Valid(TableEntry(t)) /\ IsTable(TableEntry(t))
              /\ ~IsLeaf(TableEntry(t)) /\ TableEntry(t).addr = t
    /\ \A t \in Pool : TableEntry(t) \in Entry
    /\ \A t \in Nat : TableEntry(t) \in GuestEntry
    /\ \A e : GoodLeaf(e) => ~IsTable(e) /\ Valid(e) /\ e \in Entry
    /\ GuestEntry \subseteq Entry
<1>1. /\ EmptyEntry.perm = {} /\ EmptyEntry.addr = 0
      /\ ~Valid(EmptyEntry) /\ ~IsTable(EmptyEntry) /\ ~IsLeaf(EmptyEntry)
  BY DEF EmptyEntry, Valid, IsTable, IsLeaf
<1>2. EmptyEntry \in GuestEntry /\ GuestEntry \subseteq Entry
  BY DEF EmptyEntry, GuestEntry, Entry
<1>3. \A t : /\ Valid(TableEntry(t)) /\ IsTable(TableEntry(t))
             /\ ~IsLeaf(TableEntry(t)) /\ TableEntry(t).addr = t
  BY DEF TableEntry, Valid, IsTable, IsLeaf, Kind
<1>4. \A t \in Pool : TableEntry(t) \in Entry
  BY DEF TableEntry, Entry, Perm
<1>5. \A t \in Nat : TableEntry(t) \in GuestEntry
  BY DEF TableEntry, GuestEntry, Perm
<1>6. \A e : GoodLeaf(e) => ~IsTable(e) /\ Valid(e) /\ e \in Entry
  BY <1>2 DEF GoodLeaf, IsTable, IsLeaf
<1> QED BY <1>1, <1>2, <1>3, <1>4, <1>5, <1>6

(* What an entry of each kind of table is.                                 *)
LEMMA EntryCases ==
    /\ \A e, C : TableOrEmpty(e, C) =>
          /\ Valid(e) <=> IsTable(e)
          /\ ~IsLeaf(e)
          /\ IsTable(e) => e.addr \in C /\ e = TableEntry(e.addr)
          /\ ~IsTable(e) => e = EmptyEntry
    /\ \A e : LeafOrEmpty(e) =>
          /\ Valid(e) <=> IsLeaf(e)
          /\ ~IsTable(e)
          /\ IsLeaf(e) => GoodLeaf(e)
          /\ ~IsLeaf(e) => e = EmptyEntry
<1>1. ASSUME NEW e, NEW C, TableOrEmpty(e, C)
      PROVE  /\ Valid(e) <=> IsTable(e)
             /\ ~IsLeaf(e)
             /\ IsTable(e) => e.addr \in C /\ e = TableEntry(e.addr)
             /\ ~IsTable(e) => e = EmptyEntry
  BY <1>1, EntryKinds DEF TableOrEmpty
<1>2. ASSUME NEW e, LeafOrEmpty(e)
      PROVE  /\ Valid(e) <=> IsLeaf(e)
             /\ ~IsTable(e)
             /\ IsLeaf(e) => GoodLeaf(e)
             /\ ~IsLeaf(e) => e = EmptyEntry
  BY <1>2, EntryKinds DEF LeafOrEmpty, GoodLeaf
<1> QED BY <1>1, <1>2

(* The sets of tables are those that the definitions of Vmem find by        *)
(* following the entries.                                                  *)
LEMMA TreeSets ==
    ASSUME NEW P, NEW F, NEW S, NEW mm, NEW sm, NEW sl,
           Tree(P, F, S, mm, sm, sl)
    PROVE  /\ mm = {q \in Pool : \E p \in {MachineRoot}, i \in Slot :
                       IsTable(P[p][i]) /\ P[p][i].addr = q}
           /\ sm = {q \in Pool : \E p \in S, i \in Slot :
                       IsTable(P[p][i]) /\ P[p][i].addr = q}
           /\ sl = {q \in Pool : \E p \in sm, i \in Slot :
                       IsTable(P[p][i]) /\ P[p][i].addr = q}
<1> USE EntryCases DEF Tree, Sorted, Contents, Parents, Links
<1>1. mm = {q \in Pool : \E p \in {MachineRoot}, i \in Slot :
               IsTable(P[p][i]) /\ P[p][i].addr = q}
  OBVIOUS
<1>2. sm = {q \in Pool : \E p \in S, i \in Slot :
               IsTable(P[p][i]) /\ P[p][i].addr = q}
  OBVIOUS
<1>3. sl = {q \in Pool : \E p \in sm, i \in Slot :
               IsTable(P[p][i]) /\ P[p][i].addr = q}
  OBVIOUS
<1> QED BY <1>1, <1>2, <1>3

-----------------------------------------------------------------------------
(* One entry of a table is changed.                                        *)
LEMMA SetEntry ==
    ASSUME NEW P \in [TablePages -> [Slot -> Entry]],
           NEW t \in TablePages, NEW k \in Slot, NEW e \in Entry,
           NEW Q, Q = [P EXCEPT ![t][k] = e]
    PROVE  /\ Q \in [TablePages -> [Slot -> Entry]]
           /\ \A p \in TablePages, i \in Slot :
                 Q[p][i] = IF p = t /\ i = k THEN e ELSE P[p][i]
<1>1. Q \in [TablePages -> [Slot -> Entry]]
  OBVIOUS
<1>2. ASSUME NEW p \in TablePages, NEW i \in Slot
      PROVE  Q[p][i] = IF p = t /\ i = k THEN e ELSE P[p][i]
  OBVIOUS
<1> QED BY <1>1, <1>2

(* A new leaf in a table of the lowest level.                              *)
LEMMA SetLeaf ==
    ASSUME NEW P, NEW F, NEW S, NEW mm, NEW sm, NEW sl,
           Tree(P, F, S, mm, sm, sl),
           NEW t \in mm \union sl, NEW k \in Slot, NEW e, GoodLeaf(e),
           NEW Q, Q \in [TablePages -> [Slot -> Entry]],
           \A p \in TablePages, i \in Slot :
              Q[p][i] = IF p = t /\ i = k THEN e ELSE P[p][i]
    PROVE  Tree(Q, F, S, mm, sm, sl)
<1>1. /\ t \notin S /\ t \notin sm /\ t # MachineRoot
      /\ \A p \in S \union sm \union {MachineRoot}, i \in Slot :
            Q[p][i] = P[p][i]
  BY VmemAssumption DEF Tree, Sorted, TablePages
<1>2. Sorted(Q, F, S, mm, sm, sl)
  BY DEF Tree, Sorted
<1>3. Contents(Q, S, mm, sm, sl)
  <2>1. \A p \in mm \union sl, i \in Slot : LeafOrEmpty(Q[p][i])
    BY DEF Tree, Sorted, Contents, LeafOrEmpty, TablePages
  <2> QED BY <1>1, <2>1 DEF Tree, Contents
<1>4. Parents(Q, S, mm, sm, sl)
  BY <1>1 DEF Tree, Parents, Links
<1>5. OneParent(Q, S, sm)
  BY <1>1 DEF Tree, OneParent
<1> QED BY <1>2, <1>3, <1>4, <1>5 DEF Tree

\* Q is P with a link from entry k of r to c, which was free.
Linked(P, Q, F, r, k, c) ==
    /\ Q \in [TablePages -> [Slot -> Entry]]
    /\ c \in F
    /\ ~Valid(P[r][k])
    /\ Q[r][k] = TableEntry(c)
    /\ \A p \in TablePages, i \in Slot :
          p # c /\ ~(p = r /\ i = k) => Q[p][i] = P[p][i]

(* A new table below the machine root.                                     *)
LEMMA AddMachineTable ==
    ASSUME NEW P, NEW F, NEW S, NEW mm, NEW sm, NEW sl,
           Tree(P, F, S, mm, sm, sl),
           NEW k \in Slot, NEW c, NEW Q, Linked(P, Q, F, MachineRoot, k, c),
           \A i \in Slot : LeafOrEmpty(Q[c][i])
    PROVE  Tree(Q, F \ {c}, S, mm \union {c}, sm, sl)
<1>0. /\ c \in Pool /\ c # MachineRoot
      /\ c \notin S /\ c \notin mm /\ c \notin sm /\ c \notin sl
      /\ MachineRoot \notin S \union mm \union sm \union sl
      /\ S \union mm \union sm \union sl \union {MachineRoot} \subseteq TablePages
  BY VmemAssumption DEF Tree, Sorted, Linked, TablePages
<1>1. \A p \in S \union mm \union sm \union sl, i \in Slot : Q[p][i] = P[p][i]
  BY <1>0 DEF Linked
<1>2. \A i \in Slot \ {k} : Q[MachineRoot][i] = P[MachineRoot][i]
  BY <1>0 DEF Linked
<1>3. Sorted(Q, F \ {c}, S, mm \union {c}, sm, sl)
  BY <1>0 DEF Tree, Sorted, Linked
<1>4. Contents(Q, S, mm \union {c}, sm, sl)
  <2>1. \A i \in Slot : TableOrEmpty(Q[MachineRoot][i], mm \union {c})
    <3>1. TableOrEmpty(Q[MachineRoot][k], mm \union {c})
      BY EntryKinds DEF Linked, TableOrEmpty
    <3>2. \A i \in Slot \ {k} : TableOrEmpty(Q[MachineRoot][i], mm \union {c})
      BY <1>2 DEF Tree, Contents, TableOrEmpty
    <3> QED BY <3>1, <3>2
  <2> QED BY <1>1, <2>1 DEF Tree, Contents
<1>5. Parents(Q, S, mm \union {c}, sm, sl)
  <2>1. ASSUME NEW d \in mm PROVE \E i \in Slot : Links(Q, MachineRoot, i, d)
    <3>1. PICK i \in Slot : Links(P, MachineRoot, i, d)
      BY DEF Tree, Parents
    <3>2. i # k
      BY <3>1 DEF Links, Linked, IsTable
    <3> QED BY <1>2, <3>1, <3>2 DEF Links
  <2>2. Links(Q, MachineRoot, k, c)
    BY EntryKinds DEF Linked, Links
  <2> QED BY <1>1, <2>1, <2>2 DEF Tree, Parents, Links
<1>6. OneParent(Q, S, sm)
  <2>1. ASSUME NEW p \in S \union sm \union {MachineRoot}, NEW i \in Slot,
               IsTable(P[p][i])
        PROVE  P[p][i].addr # c
    BY <1>0, <2>1, EntryCases DEF Tree, Contents
  <2>2. Q[MachineRoot][k].addr = c
    BY EntryKinds DEF Linked
  <2> QED BY <1>0, <1>1, <1>2, <2>1, <2>2 DEF Tree, OneParent
<1> QED BY <1>3, <1>4, <1>5, <1>6 DEF Tree

(* A new table below the shadow root.                                      *)
LEMMA AddMidTable ==
    ASSUME NEW P, NEW F, NEW S, NEW mm, NEW sm, NEW sl,
           Tree(P, F, S, mm, sm, sl),
           NEW r \in S, NEW k \in Slot, NEW c, NEW Q, Linked(P, Q, F, r, k, c),
           \A i \in Slot : Q[c][i] = EmptyEntry
    PROVE  Tree(Q, F \ {c}, S, mm, sm \union {c}, sl)
<1>0. /\ c \in Pool /\ c # MachineRoot /\ c # r /\ r # MachineRoot
      /\ S = {r}
      /\ c \notin S /\ c \notin mm /\ c \notin sm /\ c \notin sl
      /\ r \notin mm \union sm \union sl \union {MachineRoot}
      /\ S \union mm \union sm \union sl \union {MachineRoot} \subseteq TablePages
  BY VmemAssumption DEF Tree, Sorted, Linked, TablePages
<1>1. \A p \in {MachineRoot} \union mm \union sm \union sl, i \in Slot :
         Q[p][i] = P[p][i]
  BY <1>0 DEF Linked
<1>2. \A i \in Slot \ {k} : Q[r][i] = P[r][i]
  BY <1>0 DEF Linked
<1>3. Sorted(Q, F \ {c}, S, mm, sm \union {c}, sl)
  BY <1>0 DEF Tree, Sorted, Linked
<1>4. Contents(Q, S, mm, sm \union {c}, sl)
  <2>1. \A i \in Slot : TableOrEmpty(Q[r][i], sm \union {c})
    <3>1. TableOrEmpty(Q[r][k], sm \union {c})
      BY EntryKinds DEF Linked, TableOrEmpty
    <3>2. \A i \in Slot \ {k} : TableOrEmpty(Q[r][i], sm \union {c})
      BY <1>2 DEF Tree, Contents, TableOrEmpty
    <3> QED BY <3>1, <3>2
  <2>2. \A i \in Slot : TableOrEmpty(Q[c][i], sl)
    BY DEF TableOrEmpty
  <2> QED BY <1>0, <1>1, <2>1, <2>2 DEF Tree, Contents
<1>5. Parents(Q, S, mm, sm \union {c}, sl)
  <2>1. ASSUME NEW d \in sm PROVE \E i \in Slot : Links(Q, r, i, d)
    <3>1. PICK i \in Slot : Links(P, r, i, d)
      BY <1>0 DEF Tree, Parents
    <3>2. i # k
      BY <3>1 DEF Links, Linked, IsTable
    <3> QED BY <1>2, <3>1, <3>2 DEF Links
  <2>2. Links(Q, r, k, c)
    BY EntryKinds DEF Linked, Links
  <2> QED BY <1>0, <1>1, <2>1, <2>2 DEF Tree, Parents, Links
<1>6. OneParent(Q, S, sm \union {c})
  <2>1. ASSUME NEW p \in S \union sm \union {MachineRoot}, NEW i \in Slot,
               IsTable(P[p][i])
        PROVE  P[p][i].addr # c
    BY <1>0, <2>1, EntryCases DEF Tree, Contents
  <2>2. Q[r][k].addr = c
    BY EntryKinds DEF Linked
  <2>3. \A i \in Slot : ~IsTable(Q[c][i])
    BY EntryKinds
  <2> QED BY <1>0, <1>1, <1>2, <2>1, <2>2, <2>3 DEF Tree, OneParent
<1> QED BY <1>3, <1>4, <1>5, <1>6 DEF Tree

(* A new table on the lowest level of the shadow tree.                     *)
LEMMA AddLowTable ==
    ASSUME NEW P, NEW F, NEW S, NEW mm, NEW sm, NEW sl,
           Tree(P, F, S, mm, sm, sl),
           NEW r \in sm, NEW k \in Slot, NEW c, NEW Q, Linked(P, Q, F, r, k, c),
           \A i \in Slot : Q[c][i] = EmptyEntry
    PROVE  Tree(Q, F \ {c}, S, mm, sm, sl \union {c})
<1>0. /\ c \in Pool /\ c # MachineRoot /\ c # r /\ r # MachineRoot
      /\ c \notin S /\ c \notin mm /\ c \notin sm /\ c \notin sl
      /\ r \notin mm \union S \union sl \union {MachineRoot}
      /\ S \union mm \union sm \union sl \union {MachineRoot} \subseteq TablePages
  BY VmemAssumption DEF Tree, Sorted, Linked, TablePages
<1>1. \A p \in ({MachineRoot} \union mm \union S \union sm \union sl) \ {r},
         i \in Slot : Q[p][i] = P[p][i]
  BY <1>0 DEF Linked
<1>2. \A i \in Slot \ {k} : Q[r][i] = P[r][i]
  BY <1>0 DEF Linked
<1>3. Sorted(Q, F \ {c}, S, mm, sm, sl \union {c})
  BY <1>0 DEF Tree, Sorted, Linked
<1>4. Contents(Q, S, mm, sm, sl \union {c})
  <2>1. \A p \in sm, i \in Slot : TableOrEmpty(Q[p][i], sl \union {c})
    <3>1. TableOrEmpty(Q[r][k], sl \union {c})
      BY EntryKinds DEF Linked, TableOrEmpty
    <3>2. \A p \in sm, i \in Slot : TableOrEmpty(P[p][i], sl \union {c})
      BY DEF Tree, Contents, TableOrEmpty
    <3> QED BY <1>1, <1>2, <3>1, <3>2
  <2>2. \A i \in Slot : LeafOrEmpty(Q[c][i])
    BY DEF LeafOrEmpty
  <2> QED BY <1>0, <1>1, <2>1, <2>2 DEF Tree, Contents
<1>5. Parents(Q, S, mm, sm, sl \union {c})
  <2>1. ASSUME NEW d \in sl PROVE \E p \in sm, i \in Slot : Links(Q, p, i, d)
    <3>1. PICK p \in sm, i \in Slot : Links(P, p, i, d)
      BY DEF Tree, Parents
    <3>2. ~(p = r /\ i = k)
      BY <3>1 DEF Links, Linked, IsTable
    <3> QED BY <1>1, <1>2, <3>1, <3>2 DEF Links
  <2>2. Links(Q, r, k, c)
    BY EntryKinds DEF Linked, Links
  <2> QED BY <1>0, <1>1, <2>1, <2>2 DEF Tree, Parents, Links
<1>6. OneParent(Q, S, sm)
  <2>1. ASSUME NEW p \in S \union sm \union {MachineRoot}, NEW i \in Slot,
               IsTable(P[p][i])
        PROVE  P[p][i].addr # c
    BY <1>0, <2>1, EntryCases DEF Tree, Contents
  <2>2. Q[r][k].addr = c
    BY EntryKinds DEF Linked
  <2> QED BY <1>0, <1>1, <1>2, <2>1, <2>2 DEF Tree, OneParent
<1> QED BY <1>3, <1>4, <1>5, <1>6 DEF Tree

(* The shadow root is allocated.                                           *)
LEMMA AddRoot ==
    ASSUME NEW P, NEW F, NEW mm, NEW sm, NEW sl,
           Tree(P, F, {}, mm, sm, sl),
           NEW c \in F, NEW Q, Q \in [TablePages -> [Slot -> Entry]],
           \A i \in Slot : Q[c][i] = EmptyEntry,
           \A p \in TablePages \ {c} : Q[p] = P[p]
    PROVE  Tree(Q, F \ {c}, {c}, mm, {}, {})
<1>0. /\ c \in Pool /\ c # MachineRoot
      /\ c \notin mm /\ c \notin sm /\ c \notin sl
      /\ mm \union {MachineRoot} \subseteq TablePages
  BY VmemAssumption DEF Tree, Sorted, TablePages
<1>1. sm = {} /\ sl = {}
  BY DEF Tree, Parents
<1>2. \A p \in mm \union {MachineRoot} : Q[p] = P[p]
  BY <1>0
<1>3. Sorted(Q, F \ {c}, {c}, mm, {}, {})
  BY <1>0, <1>1 DEF Tree, Sorted
<1>4. Contents(Q, {c}, mm, {}, {})
  BY <1>1, <1>2 DEF Tree, Contents, TableOrEmpty
<1>5. Parents(Q, {c}, mm, {}, {})
  BY <1>2 DEF Tree, Parents, Links
<1>6. OneParent(Q, {c}, {})
  <2>1. \A i \in Slot : ~IsTable(Q[c][i])
    BY EntryKinds
  <2> QED BY <1>1, <1>2, <2>1 DEF Tree, OneParent
<1> QED BY <1>3, <1>4, <1>5, <1>6 DEF Tree

(* The tables below the shadow root are cleared and given back.            *)
LEMMA ClearTree ==
    ASSUME NEW P, NEW F, NEW S, NEW mm, NEW sm, NEW sl,
           Tree(P, F, S, mm, sm, sl),
           NEW Q, Q = [p \in TablePages |-> IF p \in sm \union sl \union S
                                            THEN EmptyTable ELSE P[p]]
    PROVE  Tree(Q, F \union sm \union sl, S, mm, {}, {})
<1>0. EmptyTable \in [Slot -> Entry] /\ \A i \in Slot : EmptyTable[i] = EmptyEntry
  BY EntryKinds DEF EmptyTable
<1>1. /\ MachineRoot \notin sm \union sl \union S
      /\ S \union mm \union {MachineRoot} \subseteq TablePages
  BY VmemAssumption DEF Tree, Sorted, TablePages
<1>2. /\ \A p \in mm \union {MachineRoot} : Q[p] = P[p]
      /\ \A p \in S, i \in Slot : Q[p][i] = EmptyEntry
  BY <1>0, <1>1 DEF Tree, Sorted
<1>3. Sorted(Q, F \union sm \union sl, S, mm, {}, {})
  <2>1. Q \in [TablePages -> [Slot -> Entry]]
    BY <1>0 DEF Tree, Sorted
  <2> QED BY <2>1 DEF Tree, Sorted
<1>4. Contents(Q, S, mm, {}, {})
  BY <1>2 DEF Tree, Contents, TableOrEmpty
<1>5. Parents(Q, S, mm, {}, {})
  <2>1. Q[MachineRoot] = P[MachineRoot]
    BY <1>2
  <2>2. \A d \in mm : \E i \in Slot : Links(P, MachineRoot, i, d)
    BY DEF Tree, Parents
  <2>3. \A d \in mm : \E i \in Slot : Links(Q, MachineRoot, i, d)
    BY <2>1, <2>2, Zenon DEF Links
  <2> QED BY <2>3, Zenon DEF Parents
<1>6. OneParent(Q, S, {})
  <2>1. \A p \in S, i \in Slot : ~IsTable(Q[p][i])
    BY <1>2, EntryKinds
  <2> QED BY <1>2, <2>1 DEF Tree, OneParent
<1> QED BY <1>3, <1>4, <1>5, <1>6 DEF Tree

-----------------------------------------------------------------------------
(* Division.                                                               *)
LEMMA DivMod ==
    ASSUME NEW a \in Nat, NEW n \in Nat \ {0}
    PROVE  /\ a \div n \in Nat
           /\ a % n \in 0 .. n - 1
           /\ a = n * (a \div n) + (a % n)
OBVIOUS

(* A quotient is at least as large as any factor that fits.                *)
LEMMA DivLower ==
    ASSUME NEW a \in Nat, NEW b \in Nat, NEW n \in Nat \ {0}, a >= b * n
    PROVE  a \div n >= b
<1>1. DEFINE q == a \div n
             r == a % n
<1>2. q \in Nat /\ r \in 0 .. n - 1 /\ a = n * q + r
  BY DivMod
<1> HIDE DEF q, r
<1>3. ASSUME q < b PROVE FALSE
  <2>1. q + 1 <= b
    BY <1>2, <1>3
  <2>2. (q + 1) * n <= b * n
    BY <1>2, <2>1
  <2>3. (q + 1) * n = n * q + n
    BY <1>2
  <2>4. n * q \in Nat /\ b * n \in Nat
    BY <1>2
  <2> QED BY <1>2, <2>2, <2>3, <2>4
<1> QED BY <1>2, <1>3 DEF q

(* A number is taken apart into what it was put together from.             *)
LEMMA DivSum ==
    ASSUME NEW a \in Nat, NEW n \in Nat \ {0}, NEW b \in 0 .. n - 1
    PROVE  (a * n + b) \div n = a /\ (a * n + b) % n = b
<1> DEFINE x == a * n + b
           q == x \div n
           r == x % n
<1>1. x \in Nat
  OBVIOUS
<1>2. q \in Nat /\ r \in 0 .. n - 1 /\ x = n * q + r
  BY <1>1, DivMod
<1>3. a * n + b = n * q + r
  BY <1>2
<1> HIDE DEF q, r
<1>4. ~(q < a)
  <2> SUFFICES ASSUME q < a PROVE FALSE
    OBVIOUS
  <2>1. q + 1 <= a
    BY <1>2
  <2>2. (q + 1) * n <= a * n
    BY <1>2, <2>1
  <2>3. (q + 1) * n = n * q + n /\ n * q \in Nat /\ a * n \in Nat
    BY <1>2
  <2> QED BY <1>2, <1>3, <2>2, <2>3
<1>5. ~(a < q)
  <2> SUFFICES ASSUME a < q PROVE FALSE
    OBVIOUS
  <2>1. a + 1 <= q
    BY <1>2
  <2>2. (a + 1) * n <= q * n
    BY <1>2, <2>1
  <2>3. (a + 1) * n = a * n + n /\ n * q = q * n /\ n * q \in Nat /\ a * n \in Nat
    BY <1>2
  <2> QED BY <1>2, <1>3, <2>2, <2>3
<1>6. q = a
  BY <1>2, <1>4, <1>5
<1>7. r = b
  <2>1. n * q = a * n /\ a * n \in Nat
    BY <1>6
  <2> QED BY <1>2, <1>3, <2>1
<1> QED BY <1>6, <1>7 DEF q, r

(* The indices of an address in the guest's RAM.                           *)
LEMMA Levels ==
    ASSUME NEW g \in Nat
    PROVE  /\ Lvl3(g) \in Nat /\ Lvl2(g) \in Slot /\ g % N \in Slot
           /\ InRam(g) => Lvl3(g) \in Slot /\ Lvl3(g) >= RamL3
           /\ RamStart \in Nat \ {0}
<1> DEFINE h == g \div N
<1>1. N \in Nat \ {0} /\ RamL3 \in Nat \ {0}
  BY VmemAssumption DEF Slot
<1>2. h \in Nat /\ h \div N \in Nat /\ h % N \in 0 .. N - 1 /\ g % N \in 0 .. N - 1
  BY <1>1, DivMod
<1>3. RamL3 * N \in Nat \ {0} /\ RamStart = (RamL3 * N) * N
      /\ RamStart \in Nat \ {0}
  BY <1>1 DEF RamStart
<1>4. ASSUME InRam(g) PROVE h \div N >= RamL3 /\ h \div N < N
  <2>1. g >= (RamL3 * N) * N
    BY <1>4, <1>3 DEF InRam, TooLow
  <2>2. h >= RamL3 * N
    BY <1>1, <1>3, <2>1, DivLower
  <2>3. h \div N >= RamL3
    BY <1>1, <1>2, <2>2, DivLower
  <2>4. h \div N < N
    BY <1>4, <1>1, <1>2 DEF InRam, TooHigh, Lvl3
  <2> QED BY <2>3, <2>4
<1> QED BY <1>1, <1>2, <1>3, <1>4 DEF Lvl3, Lvl2, Slot

(* The entry of a new region maps guest memory.                            *)
LEMMA RegionGood ==
    ASSUME NEW g \in Nat, InRam(g)
    PROVE  GoodLeaf(RegionEntry(g))
<1> DEFINE a == Lvl3(g)
           b == Lvl2(g)
<1>1. /\ a \in Nat /\ b \in Nat /\ a >= RamL3
      /\ N \in Nat \ {0} /\ RamL3 \in Nat /\ Offset \in Nat
  BY Levels, VmemAssumption DEF Slot
<1> HIDE DEF a, b
<1>2. a * N >= RamL3 * N /\ a * N \in Nat /\ RamL3 * N \in Nat
  BY <1>1
<1>3. (a * N + b) * N >= (RamL3 * N) * N
  BY <1>1, <1>2
<1>4. (a * N + b) * N \in Nat /\ (RamL3 * N) * N \in Nat
  BY <1>1, <1>2
<1>5. /\ (a * N + b) * N + Offset >= RamStart + Offset
      /\ (a * N + b) * N + Offset \in Nat
  BY <1>1, <1>3, <1>4 DEF RamStart
<1> QED BY <1>5 DEF RegionEntry, GoodLeaf, GuestEntry, IsLeaf, Valid, Perm, Kind,
                    a, b

(* The indices of a virtual page.                                          *)
LEMMA VirtIndices ==
    ASSUME NEW va \in Virt
    PROVE  /\ Top(va) \in Slot /\ va[1] \in Slot /\ va[0] \in Slot
           /\ va[2] \in Nat
           /\ va[2] < N => va[2] \in Slot /\ Top(va) = va[2]
           /\ PageNumber(va) \in Nat
<1>1. /\ N \in Nat \ {0} /\ va[2] \in Nat /\ va[2] < 2 * N
      /\ va[1] \in Slot /\ va[0] \in Slot
  BY VmemAssumption DEF VirtPage
<1>2. va[1] \in Nat /\ va[0] \in Nat
  BY <1>1 DEF Slot
<1>3. va[2] * N \in Nat
  BY <1>1
<1>4. (va[2] * N + va[1]) * N \in Nat
  BY <1>1, <1>2, <1>3
<1>5. PageNumber(va) \in Nat
  BY <1>2, <1>4 DEF PageNumber
<1>6. Top(va) \in Slot
  BY <1>1 DEF Top, Slot
<1> QED BY <1>1, <1>5, <1>6 DEF Top, Slot

-----------------------------------------------------------------------------
(* A walk of the machine table ends at the second level.                   *)
LEMMA MachineWalk ==
    ASSUME NEW P, NEW F, NEW S, NEW mm, NEW sm, NEW sl,
           Tree(P, F, S, mm, sm, sl), NEW va \in Virt
    PROVE  LET e2 == P[MachineRoot][Top(va)]
               e1 == P[e2.addr][va[1]]
           IN  /\ Walk(P, MachineRoot, va) =
                     IF IsTable(e2) /\ IsLeaf(e1)
                     THEN [e1 EXCEPT !.addr = @ + va[0]] ELSE EmptyEntry
               /\ Walk(P, MachineRoot, va) \in GuestEntry
<1> DEFINE e2 == P[MachineRoot][Top(va)]
           e1 == P[e2.addr][va[1]]
<1>1. /\ Top(va) \in Slot /\ va[1] \in Slot /\ va[0] \in Nat
      /\ DOMAIN P = TablePages /\ MachineRoot \in TablePages
      /\ mm \subseteq TablePages
  BY VirtIndices, VmemAssumption DEF Tree, Sorted, TablePages, Slot
<1>2. /\ Descend(P, MachineRoot, Top(va)) = e2
      /\ TableOrEmpty(e2, mm)
  BY <1>1 DEF Descend, Tree, Contents
<1>3. CASE IsTable(e2)
  <2>1. e2.addr \in mm
    BY <1>2, <1>3, EntryCases
  <2>2. Descend(P, e2.addr, va[1]) = e1 /\ LeafOrEmpty(e1)
    BY <1>1, <2>1 DEF Descend, Tree, Contents
  <2>3. ~IsLeaf(e2) /\ ~IsTable(e1) /\ (IsLeaf(e1) => GoodLeaf(e1))
    BY <1>2, <2>2, EntryCases
  <2> HIDE DEF e2, e1
  <2>4. IsLeaf(e1) => [e1 EXCEPT !.addr = @ + va[0]] \in GuestEntry
    <3> SUFFICES ASSUME IsLeaf(e1)
                 PROVE  [e1 EXCEPT !.addr = @ + va[0]] \in GuestEntry
      OBVIOUS
    <3>1. e1 \in GuestEntry
      BY <2>3 DEF GoodLeaf
    <3>2. e1.addr + va[0] \in Nat
      BY <1>1, <3>1 DEF GuestEntry
    <3> QED BY <3>1, <3>2 DEF GuestEntry
  <2>5. Walk(P, MachineRoot, va) = IF IsLeaf(e1)
                                   THEN [e1 EXCEPT !.addr = @ + va[0]]
                                   ELSE EmptyEntry
    BY <1>2, <1>3, <2>2, <2>3 DEF Walk
  <2> QED BY <1>3, <2>4, <2>5, EntryKinds DEF e2, e1
<1>4. CASE ~IsTable(e2)
  <2>1. ~IsLeaf(e2)
    BY <1>2, EntryCases
  <2> HIDE DEF e2
  <2>2. Walk(P, MachineRoot, va) = EmptyEntry
    BY <1>2, <1>4, <2>1 DEF Walk
  <2> QED BY <1>4, <2>2, EntryKinds DEF e2
<1> QED BY <1>3, <1>4

(* A walk of the shadow table ends at the last level.                      *)
LEMMA ShadowWalk ==
    ASSUME NEW P, NEW F, NEW S, NEW mm, NEW sm, NEW sl,
           Tree(P, F, S, mm, sm, sl), NEW r \in S, NEW va \in Virt
    PROVE  LET e2 == P[r][Top(va)]
               e1 == P[e2.addr][va[1]]
               e0 == P[e1.addr][va[0]]
           IN  /\ Walk(P, r, va) =
                     IF IsTable(e2) /\ IsTable(e1) /\ IsLeaf(e0)
                     THEN e0 ELSE EmptyEntry
               /\ Walk(P, r, va) \in GuestEntry
<1> DEFINE e2 == P[r][Top(va)]
           e1 == P[e2.addr][va[1]]
           e0 == P[e1.addr][va[0]]
<1>1. /\ Top(va) \in Slot /\ va[1] \in Slot /\ va[0] \in Slot
      /\ DOMAIN P = TablePages /\ r \in TablePages
      /\ sm \subseteq TablePages /\ sl \subseteq TablePages
  BY VirtIndices DEF Tree, Sorted, TablePages
<1>2. Descend(P, r, Top(va)) = e2 /\ TableOrEmpty(e2, sm)
  BY <1>1 DEF Descend, Tree, Contents
<1>3. CASE ~IsTable(e2)
  <2>1. ~IsLeaf(e2)
    BY <1>2, EntryCases
  <2> HIDE DEF e2
  <2>2. Walk(P, r, va) = EmptyEntry
    BY <1>2, <1>3, <2>1 DEF Walk
  <2> QED BY <1>3, <2>2, EntryKinds DEF e2
<1>4. CASE IsTable(e2)
  <2>1. e2.addr \in sm /\ ~IsLeaf(e2)
    BY <1>2, <1>4, EntryCases
  <2>2. Descend(P, e2.addr, va[1]) = e1 /\ TableOrEmpty(e1, sl)
    BY <1>1, <2>1 DEF Descend, Tree, Contents
  <2>3. ~IsLeaf(e1) /\ (IsTable(e1) => e1.addr \in sl)
    BY <2>2, EntryCases
  <2>4. CASE ~IsTable(e1)
    <3> HIDE DEF e2, e1
    <3>1. Walk(P, r, va) = EmptyEntry
      BY <1>2, <2>1, <2>2, <2>3, <2>4 DEF Walk
    <3> QED BY <2>4, <3>1, EntryKinds DEF e2, e1
  <2>5. CASE IsTable(e1)
    <3>1. Descend(P, e1.addr, va[0]) = e0 /\ LeafOrEmpty(e0)
      BY <1>1, <2>3, <2>5 DEF Descend, Tree, Contents
    <3>2. IsLeaf(e0) => e0 \in GuestEntry
      BY <3>1, EntryCases DEF GoodLeaf
    <3> HIDE DEF e2, e1, e0
    <3>3. Walk(P, r, va) = IF IsLeaf(e0) THEN e0 ELSE EmptyEntry
      BY <1>2, <1>4, <2>1, <2>2, <2>3, <2>5, <3>1 DEF Walk
    <3> QED BY <1>4, <2>5, <3>2, <3>3, EntryKinds DEF e2, e1, e0
  <2> QED BY <2>4, <2>5
<1> QED BY <1>3, <1>4

(* A walk from one of the roots finds an entry or nothing.                 *)
LEMMA WalkType ==
    ASSUME NEW P, NEW F, NEW S, NEW mm, NEW sm, NEW sl,
           Tree(P, F, S, mm, sm, sl), NEW r \in S \union {MachineRoot},
           NEW va \in Virt
    PROVE  Walk(P, r, va) \in Entry
BY MachineWalk, ShadowWalk, EntryKinds
=============================================================================
