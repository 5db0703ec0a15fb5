----------------------------- MODULE VmemProofs -----------------------------
(***************************************************************************)
(* Theorems about Vmem, for every size of the tables and the pool, and     *)
(* every guest.                                                            *)
(***************************************************************************)
EXTENDS VmemTreeProofs

\* The tables form the two trees.
TreeInv == Tree(pt, free, ShadowRoots, MachineMid, ShadowMid, ShadowLow)

\* There is an access whose fault is being handled.
FaultInv ==
    phase \in Handler => /\ fault.kind \in Kind
                         /\ fault.instr \in Seq(Virt) /\ fault.instr # << >>
                         /\ fault.pages \in Seq(Virt) /\ fault.pages # << >>

\* What translation of the fault's address has found so far.
TranslationInv ==
    /\ phase \in {"walk", "shadow"} => shadow_pt_active
    /\ phase = "map" /\ ~shadow_pt_active => entry.addr = PageNumber(fault_addr)

\* Where update_shadow_pt is in the shadow tree.
ShadowInv ==
    phase = "shadow" =>
        /\ entry.addr >= RamStart + Offset
        /\ level = 2 => table = shadow_page_table
        /\ level < 2 => fault_addr[2] < N
        /\ level = 1 => pt[shadow_page_table][fault_addr[2]] = TableEntry(table)
        /\ level = 0 =>
              LET e == pt[shadow_page_table][fault_addr[2]]
              IN  IsTable(e) /\ pt[e.addr][fault_addr[1]] = TableEntry(table)

VInv == /\ TypeOK
        /\ TreeInv
        /\ RootAllocated
        /\ TlbCoherent
        /\ FaultInv
        /\ TranslationInv
        /\ ShadowInv

-----------------------------------------------------------------------------
(* The trees of the next state.                                            *)
LEMMA TreeNext ==
    ASSUME NEW mm, NEW sm, NEW sl,
           Tree(pt', free', ShadowRoots', mm, sm, sl)
    PROVE  /\ TreeInv'
           /\ mm = MachineMid' /\ sm = ShadowMid' /\ sl = ShadowLow'
<1>1. mm = MachineMid' /\ sm = ShadowMid'
  BY TreeSets DEF MachineMid, ShadowMid, Children
<1>2. sl = ShadowLow'
  BY <1>1, TreeSets DEF ShadowLow, Children
<1> QED BY <1>1, <1>2 DEF TreeInv

(* A step that changes no table.                                           *)
LEMMA TreeSame ==
    ASSUME TreeInv, UNCHANGED <<pt, free, shadow_page_table>>
    PROVE  TreeInv'
<1>1. /\ ShadowRoots' = ShadowRoots /\ MachineMid' = MachineMid
      /\ ShadowMid' = ShadowMid /\ ShadowLow' = ShadowLow
  BY DEF ShadowRoots, MachineMid, ShadowMid, ShadowLow, Children
<1> QED BY <1>1 DEF TreeInv

(* The tables form trees when the hypervisor starts.                       *)
LEMMA TreeInit == Init => TreeInv
<1> SUFFICES ASSUME Init PROVE TreeInv
  OBVIOUS
<1>0. EmptyTable \in [Slot -> Entry] /\ \A i \in Slot : EmptyTable[i] = EmptyEntry
  BY EntryKinds DEF EmptyTable
<1>1. /\ ShadowRoots = {}
      /\ pt \in [TablePages -> [Slot -> Entry]]
      /\ \A i \in Slot : pt[MachineRoot][i] = EmptyEntry
  BY <1>0, VmemAssumption DEF Init, ShadowRoots, TablePages
<1>2. MachineMid = {} /\ ShadowMid = {}
  BY <1>1, EntryKinds DEF MachineMid, ShadowMid, Children
<1>3. ShadowLow = {}
  BY <1>2 DEF ShadowLow, Children
<1>4. Tree(pt, free, {}, {}, {}, {})
  <2>1. Sorted(pt, free, {}, {}, {}, {})
    BY <1>1 DEF Sorted, Init
  <2>2. Contents(pt, {}, {}, {}, {})
    BY <1>1 DEF Contents, TableOrEmpty
  <2>3. OneParent(pt, {}, {})
    BY <1>1, EntryKinds DEF OneParent
  <2> QED BY <2>1, <2>2, <2>3 DEF Tree, Parents
<1> QED BY <1>1, <1>2, <1>3, <1>4 DEF TreeInv

(* Before the shadow root is allocated only tables of the machine are in   *)
(* use, at most one for every entry of the machine root: a page is left.   *)
LEMMA FreeForRoot ==
    ASSUME TreeInv, shadow_page_table = NULL
    PROVE  free # {}
<1> SUFFICES ASSUME free = {} PROVE FALSE
  OBVIOUS
<1>1. ShadowRoots = {}
  BY DEF ShadowRoots
<1>2. ShadowMid = {}
  BY <1>1 DEF TreeInv, Tree, Parents
<1>3. ShadowLow = {}
  BY <1>2 DEF TreeInv, Tree, Parents
<1>4. Pool \subseteq MachineMid
  BY <1>1, <1>2, <1>3 DEF TreeInv, Tree, Sorted
<1>5. \A p \in Pool : \E i \in Slot : Links(pt, MachineRoot, i, p)
  BY <1>4 DEF TreeInv, Tree, Parents
<1> DEFINE f == [p \in Pool |-> CHOOSE i \in Slot : Links(pt, MachineRoot, i, p)]
<1>6. f \in [Pool -> Slot] /\ \A p \in Pool : Links(pt, MachineRoot, f[p], p)
  BY <1>5
<1>7. IsFiniteSet(Slot) /\ Cardinality(Slot) = N
  BY FS_Interval, VmemAssumption DEF Slot
<1> HIDE DEF f
<1>8. Cardinality(Slot) < Cardinality(Pool) /\ IsFiniteSet(Pool)
  <2>1. Cardinality(Pool) \in Nat
    BY FS_CardinalityType, VmemAssumption
  <2> QED BY <1>7, <2>1, VmemAssumption
<1>9. \E p, q \in Pool : p # q /\ f[p] = f[q]
  BY <1>6, <1>7, <1>8, FS_PigeonHole
<1> QED BY <1>6, <1>9 DEF Links

-----------------------------------------------------------------------------
(* What ensure_guest_machine_mapped does to the tables for a new region.   *)
LEMMA EnsureShape ==
    ASSUME TreeInv, NEW g \in Nat, InRam(g), ensure_guest_machine_mapped(g),
           ~Mapped(g)
    PROVE  LET top == pt[MachineRoot][Lvl3(g)]
           IN  \E child \in Pool :
                  /\ free' = free \ {child}
                  /\ Valid(top) => top = TableEntry(child) /\ child \in MachineMid
                  /\ ~Valid(top) => child \in free
                  /\ pt' \in [TablePages -> [Slot -> Entry]]
                  /\ pt'[MachineRoot][Lvl3(g)] = TableEntry(child)
                  /\ \A i \in Slot \ {Lvl3(g)} :
                        pt'[MachineRoot][i] = pt[MachineRoot][i]
                  /\ pt'[child][Lvl2(g)] = RegionEntry(g)
                  /\ \A i \in Slot \ {Lvl2(g)} :
                        pt'[child][i] = IF Valid(top) THEN pt[child][i]
                                                      ELSE EmptyEntry
                  /\ \A p \in TablePages \ {MachineRoot, child} : pt'[p] = pt[p]
<1> DEFINE top == pt[MachineRoot][Lvl3(g)]
<1>0. /\ Lvl3(g) \in Slot /\ Lvl2(g) \in Slot
      /\ pt \in [TablePages -> [Slot -> Entry]] /\ MachineRoot \in TablePages
      /\ MachineMid \subseteq Pool /\ free \subseteq Pool
      /\ Pool \subseteq TablePages /\ MachineRoot \notin Pool
  BY Levels, VmemAssumption DEF TreeInv, Tree, Sorted, TablePages
<1>1. TableOrEmpty(top, MachineMid)
  BY <1>0 DEF TreeInv, Tree, Contents
<1>2. Valid(top) => top = TableEntry(top.addr) /\ top.addr \in MachineMid
  BY <1>1, EntryCases
<1>3. RegionEntry(g) \in Entry
  BY RegionGood, EntryKinds
<1>4. PICK child \in IF Valid(top) THEN {top.addr} ELSE free :
         LET old == IF Valid(top) THEN pt[child] ELSE NewTable(child)
         IN  /\ pt' = [pt EXCEPT
                         ![MachineRoot][Lvl3(g)] = TableEntry(child),
                         ![child] = [old EXCEPT ![Lvl2(g)] = RegionEntry(g)]]
             /\ free' = free \ {child}
  BY DEF ensure_guest_machine_mapped
<1>5. child \in Pool /\ child # MachineRoot /\ child \in TablePages
  BY <1>0, <1>2, <1>4
<1> DEFINE old == IF Valid(top) THEN pt[child] ELSE NewTable(child)
<1>6. /\ old \in [Slot -> Entry]
      /\ \A i \in Slot : old[i] = IF Valid(top) THEN pt[child][i] ELSE EmptyEntry
  BY <1>0, <1>5, EntryKinds DEF NewTable, EmptyTable
<1>7. TableEntry(child) \in Entry
  BY <1>5, EntryKinds
<1>8. pt' \in [TablePages -> [Slot -> Entry]]
  BY <1>0, <1>3, <1>4, <1>5, <1>6, <1>7
<1>9. /\ pt'[MachineRoot][Lvl3(g)] = TableEntry(child)
      /\ \A i \in Slot \ {Lvl3(g)} : pt'[MachineRoot][i] = pt[MachineRoot][i]
      /\ pt'[child][Lvl2(g)] = RegionEntry(g)
      /\ \A i \in Slot \ {Lvl2(g)} : pt'[child][i] = old[i]
      /\ \A p \in TablePages \ {MachineRoot, child} : pt'[p] = pt[p]
  BY <1>0, <1>4, <1>5, <1>6
<1> HIDE DEF old
<1>10. /\ Valid(top) => top = TableEntry(child) /\ child \in MachineMid
       /\ ~Valid(top) => child \in free
       /\ free' = free \ {child}
  BY <1>2, <1>4
<1>11. \A i \in Slot \ {Lvl2(g)} :
          pt'[child][i] = IF Valid(top) THEN pt[child][i] ELSE EmptyEntry
  BY <1>6, <1>9
<1> HIDE DEF top
<1>12. \E c \in Pool :
          /\ free' = free \ {c}
          /\ Valid(top) => top = TableEntry(c) /\ c \in MachineMid
          /\ ~Valid(top) => c \in free
          /\ pt' \in [TablePages -> [Slot -> Entry]]
          /\ pt'[MachineRoot][Lvl3(g)] = TableEntry(c)
          /\ \A i \in Slot \ {Lvl3(g)} : pt'[MachineRoot][i] = pt[MachineRoot][i]
          /\ pt'[c][Lvl2(g)] = RegionEntry(g)
          /\ \A i \in Slot \ {Lvl2(g)} :
                pt'[c][i] = IF Valid(top) THEN pt[c][i] ELSE EmptyEntry
          /\ \A p \in TablePages \ {MachineRoot, c} : pt'[p] = pt[p]
  BY <1>5, <1>8, <1>9, <1>10, <1>11, Zenon
<1> QED BY <1>12 DEF top

(* ensure_guest_machine_mapped keeps the trees, leaves the shadow tables   *)
(* alone and maps the region of g.                                         *)
LEMMA Ensure ==
    ASSUME TreeInv, NEW g \in Nat, InRam(g), ensure_guest_machine_mapped(g),
           UNCHANGED shadow_page_table
    PROVE  /\ TreeInv'
           /\ IsTable(pt'[MachineRoot][Lvl3(g)])
           /\ GoodLeaf(MachineEntry(pt', g))
           /\ ~Mapped(g) => MachineEntry(pt', g) = RegionEntry(g)
           /\ Mapped(g) => pt' = pt
           /\ free' \subseteq free
           /\ \A p \in ShadowRoots \union ShadowMid \union ShadowLow :
                 pt'[p] = pt[p]
<1> DEFINE top == pt[MachineRoot][Lvl3(g)]
           S == ShadowRoots
           mm == MachineMid
           sm == ShadowMid
           sl == ShadowLow
<1>0. /\ Lvl3(g) \in Slot /\ Lvl2(g) \in Slot
      /\ pt \in [TablePages -> [Slot -> Entry]] /\ MachineRoot \in TablePages
      /\ mm \subseteq Pool /\ Pool \subseteq TablePages /\ MachineRoot \notin Pool
      /\ S' = S
  BY Levels, VmemAssumption DEF TreeInv, Tree, Sorted, TablePages, ShadowRoots
<1>1. Tree(pt, free, S, mm, sm, sl)
  BY DEF TreeInv
<1>2. TableOrEmpty(top, mm)
  BY <1>0, <1>1 DEF Tree, Contents
<1>3. Valid(top) => IsTable(top) /\ top.addr \in mm
  BY <1>0, <1>1, <1>2, EntryCases DEF Tree, Sorted
<1>4. GoodLeaf(RegionEntry(g)) /\ RegionEntry(g) \in Entry
  BY RegionGood, EntryKinds
<1>5. CASE Mapped(g)
  <2>1. UNCHANGED <<pt, free>>
    BY <1>5 DEF ensure_guest_machine_mapped
  <2>2. Valid(top)
    BY <1>5 DEF Mapped
  <2>3. MachineEntry(pt, g) = pt[top.addr][Lvl2(g)]
    BY <1>0, <1>3, <2>2 DEF MachineEntry, Descend
  <2>4. LeafOrEmpty(pt[top.addr][Lvl2(g)])
    BY <1>0, <1>1, <1>3, <2>2 DEF Tree, Contents
  <2>5. GoodLeaf(MachineEntry(pt, g))
    BY <1>5, <2>3, <2>4, EntryCases DEF Mapped
  <2> QED BY <1>3, <1>5, <2>1, <2>2, <2>5, TreeSame
<1>6. CASE ~Mapped(g)
  <2>1. PICK child \in Pool :
           /\ free' = free \ {child}
           /\ Valid(top) => top = TableEntry(child) /\ child \in mm
           /\ ~Valid(top) => child \in free
           /\ pt' \in [TablePages -> [Slot -> Entry]]
           /\ pt'[MachineRoot][Lvl3(g)] = TableEntry(child)
           /\ \A i \in Slot \ {Lvl3(g)} : pt'[MachineRoot][i] = pt[MachineRoot][i]
           /\ pt'[child][Lvl2(g)] = RegionEntry(g)
           /\ \A i \in Slot \ {Lvl2(g)} :
                 pt'[child][i] = IF Valid(top) THEN pt[child][i] ELSE EmptyEntry
           /\ \A p \in TablePages \ {MachineRoot, child} : pt'[p] = pt[p]
    BY <1>6, EnsureShape
  <2> HIDE DEF top
  <2>2. child # MachineRoot /\ child \in TablePages
    BY <1>0
  <2>3. MachineEntry(pt', g) = RegionEntry(g)
    <3>1. pt'[MachineRoot][Lvl3(g)].addr = child
      BY <2>1, EntryKinds
    <3>2. DOMAIN pt' = TablePages
      BY <2>1
    <3> QED BY <2>1, <2>2, <3>1, <3>2 DEF MachineEntry, Descend
  <2>4. IsTable(pt'[MachineRoot][Lvl3(g)])
    BY <2>1, EntryKinds
  <2>5. \A p \in S \union sm \union sl : pt'[p] = pt[p]
    <3>1. \A p \in S \union sm \union sl : p \in Pool /\ p \notin mm /\ p \notin free
      BY <1>1 DEF Tree, Sorted
    <3> QED BY <1>0, <2>1, <3>1
  <2>6. TreeInv'
    <3>1. CASE Valid(top)
      <4>1. child \in mm /\ child \notin free
        BY <1>1, <2>1, <3>1 DEF Tree, Sorted
      <4>2. free' = free
        BY <2>1, <4>1
      <4>3. \A p \in TablePages, i \in Slot :
               pt'[p][i] = IF p = child /\ i = Lvl2(g) THEN RegionEntry(g)
                                                       ELSE pt[p][i]
        <5>1. \A i \in Slot : pt'[MachineRoot][i] = pt[MachineRoot][i]
          BY <2>1, <3>1 DEF top
        <5> QED BY <2>1, <2>2, <3>1, <5>1
      <4>4. Tree(pt', free, S, mm, sm, sl)
        <5> HIDE DEF S, mm, sm, sl
        <5>1. child \in mm \union sl
          BY <4>1
        <5>2. Lvl2(g) \in Slot /\ GoodLeaf(RegionEntry(g))
          BY <1>0, <1>4
        <5>3. pt' \in [TablePages -> [Slot -> Entry]]
          BY <2>1
        <5> QED BY <1>1, <4>3, <5>1, <5>2, <5>3, SetLeaf
      <4> QED BY <1>0, <4>2, <4>4, TreeNext
    <3>2. CASE ~Valid(top)
      <4>1. \A i \in Slot : LeafOrEmpty(pt'[child][i])
        BY <1>4, <2>1, <3>2 DEF LeafOrEmpty
      <4>2. Linked(pt, pt', free, MachineRoot, Lvl3(g), child)
        BY <2>1, <2>2, <3>2 DEF Linked, top
      <4>3. Tree(pt', free', S, mm \union {child}, sm, sl)
        BY <1>0, <1>1, <2>1, <4>1, <4>2, AddMachineTable
      <4> QED BY <1>0, <4>3, TreeNext
    <3> QED BY <3>1, <3>2
  <2> QED BY <1>4, <1>6, <2>1, <2>3, <2>4, <2>5, <2>6
<1> QED BY <1>5, <1>6

(* The page that ensure_guest_machine_mapped finds is in guest memory.     *)
LEMMA HostPageGood ==
    ASSUME NEW P, NEW g \in Nat, GoodLeaf(MachineEntry(P, g))
    PROVE  HostPage(P, g) \in Nat /\ HostPage(P, g) >= RamStart + Offset
<1>1. /\ MachineEntry(P, g).addr \in Nat
      /\ MachineEntry(P, g).addr >= RamStart + Offset
  BY DEF GoodLeaf, GuestEntry
<1>2. g % N \in Nat /\ RamStart \in Nat /\ Offset \in Nat
  BY Levels, VmemAssumption DEF Slot
<1> QED BY <1>1, <1>2 DEF HostPage

-----------------------------------------------------------------------------
(* The consequences of TreeInv.                                            *)
LEMMA TreeOwned == TreeInv => TablesOwned
<1> SUFFICES ASSUME TreeInv PROVE TablesOwned
  OBVIOUS
<1>1. Tree(pt, free, ShadowRoots, MachineMid, ShadowMid, ShadowLow)
  BY DEF TreeInv
<1> USE DEF Used
<1>2. free = Pool \ Used
  BY <1>1, VmemAssumption DEF Tree, Sorted
<1>3. ASSUME NEW p \in MachineMid \union ShadowLow, NEW i \in Slot
      PROVE  ~IsTable(pt[p][i])
  BY <1>1, EntryCases DEF Tree, Contents
<1>4. ASSUME NEW p \in Used, NEW i \in Slot, IsTable(pt[p][i])
      PROVE  /\ pt[p][i].addr \in Pool \ ShadowRoots
             /\ p \in ShadowRoots \union ShadowMid \union {MachineRoot}
             /\ p \notin ShadowLow \union MachineMid
  <2>1. p \notin ShadowLow \union MachineMid
    BY <1>3, <1>4
  <2>2. p \in ShadowRoots \union ShadowMid \union {MachineRoot}
    BY <2>1
  <2>3. pt[p][i].addr \in MachineMid \union ShadowMid \union ShadowLow
    BY <1>1, <1>4, <2>2, EntryCases DEF Tree, Contents
  <2> QED BY <1>1, <2>1, <2>2, <2>3 DEF Tree, Sorted
<1>5. ASSUME NEW p \in Used, NEW q \in Used, NEW i \in Slot, NEW j \in Slot,
             IsTable(pt[p][i]), IsTable(pt[q][j]),
             pt[p][i].addr = pt[q][j].addr
      PROVE  p = q /\ i = j
  BY <1>1, <1>4, <1>5 DEF Tree, OneParent
<1> QED BY <1>2, <1>4, <1>5 DEF TablesOwned

(* The leaves are those of the machine's tables and of the lowest level of *)
(* the shadow tree.                                                        *)
LEMMA TreeMemory == TreeInv => GuestMemoryOnly
<1> SUFFICES ASSUME TreeInv, NEW p \in Pool \ free, NEW i \in Slot,
                    IsLeaf(pt[p][i])
             PROVE  pt[p][i].addr >= RamStart + Offset
  BY DEF GuestMemoryOnly
<1>1. p \in ShadowRoots \union MachineMid \union ShadowMid \union ShadowLow
  BY DEF TreeInv, Tree, Sorted
<1>2. p \in MachineMid \union ShadowLow
  BY <1>1, EntryCases DEF TreeInv, Tree, Contents
<1> QED BY <1>2, EntryCases DEF TreeInv, Tree, Contents, GoodLeaf

-----------------------------------------------------------------------------
(* The address of a fault.                                                 *)
LEMMA FaultAddress ==
    ASSUME FaultInv, phase \in Handler
    PROVE  fault_addr \in Virt
BY DEF FaultInv, fault_addr

(* The root that satp points to is one of the trees'.                      *)
LEMMA ActiveIsRoot ==
    ASSUME TypeOK, RootAllocated
    PROVE  ActiveRoot \in ShadowRoots \union {MachineRoot}
BY DEF TypeOK, RootAllocated, ActiveRoot, ShadowRoots

(* What the hart has cached after the guest was resumed.                   *)
LEMMA Refilled ==
    ASSUME NEW P, NEW F, NEW S, NEW mm, NEW sm, NEW sl,
           Tree(P, F, S, mm, sm, sl), NEW r \in S \union {MachineRoot},
           NEW C \in [Virt -> SUBSET Entry],
           \A va \in Virt : C[va] \subseteq {Walk(P, r, va)}
    PROVE  /\ Refill(C, P, r) \in [Virt -> SUBSET Entry]
           /\ \A va \in Virt : Refill(C, P, r)[va] = {Walk(P, r, va)}
           /\ Fenced \in [Virt -> SUBSET Entry]
           /\ \A va \in Virt : Fenced[va] \subseteq {Walk(P, r, va)}
<1>1. \A va \in Virt : Walk(P, r, va) \in Entry
  BY WalkType
<1>2. Refill(C, P, r) \in [Virt -> SUBSET Entry]
  BY <1>1 DEF Refill
<1>3. \A va \in Virt : Refill(C, P, r)[va] = {Walk(P, r, va)}
  BY DEF Refill
<1>4. /\ Fenced \in [Virt -> SUBSET Entry]
      /\ \A va \in Virt : Fenced[va] \subseteq {Walk(P, r, va)}
  BY DEF Fenced
<1> QED BY <1>2, <1>3, <1>4

\* The state of the walks that no step of the guest changes.
WalkTypes == /\ fault \in Fault /\ entry \in GuestEntry /\ level \in 0 .. 2
             /\ table \in Pool \union {NULL}

(* The guest runs again with a tlb that was filled from the table in satp. *)
LEMMA Resumed ==
    ASSUME TypeOK, TreeInv', RootAllocated', WalkTypes', phase' = "guest",
           shadow_page_table' \in Pool \union {NULL},
           shadow_pt_active' \in BOOLEAN,
           satp_ppn' \in GuestRoots,
           gmem' \in [GuestTables -> [Slot -> GuestEntry]],
           NEW C \in [Virt -> SUBSET Entry],
           \A va \in Virt : C[va] \subseteq {Walk(pt', ActiveRoot', va)},
           tlb' = Refill(C, pt', ActiveRoot'),
           panic' = panic, sfence' \in BOOLEAN
    PROVE  VInv'
<1>1. ActiveRoot' \in ShadowRoots' \union {MachineRoot}
  BY DEF RootAllocated, ActiveRoot, ShadowRoots
<1>2. Tree(pt', free', ShadowRoots', MachineMid', ShadowMid', ShadowLow')
  BY DEF TreeInv
<1>3. /\ tlb' \in [Virt -> SUBSET Entry]
      /\ \A va \in Virt : tlb'[va] = {Walk(pt', ActiveRoot', va)}
  <2> DEFINE r == ActiveRoot'
  <2>1. r \in ShadowRoots' \union {MachineRoot}
    BY <1>1
  <2>2. \A va \in Virt : C[va] \subseteq {Walk(pt', r, va)}
    OBVIOUS
  <2>3. tlb' = Refill(C, pt', r)
    OBVIOUS
  <2> HIDE DEF r
  <2>4. /\ Refill(C, pt', r) \in [Virt -> SUBSET Entry]
        /\ \A va \in Virt : Refill(C, pt', r)[va] = {Walk(pt', r, va)}
    BY <1>2, <2>1, <2>2, Refilled
  <2> QED BY <2>3, <2>4 DEF r
<1>4. TlbCoherent'
  BY <1>3 DEF TlbCoherent
<1>5. TypeOK'
  <2>1. pt' \in [Pool \union {MachineRoot} -> [Slot -> Entry]] /\ free' \subseteq Pool
    BY <1>2 DEF Tree, Sorted, TablePages
  <2> QED BY <1>3, <2>1 DEF TypeOK, WalkTypes
<1>6. FaultInv' /\ TranslationInv' /\ ShadowInv'
  BY DEF FaultInv, TranslationInv, ShadowInv, Handler
<1> QED BY <1>4, <1>5, <1>6 DEF VInv

(* The fence leaves nothing in the hart's cache.                           *)
LEMMA FencedType ==
    /\ Fenced \in [Virt -> SUBSET Entry]
    /\ \A va \in Virt : \A T : Fenced[va] \subseteq T
BY DEF Fenced

(* The hypervisor stops.                                                   *)
LEMMA PanicStep ==
    ASSUME VInv, NEW reason \in PanicReason, Panic(reason)
    PROVE  VInv'
<1> USE DEF VInv, Panic, table_vars, guest_vars, walk_vars
<1>1. TypeOK'
  BY DEF TypeOK
<1>2. TreeInv'
  BY TreeSame
<1>3. RootAllocated'
  BY DEF RootAllocated
<1>4. TlbCoherent'
  BY DEF TlbCoherent, ActiveRoot
<1>5. FaultInv' /\ TranslationInv' /\ ShadowInv'
  BY DEF FaultInv, TranslationInv, ShadowInv, Handler
<1> QED BY <1>1, <1>2, <1>3, <1>4, <1>5

-----------------------------------------------------------------------------
(* The steps of the guest.                                                 *)
LEMMA GuestWriteStep == VInv /\ GuestWrite => VInv'
<1> SUFFICES ASSUME VInv, GuestWrite PROVE VInv'
  OBVIOUS
<1> USE DEF VInv, GuestWrite, table_vars, walk_vars
<1>1. gmem' \in [GuestTables -> [Slot -> GuestEntry]]
  <2>1. PICK t \in GuestTables, i \in Slot :
           \E e \in GuestPtes[t][i] : gmem' = [gmem EXCEPT ![t][i] = e]
    OBVIOUS
  <2>2. GuestPtes[t][i] \subseteq GuestEntry
    BY VmemAssumption
  <2> QED BY <2>1, <2>2 DEF TypeOK
<1>2. TypeOK'
  BY <1>1 DEF TypeOK
<1>3. TreeInv'
  BY TreeSame
<1>4. RootAllocated' /\ TlbCoherent'
  BY DEF RootAllocated, TlbCoherent, ActiveRoot
<1>5. FaultInv' /\ TranslationInv' /\ ShadowInv'
  BY DEF FaultInv, TranslationInv, ShadowInv, Handler
<1> QED BY <1>2, <1>3, <1>4, <1>5

(* A write of satp.                                                        *)
LEMMA SetSatpStep == VInv /\ SetSatp => VInv'
<1> SUFFICES ASSUME VInv, SetSatp PROVE VInv'
  OBVIOUS
<1> USE DEF VInv, SetSatp, table_vars, walk_vars
<1>1. TypeOK'
  BY DEF TypeOK
<1>2. TreeInv'
  BY TreeSame
<1>3. RootAllocated' /\ TlbCoherent'
  BY DEF RootAllocated, TlbCoherent, ActiveRoot
<1>4. FaultInv' /\ TranslationInv' /\ ShadowInv'
  BY DEF FaultInv, TranslationInv, ShadowInv, Handler
<1> QED BY <1>1, <1>2, <1>3, <1>4

(* guest_mret finds a page for the shadow root, or has one.                *)
LEMMA MretStep == VInv /\ guest_mret => VInv'
<1> SUFFICES ASSUME VInv, guest_mret PROVE VInv'
  OBVIOUS
<1>0. WalkTypes' /\ phase' = "guest"
  BY DEF VInv, guest_mret, walk_vars, TypeOK, WalkTypes
<1>1. PICK p \in IF shadow_page_table # NULL THEN {shadow_page_table}
                 ELSE IF free = {} THEN {NULL} ELSE free :
         /\ shadow_page_table' = p
         /\ free' = free \ {p}
         /\ pt' = IF p = shadow_page_table \/ p = NULL
                  THEN pt ELSE [pt EXCEPT ![p] = NewTable(p)]
  BY DEF guest_mret
<1>2. TreeInv' /\ shadow_page_table' \in Pool
  <2>1. CASE shadow_page_table # NULL
    <3>1. p = shadow_page_table /\ p \in Pool /\ pt' = pt
      BY <1>1, <2>1 DEF VInv, TypeOK
    <3>2. p \notin free
      BY <2>1, <3>1 DEF VInv, TreeInv, Tree, Sorted, ShadowRoots
    <3> QED BY <1>1, <3>1, <3>2, TreeSame DEF VInv
  <2>2. CASE shadow_page_table = NULL
    <3>1. p \in free
      BY <1>1, <2>2, FreeForRoot DEF VInv
    <3>2. p \in Pool /\ p # NULL /\ p # MachineRoot
      BY <3>1, VmemAssumption DEF VInv, TypeOK
    <3>3. pt' = [pt EXCEPT ![p] = EmptyTable]
      BY <1>1, <2>2, <3>2 DEF NewTable
    <3>4. ShadowRoots = {} /\ ShadowRoots' = {p}
      BY <1>1, <2>2, <3>2 DEF ShadowRoots
    <3>5. EmptyTable \in [Slot -> Entry] /\ \A i \in Slot : EmptyTable[i] = EmptyEntry
      BY EntryKinds DEF EmptyTable
    <3>6. Tree(pt, free, {}, MachineMid, ShadowMid, ShadowLow)
      BY <3>4 DEF VInv, TreeInv
    <3>7. /\ pt \in [TablePages -> [Slot -> Entry]] /\ p \in TablePages
          /\ pt' \in [TablePages -> [Slot -> Entry]]
          /\ \A q \in TablePages \ {p} : pt'[q] = pt[q]
          /\ \A i \in Slot : pt'[p][i] = EmptyEntry
      BY <3>2, <3>3, <3>5, <3>6 DEF Tree, Sorted, TablePages
    <3>8. Tree(pt', free \ {p}, {p}, MachineMid, {}, {})
      BY <3>1, <3>6, <3>7, AddRoot
    <3> QED BY <1>1, <3>2, <3>4, <3>8, TreeNext
  <2> QED BY <2>1, <2>2
<1>3. RootAllocated' /\ shadow_pt_active' = TRUE
  BY <1>2, VmemAssumption DEF RootAllocated, guest_mret
<1>4. tlb' = Refill(Fenced, pt', ActiveRoot')
  BY <1>3 DEF guest_mret, ActiveRoot
<1> QED BY <1>0, <1>2, <1>3, <1>4, Resumed, FencedType
        DEF VInv, guest_mret, TypeOK

(* guest_exception.                                                        *)
LEMMA ExceptionStep == VInv /\ guest_exception => VInv'
<1> SUFFICES ASSUME VInv, guest_exception PROVE VInv'
  OBVIOUS
<1>0. WalkTypes' /\ phase' = "guest" /\ RootAllocated'
  BY DEF VInv, guest_exception, walk_vars, TypeOK, WalkTypes, RootAllocated
<1>1. TreeInv'
  BY TreeSame DEF VInv, guest_exception
<1>2. tlb' = Refill(Fenced, pt', ActiveRoot')
  BY DEF guest_exception, ActiveRoot
<1> QED BY <1>0, <1>1, <1>2, Resumed, FencedType DEF VInv, guest_exception, TypeOK

(* sfence.vma: the whole shadow tree but its root is given back.           *)
LEMMA FlushStep == VInv /\ flush_shadow_pagetable => VInv'
<1> SUFFICES ASSUME VInv, flush_shadow_pagetable PROVE VInv'
  OBVIOUS
<1> USE DEF guest_vars
<1>0. WalkTypes' /\ phase' = "guest" /\ RootAllocated'
  BY DEF VInv, flush_shadow_pagetable, walk_vars, TypeOK, WalkTypes, RootAllocated
<1>1. CASE shadow_page_table = NULL
  <2>1. UNCHANGED table_vars
    BY <1>1 DEF flush_shadow_pagetable
  <2>2. TreeInv'
    BY <2>1, TreeSame DEF VInv, flush_shadow_pagetable, table_vars
  <2>3. TypeOK' /\ TlbCoherent'
    BY <2>1 DEF VInv, TypeOK, TlbCoherent, ActiveRoot, flush_shadow_pagetable,
                table_vars, walk_vars
  <2>4. FaultInv' /\ TranslationInv' /\ ShadowInv'
    BY <1>0 DEF FaultInv, TranslationInv, ShadowInv, Handler
  <2> QED BY <1>0, <2>2, <2>3, <2>4 DEF VInv
<1>2. CASE shadow_page_table # NULL
  <2>1. /\ clear_pagetable(shadow_page_table)
        /\ tlb' = Refill(Fenced, pt', ActiveRoot)
    BY <1>2 DEF flush_shadow_pagetable
  <2>2. ShadowRoots = {shadow_page_table} /\ ShadowRoots' = ShadowRoots
        /\ ActiveRoot' = ActiveRoot
    BY <1>2 DEF ShadowRoots, ActiveRoot, flush_shadow_pagetable
  <2>3. /\ Children({shadow_page_table}) = ShadowMid
        /\ Children(ShadowMid) = ShadowLow
    BY <2>2 DEF ShadowMid, ShadowLow
  <2>4. /\ pt' = [p \in TablePages |->
                     IF p \in ShadowMid \union ShadowLow \union ShadowRoots
                     THEN EmptyTable ELSE pt[p]]
        /\ free' = free \union ShadowMid \union ShadowLow
    BY <2>1, <2>2, <2>3 DEF clear_pagetable, VInv, TypeOK, TablePages
  <2>5. Tree(pt', free', ShadowRoots', MachineMid, {}, {})
    BY <2>2, <2>4, ClearTree DEF VInv, TreeInv
  <2>6. TreeInv'
    BY <2>5, TreeNext
  <2> QED BY <1>0, <2>1, <2>2, <2>6, Resumed, FencedType
          DEF VInv, flush_shadow_pagetable, TypeOK
<1> QED BY <1>1, <1>2

-----------------------------------------------------------------------------
(* A step that changes neither the tables nor what satp points to.         *)
LEMMA SameTables ==
    ASSUME VInv, UNCHANGED <<table_vars, shadow_page_table, shadow_pt_active>>
    PROVE  TreeInv' /\ RootAllocated' /\ TlbCoherent'
<1> USE DEF VInv, table_vars
<1>1. TreeInv'
  BY TreeSame
<1> QED BY <1>1 DEF RootAllocated, TlbCoherent, ActiveRoot

(* What an access of the guest consists of.                                *)
LEMMA AccessType ==
    ASSUME NEW a \in Accesses
    PROVE  /\ a.instr \in Seq(Virt) /\ a.instr # << >> /\ Head(a.instr) \in Virt
           /\ a.data \in Seq(Virt) /\ a.data # << >>
           /\ a.kind \in Kind /\ a.known \in BOOLEAN
<1>1. a \in Access /\ a.instr # << >> /\ a.data # << >>
  BY VmemAssumption
<1>2. /\ a.instr \in Seq(Virt) /\ a.data \in Seq(Virt) /\ a.kind \in Kind
      /\ a.known \in BOOLEAN
  BY <1>1 DEF Access, Kind
<1> QED BY <1>1, <1>2

(* The start of the translation.                                           *)
LEMMA TranslateType ==
    ASSUME TypeOK, NEW va \in Virt, Translate(va)
    PROVE  /\ entry' \in GuestEntry
           /\ phase' \in {"walk", "map"}
           /\ phase' = "walk" => shadow_pt_active
           /\ ~shadow_pt_active => entry'.addr = PageNumber(va)
<1>1. satp_ppn \in Nat /\ PageNumber(va) \in Nat
  BY VirtIndices, VmemAssumption DEF TypeOK
<1>2. TableEntry(satp_ppn) \in GuestEntry
  BY <1>1, EntryKinds
<1>3. [perm |-> {}, addr |-> PageNumber(va)] \in GuestEntry
  BY <1>1 DEF GuestEntry
<1> QED BY <1>2, <1>3 DEF Translate, TypeOK

(* An instruction page fault.                                              *)
LEMMA InstructionFaultStep == VInv /\ InstructionPageFault => VInv'
<1> SUFFICES ASSUME VInv, InstructionPageFault PROVE VInv'
  OBVIOUS
<1>1. PICK a \in Accesses :
         /\ fault' = [kind |-> "X", known |-> TRUE,
                      instr |-> a.instr, pages |-> a.instr]
         /\ Translate(Head(a.instr))
  BY DEF InstructionPageFault
<1>2. /\ a.instr \in Seq(Virt) /\ a.instr # << >> /\ Head(a.instr) \in Virt
  BY AccessType
<1>3. /\ fault'.kind \in Kind /\ fault'.instr = a.instr /\ fault'.pages = a.instr
      /\ fault' \in Fault /\ fault_addr' = Head(a.instr)
  BY <1>1, <1>2 DEF Fault, Kind, fault_addr
<1>4. /\ entry' \in GuestEntry /\ phase' \in {"walk", "map"}
      /\ phase' = "walk" => shadow_pt_active
      /\ ~shadow_pt_active => entry'.addr = PageNumber(Head(a.instr))
  BY <1>1, <1>2, TranslateType DEF VInv
<1> USE DEF InstructionPageFault, table_vars, guest_vars
<1>5. TypeOK'
  BY <1>3, <1>4 DEF VInv, TypeOK, Handler
<1>6. TreeInv' /\ RootAllocated' /\ TlbCoherent'
  BY SameTables
<1>7. FaultInv' /\ TranslationInv' /\ ShadowInv'
  BY <1>2, <1>3, <1>4 DEF FaultInv, TranslationInv, ShadowInv
<1> QED BY <1>5, <1>6, <1>7 DEF VInv

(* A load or store page fault.                                             *)
LEMMA DataFaultStep == VInv /\ DataPageFault => VInv'
<1> SUFFICES ASSUME VInv, DataPageFault PROVE VInv'
  OBVIOUS
<1>1. PICK a \in Accesses :
         fault' = [kind |-> a.kind, known |-> a.known,
                   instr |-> a.instr, pages |-> a.data]
  BY DEF DataPageFault
<1>2. /\ fault' \in Fault
      /\ fault'.kind \in Kind
      /\ fault'.instr \in Seq(Virt) /\ fault'.instr # << >>
      /\ fault'.pages \in Seq(Virt) /\ fault'.pages # << >>
  BY <1>1, AccessType DEF Fault
<1> USE DEF DataPageFault, table_vars, guest_vars
<1>3. TypeOK'
  BY <1>2 DEF VInv, TypeOK, Handler
<1>4. TreeInv' /\ RootAllocated' /\ TlbCoherent'
  BY SameTables
<1>5. FaultInv' /\ TranslationInv' /\ ShadowInv'
  BY <1>2 DEF FaultInv, TranslationInv, ShadowInv
<1> QED BY <1>3, <1>4, <1>5 DEF VInv

(* Why the instruction cannot be fetched.                                  *)
LEMMA FetchErrors ==
    /\ FetchError \in PanicReason
    /\ FetchError = "none" <=>
          /\ {"V", "U"} \subseteq Walk(pt, ActiveRoot, Head(fault.instr)).perm
          /\ InOneSlice(fault.instr)
          /\ fault.known
<1> DEFINE mapped == {"V", "U"} \subseteq
                        Walk(pt, ActiveRoot, Head(fault.instr)).perm
           whole == mapped /\ InOneSlice(fault.instr)
<1>1. CASE ~mapped
  BY <1>1 DEF FetchError, PanicReason
<1>2. CASE mapped /\ ~whole
  BY <1>2 DEF FetchError, PanicReason
<1>3. CASE whole /\ ~fault.known
  BY <1>3 DEF FetchError, PanicReason
<1>4. CASE whole /\ fault.known
  BY <1>4 DEF FetchError, PanicReason
<1> QED BY <1>1, <1>2, <1>3, <1>4

(* The instruction is fetched.                                             *)
LEMMA FetchStep == VInv /\ Fetch => VInv'
<1> SUFFICES ASSUME VInv, Fetch PROVE VInv'
  OBVIOUS
<1>1. \/ /\ Translate(fault_addr)
         /\ sfence' = FALSE
         /\ UNCHANGED <<table_vars, guest_vars, fault, level, table, panic>>
      \/ Panic(FetchError)
  BY DEF Fetch
<1>2. CASE Panic(FetchError)
  BY <1>2, FetchErrors, PanicStep
<1>3. CASE /\ Translate(fault_addr)
           /\ sfence' = FALSE
           /\ UNCHANGED <<table_vars, guest_vars, fault, level, table, panic>>
  <2>1. fault_addr \in Virt /\ fault_addr' = fault_addr
    BY <1>3, FaultAddress DEF VInv, Fetch, Handler, fault_addr
  <2>2. /\ entry' \in GuestEntry /\ phase' \in {"walk", "map"}
        /\ phase' = "walk" => shadow_pt_active
        /\ ~shadow_pt_active => entry'.addr = PageNumber(fault_addr)
    BY <1>3, <2>1, TranslateType DEF VInv
  <2> USE DEF table_vars, guest_vars
  <2>3. TypeOK'
    BY <1>3, <2>2 DEF VInv, TypeOK, Handler
  <2>4. TreeInv' /\ RootAllocated' /\ TlbCoherent'
    BY <1>3, SameTables
  <2>5. FaultInv' /\ TranslationInv' /\ ShadowInv'
    BY <1>3, <2>1, <2>2
    DEF VInv, FaultInv, TranslationInv, ShadowInv, Fetch, Handler
  <2> QED BY <2>3, <2>4, <2>5 DEF VInv
<1> QED BY <1>1, <1>2, <1>3

-----------------------------------------------------------------------------
(* The steps of try_resolve_gu_to_gm.                                      *)
LEMMA WalkFoundStep == VInv /\ WalkFound => VInv'
<1> SUFFICES ASSUME VInv, WalkFound PROVE VInv'
  OBVIOUS
<1>1. fault_addr \in Virt /\ shadow_pt_active
  BY FaultAddress DEF VInv, WalkFound, Handler, TranslationInv
<1>2. fault_addr[1] \in Nat /\ fault_addr[0] \in Nat /\ N \in Nat
  BY <1>1, VirtIndices, VmemAssumption DEF Slot
<1>3. PageOffset(fault_addr) \in Nat
  <2>1. fault_addr[1] * N \in Nat
    BY <1>2
  <2> QED BY <1>2, <2>1 DEF PageOffset
<1>4. entry' \in GuestEntry
  BY <1>3 DEF VInv, TypeOK, WalkFound, GuestEntry
<1> USE DEF WalkFound, table_vars, guest_vars
<1>5. TypeOK'
  BY <1>4 DEF VInv, TypeOK, Handler
<1>6. TreeInv' /\ RootAllocated' /\ TlbCoherent'
  BY SameTables
<1>7. FaultInv' /\ TranslationInv' /\ ShadowInv'
  BY <1>1 DEF VInv, FaultInv, TranslationInv, ShadowInv, Handler
<1> QED BY <1>5, <1>6, <1>7 DEF VInv

(* A round of the loop that follows a pointer of the guest's.              *)
LEMMA WalkDownStep == VInv /\ WalkDown => VInv'
<1> SUFFICES ASSUME VInv, WalkDown PROVE VInv'
  OBVIOUS
<1>1. fault_addr \in Virt /\ shadow_pt_active /\ entry.addr \in Nat
  BY FaultAddress DEF VInv, WalkDown, Handler, TranslationInv, TypeOK, GuestEntry
<1>2. level \in {1, 2} /\ level' \in 0 .. 2
  <2>1. level \in 0 .. 2 /\ level > 0
    BY DEF VInv, TypeOK, WalkDown, CanDescend
  <2>2. level' = level - 1 \/ level' = level
    BY Zenon DEF WalkDown, NextLevel
  <2> QED BY <2>1, <2>2
<1>3. Vpn(fault_addr, level) \in Slot
  BY <1>1, <1>2, VirtIndices DEF Vpn
<1>4. entry' \in GuestEntry
  <2>1. Descend(gmem, entry.addr, Vpn(fault_addr, level)) \in GuestEntry
    BY <1>3, EntryKinds DEF VInv, TypeOK, Descend
  <2> QED BY <2>1 DEF VInv, TypeOK, WalkDown
<1> USE DEF guest_vars
<1>5. /\ TreeInv' /\ (Mapped(entry.addr) => pt' = pt)
      /\ pt' \in [TablePages -> [Slot -> Entry]] /\ free' \subseteq Pool
  <2>1. /\ TreeInv' /\ (Mapped(entry.addr) => pt' = pt) /\ free' \subseteq free
    BY <1>1, Ensure DEF VInv, WalkDown
  <2> QED BY <2>1 DEF TreeInv, Tree, Sorted
<1>6. tlb' \in [Virt -> SUBSET Entry] /\ TlbCoherent'
  <2>1. CASE Mapped(entry.addr)
    BY <1>5, <2>1 DEF VInv, TypeOK, WalkDown, EnsureFence, TlbCoherent, ActiveRoot
  <2>2. CASE ~Mapped(entry.addr)
    BY <2>2, FencedType DEF WalkDown, EnsureFence, TlbCoherent
  <2> QED BY <2>1, <2>2
<1>7. TypeOK'
  <2>1. /\ phase' \in Handler \union {"guest", "halted"} /\ panic' \in PanicReason
        /\ sfence' \in BOOLEAN /\ UNCHANGED <<guest_vars, fault, table>>
    BY DEF VInv, TypeOK, WalkDown, PanicReason
  <2> QED BY <1>2, <1>4, <1>5, <1>6, <2>1 DEF VInv, TypeOK, TablePages
<1>8. FaultInv' /\ TranslationInv' /\ ShadowInv' /\ RootAllocated'
  BY <1>1 DEF VInv, FaultInv, TranslationInv, ShadowInv, RootAllocated, WalkDown,
              Handler
<1> QED BY <1>5, <1>6, <1>7, <1>8 DEF VInv

(* A pointer out of the RAM.                                               *)
LEMMA WalkWildStep == VInv /\ WalkWild => VInv'
<1> SUFFICES ASSUME VInv, WalkWild PROVE VInv'
  OBVIOUS
<1>1. CASE Panic("Hypervisor-caused exception")
  BY <1>1, PanicStep DEF PanicReason
<1>2. CASE /\ entry' \in Uninitialized
           /\ level' = NextLevel
           /\ sfence' = FALSE
           /\ UNCHANGED <<table_vars, guest_vars, phase, fault, table, panic>>
  <2> USE DEF table_vars, guest_vars
  <2>1. entry' \in GuestEntry /\ level' \in 0 .. 2
    <3>1. entry' \in GuestEntry
      BY <1>2, VmemAssumption
    <3>2. level \in 0 .. 2 /\ level > 0
      BY DEF VInv, TypeOK, WalkWild, CanDescend
    <3> QED BY <1>2, <3>1, <3>2 DEF NextLevel
  <2>2. TypeOK'
    BY <1>2, <2>1 DEF VInv, TypeOK
  <2>3. TreeInv' /\ RootAllocated' /\ TlbCoherent'
    BY <1>2, SameTables
  <2>4. FaultInv' /\ TranslationInv' /\ ShadowInv'
    BY <1>2 DEF VInv, FaultInv, TranslationInv, ShadowInv, WalkWild, Handler
  <2> QED BY <2>2, <2>3, <2>4 DEF VInv
<1> QED BY <1>1, <1>2 DEF WalkWild

-----------------------------------------------------------------------------
(* handle_page_fault ends.                                                 *)
LEMMA ReturnStep ==
    ASSUME VInv, TreeInv', UNCHANGED guest_vars,
           NEW C \in [Virt -> SUBSET Entry],
           \A va \in Virt : C[va] \subseteq {Walk(pt', ActiveRoot, va)},
           Return(C, pt', ActiveRoot)
    PROVE  VInv'
<1>1. WalkTypes' /\ phase' = "guest" /\ RootAllocated' /\ ActiveRoot' = ActiveRoot
  BY EntryKinds DEF VInv, Return, WalkTypes, Fault, RootAllocated, ActiveRoot,
                    guest_vars
<1> QED BY <1>1, Resumed DEF VInv, TypeOK, Return, guest_vars

(* An access to a device.                                                  *)
LEMMA DeviceStep == VInv /\ EmulateDevice => VInv'
<1> SUFFICES ASSUME VInv, EmulateDevice PROVE VInv'
  OBVIOUS
<1>1. CASE Panic("below RAM")
  BY <1>1, PanicStep DEF PanicReason
<1>2. CASE Return(tlb, pt, ActiveRoot) /\ UNCHANGED <<pt, free, guest_vars>>
  <2>1. TreeInv'
    BY <1>2, TreeSame DEF VInv, guest_vars
  <2>2. /\ tlb \in [Virt -> SUBSET Entry]
        /\ \A va \in Virt : tlb[va] \subseteq {Walk(pt', ActiveRoot, va)}
    BY <1>2 DEF VInv, TypeOK, TlbCoherent
  <2>3. Return(tlb, pt', ActiveRoot)
    BY <1>2
  <2> QED BY <1>2, <2>1, <2>2, <2>3, ReturnStep
<1> QED BY <1>1, <1>2 DEF EmulateDevice

(* A page of GM is mapped.                                                 *)
LEMMA MapMachineStep == VInv /\ MapMachine => VInv'
<1> SUFFICES ASSUME VInv, MapMachine PROVE VInv'
  OBVIOUS
<1>1. CASE Panic("unknown page fault")
  BY <1>1, PanicStep DEF PanicReason
<1>2. CASE /\ ~Mapped(entry.addr)
           /\ ensure_guest_machine_mapped(entry.addr)
           /\ Return(EnsureFence(entry.addr), pt', MachineRoot)
           /\ UNCHANGED guest_vars
  <2>1. entry.addr \in Nat /\ InRam(entry.addr) /\ ActiveRoot = MachineRoot
    BY DEF VInv, TypeOK, GuestEntry, MapMachine, ActiveRoot
  <2>2. TreeInv'
    BY <1>2, <2>1, Ensure DEF VInv, guest_vars
  <2>3. Return(Fenced, pt', ActiveRoot)
    BY <1>2, <2>1 DEF EnsureFence
  <2> QED BY <1>2, <2>2, <2>3, ReturnStep, FencedType
<1> QED BY <1>1, <1>2 DEF MapMachine

(* The page of GU has been translated, and the shadow table is next.       *)
LEMMA MapUserStep == VInv /\ MapUser => VInv'
<1> SUFFICES ASSUME VInv, MapUser PROVE VInv'
  OBVIOUS
<1>1. /\ entry.addr \in Nat /\ InRam(entry.addr)
      /\ ensure_guest_machine_mapped(entry.addr) /\ UNCHANGED shadow_page_table
  BY DEF VInv, TypeOK, GuestEntry, MapUser, guest_vars
<1>2. /\ TreeInv' /\ (Mapped(entry.addr) => pt' = pt) /\ free' \subseteq free
      /\ GoodLeaf(MachineEntry(pt', entry.addr))
  BY <1>1, Ensure DEF VInv
<1>3. pt' \in [TablePages -> [Slot -> Entry]] /\ free' \subseteq Pool
  BY <1>2 DEF TreeInv, Tree, Sorted
<1>4. /\ HostPage(pt', entry.addr) \in Nat
      /\ HostPage(pt', entry.addr) >= RamStart + Offset
  BY <1>1, <1>2, HostPageGood
<1>5. entry' \in GuestEntry /\ entry'.addr >= RamStart + Offset
  BY <1>4 DEF VInv, TypeOK, GuestEntry, MapUser
<1>6. tlb' \in [Virt -> SUBSET Entry] /\ TlbCoherent'
  <2>1. CASE Mapped(entry.addr)
    BY <1>2, <2>1 DEF VInv, TypeOK, MapUser, EnsureFence, TlbCoherent, ActiveRoot,
                      guest_vars
  <2>2. CASE ~Mapped(entry.addr)
    BY <2>2, FencedType DEF MapUser, EnsureFence, TlbCoherent
  <2> QED BY <2>1, <2>2
<1>7. /\ phase' = "shadow" /\ level' = 2 /\ table' = shadow_page_table
      /\ sfence' = FALSE
      /\ UNCHANGED <<guest_vars, fault, panic>>
  BY DEF MapUser
<1> USE DEF guest_vars
<1>8. TypeOK'
  <2>0. TypeOK
    BY DEF VInv
  <2>1. table' \in Pool \union {NULL} /\ shadow_page_table' \in Pool \union {NULL}
    BY <1>7, <2>0 DEF TypeOK
  <2>5. level' \in 0 .. 2 /\ phase' \in Handler
    BY <1>7 DEF Handler
  <2>6. sfence' \in BOOLEAN
    BY <1>7, Zenon
  <2>3. /\ shadow_pt_active' \in BOOLEAN /\ satp_ppn' \in GuestRoots
        /\ gmem' \in [GuestTables -> [Slot -> GuestEntry]]
    BY <1>7, <2>0 DEF TypeOK
  <2>4. fault' \in Fault /\ panic' \in PanicReason
    BY <1>7, <2>0 DEF TypeOK
  <2>2. pt' \in [Pool \union {MachineRoot} -> [Slot -> Entry]]
    BY <1>3 DEF TablePages
  <2> QED BY <1>3, <1>5, <1>6, <2>1, <2>2, <2>3, <2>4, <2>5, <2>6, Zenon DEF TypeOK
<1>9. FaultInv' /\ TranslationInv' /\ RootAllocated'
  BY <1>7 DEF VInv, FaultInv, TranslationInv, RootAllocated, Handler, MapUser
<1>10. ShadowInv'
  BY <1>5, <1>7 DEF ShadowInv
<1> QED BY <1>2, <1>6, <1>8, <1>9, <1>10 DEF VInv

-----------------------------------------------------------------------------
(* Where update_shadow_pt is.                                              *)
LEMMA ShadowPlace ==
    ASSUME VInv, phase = "shadow"
    PROVE  /\ shadow_pt_active /\ shadow_page_table \in ShadowRoots
           /\ ActiveRoot = shadow_page_table
           /\ fault_addr \in Virt
           /\ level = 2 => table \in ShadowRoots
           /\ level = 1 => table \in ShadowMid
           /\ level = 0 => table \in ShadowLow
<1>1. /\ shadow_pt_active /\ shadow_page_table \in ShadowRoots
      /\ ActiveRoot = shadow_page_table
  BY DEF VInv, TranslationInv, RootAllocated, ShadowRoots, ActiveRoot
<1>2. fault_addr \in Virt
  BY FaultAddress DEF VInv, Handler
<1>3. level = 2 => table \in ShadowRoots
  BY <1>1 DEF VInv, ShadowInv
<1> DEFINE e == pt[shadow_page_table][fault_addr[2]]
<1>4. level < 2 => fault_addr[2] \in Slot /\ TableOrEmpty(e, ShadowMid)
  BY <1>1, <1>2, VirtIndices DEF VInv, ShadowInv, TreeInv, Tree, Contents
<1>5. level = 1 => table \in ShadowMid
  <2> SUFFICES ASSUME level = 1 PROVE table \in ShadowMid
    OBVIOUS
  <2>1. e = TableEntry(table)
    BY DEF VInv, ShadowInv
  <2>2. IsTable(e) /\ e.addr = table
    BY <2>1, EntryKinds
  <2> QED BY <1>4, <2>2, EntryCases
<1>6. level = 0 => table \in ShadowLow
  <2> SUFFICES ASSUME level = 0 PROVE table \in ShadowLow
    OBVIOUS
  <2>1. IsTable(e) /\ pt[e.addr][fault_addr[1]] = TableEntry(table)
    BY DEF VInv, ShadowInv
  <2>2. e.addr \in ShadowMid
    BY <1>4, <2>1, EntryCases
  <2>3. TableOrEmpty(pt[e.addr][fault_addr[1]], ShadowLow)
    BY <1>2, <2>2, VirtIndices DEF VInv, TreeInv, Tree, Contents
  <2> HIDE DEF e
  <2> QED BY <2>1, <2>3, EntryCases, EntryKinds
<1> QED BY <1>1, <1>2, <1>3, <1>5, <1>6

(* A new, empty table in the shadow tree changes no translation.           *)
LEMMA WalkAfterLink ==
    ASSUME NEW P, NEW F, NEW S, NEW mm, NEW sm, NEW sl,
           Tree(P, F, S, mm, sm, sl), NEW r \in S,
           NEW t \in S \union sm, NEW k \in Slot,
           NEW c, NEW Q, Linked(P, Q, F, t, k, c),
           \A i \in Slot : Q[c][i] = EmptyEntry,
           NEW G, NEW mm2, NEW sm2, NEW sl2, Tree(Q, G, S, mm2, sm2, sl2),
           NEW va \in Virt
    PROVE  Walk(Q, r, va) = Walk(P, r, va)
<1> DEFINE e2 == P[r][Top(va)]
           e1 == P[e2.addr][va[1]]
           e0 == P[e1.addr][va[0]]
           d2 == Q[r][Top(va)]
           d1 == Q[d2.addr][va[1]]
           d0 == Q[d1.addr][va[0]]
<1>0. Top(va) \in Slot /\ va[1] \in Slot /\ va[0] \in Slot
  BY VirtIndices
<1>1. Walk(P, r, va) = IF IsTable(e2) /\ IsTable(e1) /\ IsLeaf(e0)
                       THEN e0 ELSE EmptyEntry
  BY ShadowWalk
<1>2. Walk(Q, r, va) = IF IsTable(d2) /\ IsTable(d1) /\ IsLeaf(d0)
                       THEN d0 ELSE EmptyEntry
  BY ShadowWalk
<1>3. /\ r \in TablePages /\ r # c /\ c \in Pool
      /\ sm \subseteq TablePages /\ c \notin sm
      /\ sl \subseteq TablePages /\ c \notin sl
      /\ t \notin sl /\ (t \in S => t = r)
  BY DEF Tree, Sorted, Linked, TablePages
<1>4. CASE t = r /\ Top(va) = k
  <2>1. ~IsTable(e2)
    BY <1>4 DEF Linked, IsTable
  <2>2. d2 = TableEntry(c)
    BY <1>4 DEF Linked
  <2>3. d2.addr = c
    BY <2>2, EntryKinds
  <2>4. d1 = EmptyEntry
    BY <1>0, <2>3
  <2>5. ~IsTable(d1)
    BY <2>4, EntryKinds
  <2> HIDE DEF e2, e1, e0, d2, d1, d0
  <2> QED BY <1>1, <1>2, <2>1, <2>5
<1>5. CASE ~(t = r /\ Top(va) = k)
  <2>1. d2 = e2
    BY <1>0, <1>3, <1>5 DEF Linked
  <2>2. CASE ~IsTable(e2)
    <3> HIDE DEF e2, e1, e0, d2, d1, d0
    <3> QED BY <1>1, <1>2, <2>1, <2>2
  <2>3. CASE IsTable(e2)
    <3>1. TableOrEmpty(e2, sm)
      BY <1>0 DEF Tree, Contents
    <3>2. e2.addr \in sm
      BY <2>3, <3>1, EntryCases
    <3>3. CASE e2.addr = t /\ va[1] = k
      <4>1. ~IsTable(e1)
        BY <3>3 DEF Linked, IsTable
      <4>2. d1 = TableEntry(c)
        BY <2>1, <3>3 DEF Linked
      <4>3. d0 = EmptyEntry
        BY <1>0, <4>2, EntryKinds
      <4>4. ~IsLeaf(d0)
        BY <4>3, EntryKinds
      <4> HIDE DEF e2, e1, e0, d2, d1, d0
      <4> QED BY <1>1, <1>2, <4>1, <4>4
    <3>4. CASE ~(e2.addr = t /\ va[1] = k)
      <4>1. d1 = e1
        BY <1>0, <1>3, <2>1, <3>2, <3>4 DEF Linked
      <4>2. TableOrEmpty(e1, sl)
        BY <1>0, <3>2 DEF Tree, Contents
      <4>3. IsTable(e1) => d0 = e0
        <5> SUFFICES ASSUME IsTable(e1) PROVE d0 = e0
          OBVIOUS
        <5>1. e1.addr \in sl
          BY <4>2, EntryCases
        <5>2. Q[e1.addr][va[0]] = P[e1.addr][va[0]]
          BY <1>0, <1>3, <5>1 DEF Linked
        <5> QED BY <4>1, <5>2
      <4> HIDE DEF e2, e1, e0, d2, d1, d0
      <4> QED BY <1>1, <1>2, <2>1, <4>1, <4>3
    <3> QED BY <3>3, <3>4
  <2> QED BY <2>2, <2>3
<1> QED BY <1>4, <1>5

(* A round of update_shadow_pt on one of the upper levels: no translation  *)
(* changes, and no table of the machine.                                   *)
LEMMA ShadowDownStep ==
    ASSUME VInv, ShadowDown
    PROVE  /\ VInv'
           /\ \A va \in Virt : Walk(pt', shadow_page_table, va)
                                = Walk(pt, shadow_page_table, va)
           /\ \A p \in MachineMid \union {MachineRoot}, i \in Slot :
                 pt'[p][i] = pt[p][i]
<1> DEFINE k == fault_addr[level]
           slot == pt[table][k]
           r == shadow_page_table
<1>0. /\ phase = "shadow" /\ phase' = "shadow" /\ level \in {1, 2}
      /\ level' = level - 1 /\ fault_addr[2] < N
      /\ UNCHANGED <<tlb, shadow_page_table, shadow_pt_active, satp_ppn, gmem,
                     fault, entry, panic>>
      /\ fault_addr' = fault_addr /\ sfence' = FALSE
  BY DEF VInv, TypeOK, ShadowDown, guest_vars, fault_addr
<1>1. /\ shadow_pt_active /\ r \in ShadowRoots /\ ActiveRoot = r
      /\ fault_addr \in Virt
      /\ level = 2 => table \in ShadowRoots /\ table = r
      /\ level = 1 => table \in ShadowMid
  BY <1>0, ShadowPlace DEF VInv, ShadowInv
<1>2. k \in Slot /\ fault_addr[2] \in Slot
  BY <1>0, <1>1, VirtIndices
<1>3. Tree(pt, free, ShadowRoots, MachineMid, ShadowMid, ShadowLow)
  BY DEF VInv, TreeInv
<1>4. /\ level = 2 => TableOrEmpty(slot, ShadowMid)
      /\ level = 1 => TableOrEmpty(slot, ShadowLow)
  BY <1>1, <1>2, <1>3 DEF Tree, Contents
<1>5. PICK child \in IF Valid(slot) THEN {slot.addr} ELSE free :
         /\ pt' = IF Valid(slot)
                  THEN pt
                  ELSE [pt EXCEPT ![table][k] = TableEntry(child),
                                  ![child] = NewTable(child)]
         /\ free' = free \ {child}
         /\ table' = child
  BY DEF ShadowDown
<1>6. /\ table \in Pool /\ child \in Pool /\ child # table
      /\ Valid(slot) => /\ IsTable(slot) /\ slot = TableEntry(child)
                        /\ child \notin free
  <2>1. Valid(slot) => /\ IsTable(slot) /\ slot = TableEntry(slot.addr)
                       /\ level = 2 => slot.addr \in ShadowMid
                       /\ level = 1 => slot.addr \in ShadowLow
    BY <1>0, <1>4, EntryCases
  <2> HIDE DEF slot
  <2> QED BY <1>0, <1>1, <1>3, <1>5, <2>1 DEF Tree, Sorted
<1>7. ASSUME ~Valid(slot)
      PROVE  /\ Linked(pt, pt', free, table, k, child)
             /\ \A i \in Slot : pt'[child][i] = EmptyEntry
  <2>1. /\ child \in free
        /\ pt' = [pt EXCEPT ![table][k] = TableEntry(child), ![child] = EmptyTable]
    BY <1>5, <1>7 DEF NewTable
  <2>2. EmptyTable \in [Slot -> Entry] /\ \A i \in Slot : EmptyTable[i] = EmptyEntry
    BY EntryKinds DEF EmptyTable
  <2>3. /\ pt \in [TablePages -> [Slot -> Entry]]
        /\ table \in TablePages /\ child \in TablePages
    BY <1>3, <1>6 DEF Tree, Sorted, TablePages
  <2>4. TableEntry(child) \in Entry
    BY <1>6, EntryKinds
  <2>5. /\ pt' \in [TablePages -> [Slot -> Entry]]
        /\ pt'[table][k] = TableEntry(child)
        /\ pt'[child] = EmptyTable
        /\ \A p \in TablePages, i \in Slot :
              p # child /\ ~(p = table /\ i = k) => pt'[p][i] = pt[p][i]
    BY <1>2, <1>6, <2>1, <2>2, <2>3, <2>4
  <2> QED BY <1>7, <2>1, <2>2, <2>5 DEF Linked
<1>8. ShadowRoots' = ShadowRoots /\ ActiveRoot' = r
  BY <1>0, <1>1 DEF ShadowRoots, ActiveRoot
<1>9. /\ pt'[table][k] = TableEntry(child)
      /\ level = 1 => pt'[r][fault_addr[2]] = pt[r][fault_addr[2]]
  <2>1. CASE Valid(slot)
    BY <1>5, <1>6, <2>1
  <2>2. CASE ~Valid(slot)
    <3>1. level = 1 => r # table /\ r # child /\ r \in TablePages
      BY <1>1, <1>3, <1>5, <2>2 DEF Tree, Sorted, TablePages
    <3> QED BY <1>2, <1>7, <2>2, <3>1 DEF Linked
  <2> QED BY <2>1, <2>2
<1> HIDE DEF slot, k
<1>10. TreeInv' /\ \A va \in Virt : Walk(pt', r, va) = Walk(pt, r, va)
  <2>1. CASE Valid(slot)
    <3>1. pt' = pt /\ free' = free
      BY <1>5, <1>6, <2>1
    <3> QED BY <1>0, <3>1, TreeSame DEF VInv
  <2>2. CASE ~Valid(slot)
    <3>1. \E sm2, sl2 : Tree(pt', free \ {child}, ShadowRoots, MachineMid, sm2, sl2)
      <4>1. CASE level = 2
        <5>1. Tree(pt', free \ {child}, ShadowRoots, MachineMid,
                   ShadowMid \union {child}, ShadowLow)
          BY <1>1, <1>2, <1>3, <1>7, <2>2, <4>1, AddMidTable
        <5> QED BY <5>1
      <4>2. CASE level = 1
        <5>1. Tree(pt', free \ {child}, ShadowRoots, MachineMid,
                   ShadowMid, ShadowLow \union {child})
          BY <1>1, <1>2, <1>3, <1>7, <2>2, <4>2, AddLowTable
        <5> QED BY <5>1
      <4> QED BY <1>0, <4>1, <4>2
    <3>2. PICK sm2, sl2 :
             Tree(pt', free \ {child}, ShadowRoots, MachineMid, sm2, sl2)
      BY <3>1
    <3>3. TreeInv'
      BY <1>5, <1>8, <3>2, TreeNext
    <3>4. table \in ShadowRoots \union ShadowMid
      BY <1>0, <1>1
    <3> HIDE DEF r
    <3>5. ASSUME NEW va \in Virt PROVE Walk(pt', r, va) = Walk(pt, r, va)
      <4>1. r \in ShadowRoots
        BY <1>1
      <4>2. Linked(pt, pt', free, table, k, child)
        BY <1>7, <2>2
      <4>3. \A i \in Slot : pt'[child][i] = EmptyEntry
        BY <1>7, <2>2
      <4>4. k \in Slot
        BY <1>2
      <4> QED BY <1>3, <3>2, <3>4, <4>1, <4>2, <4>3, <4>4, WalkAfterLink
    <3> QED BY <3>3, <3>5
  <2> QED BY <2>1, <2>2
<1>11. TypeOK'
  <2>1. pt' \in [TablePages -> [Slot -> Entry]] /\ free' \subseteq Pool
    BY <1>10 DEF TreeInv, Tree, Sorted
  <2>2. table' \in Pool /\ level' \in 0 .. 2
    BY <1>0, <1>5, <1>6
  <2> QED BY <1>0, <2>1, <2>2 DEF VInv, TypeOK, TablePages, Handler
<1>12. TlbCoherent'
  BY <1>0, <1>1, <1>8, <1>10 DEF VInv, TlbCoherent
<1>13. FaultInv' /\ TranslationInv' /\ RootAllocated'
  BY <1>0 DEF VInv, FaultInv, TranslationInv, RootAllocated, Handler
<1>14. ShadowInv'
  <2>1. entry'.addr >= RamStart + Offset
    BY <1>0 DEF VInv, ShadowInv
  <2>2. CASE level = 2
    <3>1. level' = 1 /\ pt'[r][fault_addr[2]] = TableEntry(child)
      BY <1>0, <1>1, <1>9, <2>2 DEF k
    <3> QED BY <1>0, <1>5, <2>1, <3>1 DEF ShadowInv
  <2>3. CASE level = 1
    <3>1. pt[r][fault_addr[2]] = TableEntry(table)
      BY <1>0, <2>3 DEF VInv, ShadowInv
    <3>2. pt'[r][fault_addr[2]] = TableEntry(table)
      BY <1>9, <2>3, <3>1
    <3>3. /\ IsTable(pt'[r][fault_addr[2]])
          /\ pt'[r][fault_addr[2]].addr = table
      BY <3>2, EntryKinds
    <3>4. pt'[table][fault_addr[1]] = TableEntry(child)
      BY <1>9, <2>3 DEF k
    <3>5. level' = 0
      BY <1>0, <2>3
    <3>6. /\ IsTable(pt'[shadow_page_table'][fault_addr'[2]])
          /\ pt'[pt'[shadow_page_table'][fault_addr'[2]].addr][fault_addr'[1]]
                = TableEntry(table')
      BY <1>0, <1>5, <3>3, <3>4
    <3>7. fault_addr'[2] < N
      BY <1>0
    <3> QED BY <2>1, <3>5, <3>6, <3>7 DEF ShadowInv
  <2> QED BY <1>0, <2>2, <2>3
<1>15. \A p \in MachineMid \union {MachineRoot}, i \in Slot : pt'[p][i] = pt[p][i]
  <2>1. CASE Valid(slot)
    BY <1>5, <2>1
  <2>2. CASE ~Valid(slot)
    <3>1. \A p \in MachineMid \union {MachineRoot} :
             p # table /\ p # child /\ p \in TablePages
      BY <1>0, <1>1, <1>3, <1>5, <2>2, VmemAssumption DEF Tree, Sorted, TablePages
    <3> QED BY <1>7, <2>2, <3>1 DEF Linked
  <2> QED BY <2>1, <2>2
<1> QED BY <1>10, <1>11, <1>12, <1>13, <1>14, <1>15 DEF VInv

\* The leaf that update_shadow_pt writes.
NewLeaf == [perm |-> LeafPerm(OldPerm(pt[table][fault_addr[0]])),
            addr |-> entry.addr]

(* It is for the guest's memory, and for GU.                               *)
LEMMA NewLeafGood ==
    ASSUME VInv, phase = "shadow", level = 0
    PROVE  GoodLeaf(NewLeaf) /\ Grants(NewLeaf, fault.kind)
<1> DEFINE old == pt[table][fault_addr[0]]
           perm == OldPerm(old)
<1>1. table \in ShadowLow /\ fault_addr[0] \in Slot
  BY ShadowPlace, VirtIndices
<1>2. LeafOrEmpty(old)
  BY <1>1 DEF VInv, TreeInv, Tree, Contents
<1>3. /\ entry.addr \in Nat /\ entry.addr >= RamStart + Offset
      /\ RamStart \in Nat \ {0} /\ Offset \in Nat
  <2>1. entry.addr \in Nat
    BY DEF VInv, TypeOK, GuestEntry
  <2>2. entry.addr >= RamStart + Offset
    BY DEF VInv, ShadowInv
  <2> QED BY <2>1, <2>2, Levels, VmemAssumption
<1>4. fault.kind \in Kind
  BY DEF VInv, FaultInv, Handler
<1>5. perm \subseteq Perm /\ {"V", "U"} \subseteq perm
  <2>1. CASE old.addr = entry.addr
    <3>1. old # EmptyEntry
      BY <1>3, <2>1, EntryKinds
    <3>2. GoodLeaf(old)
      BY <1>2, <3>1 DEF LeafOrEmpty
    <3>3. old.perm \subseteq Perm /\ {"V", "U"} \subseteq old.perm
      BY <3>2 DEF GoodLeaf, GuestEntry, IsLeaf, Valid
    <3> QED BY <2>1, <3>3 DEF OldPerm
  <2>2. CASE old.addr # entry.addr
    BY <2>2 DEF OldPerm, Perm
  <2> QED BY <2>1, <2>2
<1> HIDE DEF perm, old
<1>6. NewLeaf = [perm |-> perm \union {fault.kind, "R"}, addr |-> entry.addr]
  BY DEF NewLeaf, perm, old, LeafPerm
<1>7. perm \union {fault.kind, "R"} \in SUBSET Perm
  BY <1>4, <1>5 DEF Perm, Kind
<1>8. NewLeaf \in GuestEntry
  BY <1>3, <1>6, <1>7 DEF GuestEntry
<1>9. IsLeaf(NewLeaf) /\ "U" \in NewLeaf.perm /\ Grants(NewLeaf, fault.kind)
  BY <1>5, <1>6 DEF IsLeaf, Valid, Kind, Grants
<1>10. NewLeaf.addr >= RamStart + Offset
  BY <1>3, <1>6
<1> QED BY <1>8, <1>9, <1>10 DEF GoodLeaf

(* The tables after the leaf has been written.                             *)
LEMMA LeafTree ==
    ASSUME VInv, phase = "shadow", level = 0, UNCHANGED <<free, shadow_page_table>>,
           pt' = [pt EXCEPT ![table][fault_addr[0]] = NewLeaf]
    PROVE  /\ TreeInv' /\ Tree(pt', free', ShadowRoots, MachineMid, ShadowMid, ShadowLow)
           /\ \A p \in TablePages, i \in Slot :
                 pt'[p][i] = IF p = table /\ i = fault_addr[0]
                             THEN NewLeaf ELSE pt[p][i]
<1>1. table \in ShadowLow /\ fault_addr[0] \in Slot /\ GoodLeaf(NewLeaf)
  BY ShadowPlace, VirtIndices, NewLeafGood
<1>2. Tree(pt, free, ShadowRoots, MachineMid, ShadowMid, ShadowLow)
  BY DEF VInv, TreeInv
<1>3. /\ pt \in [TablePages -> [Slot -> Entry]] /\ table \in TablePages
      /\ NewLeaf \in Entry /\ table \in MachineMid \union ShadowLow
  BY <1>1, <1>2, EntryKinds DEF Tree, Sorted, TablePages
<1>4. /\ pt' \in [TablePages -> [Slot -> Entry]]
      /\ \A p \in TablePages, i \in Slot :
            pt'[p][i] = IF p = table /\ i = fault_addr[0]
                        THEN NewLeaf ELSE pt[p][i]
  BY <1>1, <1>3, SetEntry
<1>5. Tree(pt', free, ShadowRoots, MachineMid, ShadowMid, ShadowLow)
  <2> DEFINE k == fault_addr[0]
             Q == pt'
  <2>1. /\ k \in Slot /\ Q \in [TablePages -> [Slot -> Entry]]
        /\ \A p \in TablePages, i \in Slot :
              Q[p][i] = IF p = table /\ i = k THEN NewLeaf ELSE pt[p][i]
    BY <1>1, <1>4
  <2> HIDE DEF k, Q
  <2>2. Tree(Q, free, ShadowRoots, MachineMid, ShadowMid, ShadowLow)
    BY <1>1, <1>2, <1>3, <2>1, SetLeaf
  <2> QED BY <2>2 DEF Q
<1>6. ShadowRoots' = ShadowRoots /\ free' = free
  BY DEF ShadowRoots
<1>7. Tree(pt', free', ShadowRoots', MachineMid, ShadowMid, ShadowLow)
  BY <1>5, <1>6
<1>8. TreeInv'
  BY <1>7, TreeNext
<1> QED BY <1>4, <1>6, <1>7, <1>8

(* The last step of update_shadow_pt.                                      *)
LEMMA ShadowLeafStep == VInv /\ ShadowLeaf => VInv'
<1> SUFFICES ASSUME VInv, ShadowLeaf PROVE VInv'
  OBVIOUS
<1>1. CASE Panic("unknown page fault")
  BY <1>1, PanicStep DEF PanicReason
<1>2. CASE /\ pt' = [pt EXCEPT ![table][fault_addr[0]] = NewLeaf]
           /\ Return(Fenced, pt', shadow_page_table)
           /\ UNCHANGED <<free, guest_vars>>
  <2>1. phase = "shadow" /\ level = 0
    BY DEF ShadowLeaf
  <2>2. TreeInv'
    BY <1>2, <2>1, LeafTree DEF guest_vars
  <2>3. ActiveRoot = shadow_page_table
    BY <2>1, ShadowPlace
  <2> QED BY <1>2, <2>2, <2>3, ReturnStep, FencedType
<1> QED BY <1>1, <1>2 DEF ShadowLeaf, NewLeaf

-----------------------------------------------------------------------------
(* The invariant holds at the start.                                       *)
LEMMA VInvInit == Init => VInv
<1> SUFFICES ASSUME Init PROVE VInv
  OBVIOUS
<1> USE DEF Init
<1>1. TreeInv
  BY TreeInit
<1>2. Tree(pt, free, ShadowRoots, MachineMid, ShadowMid, ShadowLow)
  BY <1>1 DEF TreeInv
<1>3. pt \in [Pool \union {MachineRoot} -> [Slot -> Entry]] /\ ActiveRoot = MachineRoot
  BY <1>2 DEF Tree, Sorted, TablePages, ActiveRoot
<1>4. /\ tlb \in [Virt -> SUBSET Entry]
      /\ \A va \in Virt : tlb[va] = {Walk(pt, MachineRoot, va)}
  <2>1. MachineRoot \in ShadowRoots \union {MachineRoot}
    OBVIOUS
  <2> HIDE DEF Init
  <2>2. /\ Refill(Fenced, pt, MachineRoot) \in [Virt -> SUBSET Entry]
        /\ \A va \in Virt :
              Refill(Fenced, pt, MachineRoot)[va] = {Walk(pt, MachineRoot, va)}
    BY <1>2, <2>1, FencedType, Refilled
  <2> QED BY <2>2 DEF Init
<1>5. TlbCoherent
  BY <1>3, <1>4 DEF TlbCoherent
<1>6. gmem \in [GuestTables -> [Slot -> GuestEntry]] /\ entry \in GuestEntry
  BY EntryKinds DEF EmptyTable
<1>7. TypeOK
  <2>1. fault \in Fault /\ panic \in PanicReason /\ phase \in Handler \union {"guest"}
    BY DEF Fault, PanicReason
  <2>2. shadow_pt_active \in BOOLEAN /\ sfence \in BOOLEAN
    OBVIOUS
  <2>3. level \in 0 .. 2 /\ satp_ppn \in GuestRoots /\ free \subseteq Pool
        /\ shadow_page_table \in Pool \union {NULL} /\ table \in Pool \union {NULL}
    OBVIOUS
  <2> QED BY <1>3, <1>4, <1>6, <2>1, <2>2, <2>3 DEF TypeOK
<1>8. RootAllocated /\ FaultInv /\ TranslationInv /\ ShadowInv
  BY DEF RootAllocated, FaultInv, TranslationInv, ShadowInv, Handler
<1> QED BY <1>1, <1>5, <1>7, <1>8 DEF VInv

(* Every step keeps it.                                                    *)
LEMMA VInvNext == VInv /\ [Next]_vars => VInv'
<1> SUFFICES ASSUME VInv, [Next]_vars PROVE VInv'
  OBVIOUS
<1>1. CASE UNCHANGED vars
  <2> USE <1>1 DEF vars, table_vars, guest_vars, walk_vars
  <2>1. TreeInv' /\ RootAllocated' /\ TlbCoherent'
    BY SameTables
  <2>2. TypeOK'
    BY DEF VInv, TypeOK
  <2>3. FaultInv' /\ TranslationInv' /\ ShadowInv'
    BY DEF VInv, FaultInv, TranslationInv, ShadowInv, fault_addr
  <2> QED BY <2>1, <2>2, <2>3 DEF VInv
<1>2. CASE WalkRefused \/ EnsurePanics \/ MapTooHigh \/ ShadowPanics
  <2>1. \E reason \in PanicReason : Panic(reason)
    BY <1>2 DEF WalkRefused, EnsurePanics, MapTooHigh, ShadowPanics, PanicReason
  <2> QED BY <2>1, PanicStep
<1>3. CASE halt_thread
  BY <1>1, <1>3 DEF halt_thread
<1> QED
  BY <1>1, <1>2, <1>3, GuestWriteStep, SetSatpStep, MretStep, ExceptionStep,
     FlushStep, InstructionFaultStep, DataFaultStep, FetchStep, WalkFoundStep,
     WalkDownStep, WalkWildStep, DeviceStep, MapMachineStep, MapUserStep,
     ShadowDownStep, ShadowLeafStep
  DEF Next, Handle

(* The invariant of the proofs.                                            *)
THEOREM Invariance == Spec => []VInv
BY VInvInit, VInvNext, PTL DEF Spec

(* The variables have their types: in particular every pointer that        *)
(* update_shadow_pt and clear_pagetable follow leads to a page of the pool. *)
THEOREM VmemTypeCorrect == Spec => []TypeOK
<1>1. VInv => TypeOK
  BY DEF VInv
<1> QED BY <1>1, Invariance, PTL

(* The pages taken by allocate_pagepable are the tables of the two trees,  *)
(* each at one place, and all others are free.                             *)
THEOREM TablesOwnedHolds == Spec => []TablesOwned
<1>1. VInv => TablesOwned
  BY TreeOwned DEF VInv
<1> QED BY <1>1, Invariance, PTL

(* No table of the hypervisor maps a page outside the guest's memory,      *)
(* whatever the guest has in its own tables.                               *)
THEOREM GuestMemoryOnlyHolds == Spec => []GuestMemoryOnly
<1>1. VInv => GuestMemoryOnly
  BY TreeMemory DEF VInv
<1> QED BY <1>1, Invariance, PTL

(* guest_mret gets a page for the shadow root, although it does not look.  *)
THEOREM RootAllocatedHolds == Spec => []RootAllocated
<1>1. VInv => RootAllocated
  BY DEF VInv
<1> QED BY <1>1, Invariance, PTL

(* The guest never runs with a translation that the table in satp does not *)
(* give.                                                                   *)
THEOREM TlbCoherentHolds == Spec => []TlbCoherent
<1>1. VInv => TlbCoherent
  BY DEF VInv
<1> QED BY <1>1, Invariance, PTL

-----------------------------------------------------------------------------
(* The indices of an address of GM are those of its virtual page.          *)
LEMMA PageIndices ==
    ASSUME NEW va \in Virt
    PROVE  /\ Lvl3(PageNumber(va)) = va[2]
           /\ Lvl2(PageNumber(va)) = va[1]
           /\ PageNumber(va) % N = va[0]
<1>1. N \in Nat \ {0} /\ va[2] \in Nat /\ va[1] \in 0 .. N - 1 /\ va[0] \in 0 .. N - 1
  BY VirtIndices, VmemAssumption DEF Slot
<1> DEFINE h == va[2] * N + va[1]
<1>2. h \in Nat
  BY <1>1
<1>3. h \div N = va[2] /\ h % N = va[1]
  BY <1>1, DivSum
<1> HIDE DEF h
<1>4. (h * N + va[0]) \div N = h /\ (h * N + va[0]) % N = va[0]
  BY <1>1, <1>2, DivSum
<1>5. PageNumber(va) = h * N + va[0]
  BY DEF PageNumber, h
<1> QED BY <1>3, <1>4, <1>5 DEF Lvl3, Lvl2

(* A page of GM can be used once its region is in the machine table.       *)
LEMMA MachineRepaired ==
    ASSUME VInv, MapMachine, phase' = "guest"
    PROVE  \A e \in tlb'[fault_addr] : Grants(e, fault.kind)
<1> DEFINE va == fault_addr
           g == entry.addr
           root == pt'[MachineRoot][Top(va)]
           leaf == pt'[root.addr][va[1]]
<1>1. /\ va \in Virt /\ g = PageNumber(va) /\ g \in Nat /\ InRam(g)
      /\ fault.kind \in Kind
  BY FaultAddress, VirtIndices
  DEF VInv, MapMachine, Handler, FaultInv, TranslationInv
<1>2. /\ ~Mapped(g) /\ ensure_guest_machine_mapped(g)
      /\ Return(EnsureFence(g), pt', MachineRoot) /\ UNCHANGED guest_vars
  BY DEF MapMachine, Panic
<1>3. /\ TreeInv' /\ IsTable(pt'[MachineRoot][Lvl3(g)])
      /\ GoodLeaf(MachineEntry(pt', g)) /\ MachineEntry(pt', g) = RegionEntry(g)
  BY <1>1, <1>2, Ensure DEF VInv, guest_vars
<1>4. Lvl3(g) = va[2] /\ Lvl2(g) = va[1] /\ Top(va) = va[2] /\ va[2] \in Slot
  <2>1. Lvl3(g) = va[2] /\ Lvl2(g) = va[1]
    BY <1>1, PageIndices
  <2>2. Lvl3(g) \in Slot
    BY <1>1, Levels
  <2>3. va[2] < N
    BY <2>1, <2>2, VmemAssumption DEF Slot
  <2> QED BY <1>1, <2>1, <2>2, <2>3, VirtIndices
<1>5. Tree(pt', free', ShadowRoots', MachineMid', ShadowMid', ShadowLow')
  BY <1>3 DEF TreeInv
<1>6. IsTable(root) /\ leaf = RegionEntry(g)
  <2>1. IsTable(root) /\ root \in [perm : SUBSET Perm, addr : Nat \union Pool]
    BY <1>3, <1>4, <1>5, VmemAssumption DEF Tree, Sorted, TablePages, Entry
  <2>2. TableOrEmpty(root, MachineMid')
    BY <1>4, <1>5 DEF Tree, Contents
  <2>3. root.addr \in DOMAIN pt'
    BY <1>5, <2>1, <2>2, EntryCases DEF Tree, Sorted, TablePages
  <2>4. MachineEntry(pt', g) = leaf
    BY <1>4, <2>3 DEF MachineEntry, Descend
  <2> QED BY <1>3, <2>1, <2>4
<1>7. IsLeaf(leaf)
  BY <1>3, <1>6 DEF GoodLeaf
<1>8. Walk(pt', MachineRoot, va) = [leaf EXCEPT !.addr = @ + va[0]]
  BY <1>1, <1>5, <1>6, <1>7, MachineWalk
<1>9. Walk(pt', MachineRoot, va).perm = Perm
  BY <1>6, <1>8 DEF RegionEntry
<1>10. tlb'[va] = {Walk(pt', MachineRoot, va)}
  BY <1>1, <1>2 DEF Return, EnsureFence, Refill, Fenced
<1>11. Grants(Walk(pt', MachineRoot, va), fault.kind)
  BY <1>1, <1>9 DEF Grants, Perm, Kind
<1> QED BY <1>10, <1>11

(* A page of GU can be used once its leaf has been written.                *)
LEMMA ShadowRepaired ==
    ASSUME VInv, ShadowLeaf, phase' = "guest"
    PROVE  /\ Walk(pt', shadow_page_table, fault_addr) = NewLeaf
           /\ \A e \in tlb'[fault_addr] : Grants(e, fault.kind)
<1> DEFINE va == fault_addr
           r == shadow_page_table
           e2 == pt[r][va[2]]
           d2 == pt'[r][Top(va)]
           d1 == pt'[d2.addr][va[1]]
           d0 == pt'[d1.addr][va[0]]
<1>1. /\ phase = "shadow" /\ level = 0
      /\ pt' = [pt EXCEPT ![table][va[0]] = NewLeaf]
      /\ Return(Fenced, pt', r) /\ UNCHANGED <<free, guest_vars>>
  BY DEF ShadowLeaf, Panic, NewLeaf
<1>2. /\ va \in Virt /\ r \in ShadowRoots /\ table \in ShadowLow
      /\ GoodLeaf(NewLeaf) /\ Grants(NewLeaf, fault.kind)
  BY <1>1, ShadowPlace, NewLeafGood
<1>3. /\ va[2] \in Slot /\ Top(va) = va[2] /\ va[1] \in Slot /\ va[0] \in Slot
      /\ IsTable(e2) /\ pt[e2.addr][va[1]] = TableEntry(table)
  BY <1>1, <1>2, VirtIndices DEF VInv, ShadowInv
<1>4. /\ Tree(pt', free', ShadowRoots, MachineMid, ShadowMid, ShadowLow)
      /\ \A p \in TablePages, i \in Slot :
            pt'[p][i] = IF p = table /\ i = va[0] THEN NewLeaf ELSE pt[p][i]
  BY <1>1, LeafTree DEF guest_vars
<1>5. Tree(pt, free, ShadowRoots, MachineMid, ShadowMid, ShadowLow)
  BY DEF VInv, TreeInv
<1>6. e2.addr \in ShadowMid
  <2>1. TableOrEmpty(e2, ShadowMid)
    BY <1>2, <1>3, <1>5 DEF Tree, Contents
  <2> QED BY <1>3, <2>1, EntryCases
<1>7. /\ r # table /\ r \in TablePages /\ e2.addr # table /\ e2.addr \in TablePages
      /\ table \in TablePages
  BY <1>2, <1>5, <1>6 DEF Tree, Sorted, TablePages
<1>8. d2 = e2
  BY <1>3, <1>4, <1>7
<1>9. d1 = TableEntry(table)
  BY <1>3, <1>4, <1>7, <1>8
<1>10. d0 = NewLeaf
  BY <1>3, <1>4, <1>7, <1>9, EntryKinds
<1>11. IsTable(d2) /\ IsTable(d1) /\ IsLeaf(d0)
  BY <1>2, <1>3, <1>8, <1>9, <1>10, EntryKinds DEF GoodLeaf
<1>12. Walk(pt', r, va) = IF IsTable(d2) /\ IsTable(d1) /\ IsLeaf(d0)
                          THEN d0 ELSE EmptyEntry
  <2> HIDE DEF va, r
  <2> QED BY <1>2, <1>4, ShadowWalk
<1>13. Walk(pt', r, va) = NewLeaf
  BY <1>10, <1>11, <1>12
<1>14. tlb'[va] = {Walk(pt', r, va)}
  BY <1>1, <1>2 DEF Return, Refill, Fenced
<1> QED BY <1>2, <1>13, <1>14

(* A handled fault does not come again.                                    *)
THEOREM FaultRepairsHolds == Spec => FaultRepairs
<1> DEFINE Repairs == /\ phase \in {"map", "shadow"}
                      /\ phase' = "guest"
                      /\ entry.addr >= RamStart
                      /\ Canonical(fault_addr)
                      => \A e \in tlb'[fault_addr] : Grants(e, fault.kind)
<1>1. ASSUME VInv, Next PROVE Repairs
  <2> SUFFICES ASSUME phase \in {"map", "shadow"}, phase' = "guest",
                      entry.addr >= RamStart
               PROVE  \A e \in tlb'[fault_addr] : Grants(e, fault.kind)
    OBVIOUS
  <2>1. EmulateDevice \/ MapMachine \/ ShadowLeaf
    BY <1>1 DEF Next, Handle, GuestWrite, SetSatp, guest_mret, guest_exception,
                flush_shadow_pagetable, InstructionPageFault, DataPageFault, Fetch,
                WalkFound, WalkRefused, WalkDown, WalkWild, EnsurePanics,
                MapTooHigh, MapUser, ShadowDown, ShadowPanics, halt_thread, Panic,
                vars
  <2>2. ~EmulateDevice
    <3>1. entry.addr \in Nat /\ RamStart \in Nat
      BY <1>1, Levels DEF VInv, TypeOK, GuestEntry
    <3>2. ~(entry.addr < RamStart)
      BY <3>1
    <3> QED BY <3>2, Zenon DEF EmulateDevice, TooLow
  <2> QED BY <1>1, <2>1, <2>2, MachineRepaired, ShadowRepaired
<1>2. VInv /\ [Next]_vars => [Repairs]_vars
  BY <1>1
<1> QED BY <1>2, Invariance, PTL DEF Spec, FaultRepairs
=============================================================================
