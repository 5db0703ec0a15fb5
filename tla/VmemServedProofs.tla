--------------------------- MODULE VmemServedProofs ---------------------------
(***************************************************************************)
(* handle_page_fault serves every fault that the guest is entitled to have *)
(* served, as far as vmem.c supports it.                                   *)
(***************************************************************************)
EXTENDS VmemTlbProofs, SequenceTheorems

\* The table in use does not allow the access yet, or there is no memory at
\* the page it gives.
Faulted ==
    phase \in Handler /\ Len(fault.pages) = 1 /\ Canonical(fault_addr) =>
        \/ ~Grants(Walk(pt, ActiveRoot, fault_addr), fault.kind)
        \/ Walk(pt, ActiveRoot, fault_addr).addr \notin HostMemory

\* The instruction that accessed the page could be fetched.
Fetchable ==
    phase = "fetch" =>
        {"V", "U"} \subseteq Walk(pt, ActiveRoot, Head(fault.instr)).perm

\* There is a reason to stop.
Running == phase # "halted" => panic = "none"

ServedInv == TlbInv /\ Faulted /\ Fetchable /\ Running /\ ServedIfSupported

\* The fault need not be served.
Excused == Unsupported \/ ~Permitted(fault_addr, fault.kind)

-----------------------------------------------------------------------------
(* A panic with a good reason.                                             *)
LEMMA GiveUp ==
    ASSUME ServedInv, NEW reason, Panic(reason),
           reason = "Failed to allocate a page" \/ Excused
    PROVE  Faulted' /\ Fetchable' /\ Running' /\ ServedIfSupported'
<1>1. /\ phase' = "halted" /\ panic' = reason
      /\ UNCHANGED <<fault, shadow_pt_active, satp_ppn, gmem>>
  BY DEF Panic, walk_vars, guest_vars
<1>2. Excused' <=> Excused
  BY <1>1 DEF Excused, Unsupported, Permitted, fault_addr, SmallPage,
              TablesInRam, GuestWalk
<1>3. ServedIfSupported'
  BY <1>1, <1>2 DEF ServedIfSupported, Excused
<1> QED BY <1>1, <1>3 DEF Faulted, Fetchable, Running, Handler

(* No panic yet.                                                           *)
LEMMA GoOn ==
    ASSUME ServedInv, phase # "halted", panic' = panic
    PROVE  Running' /\ ServedIfSupported'
BY DEF ServedInv, Running, ServedIfSupported

(* The page is still denied while its fault is handled.                    *)
LEMMA StillFaulted ==
    ASSUME ServedInv, phase \in Handler, phase' \in Handler \ {"fetch"},
           fault' = fault,
           \A va \in Virt : Walk(pt', ActiveRoot', va) = Walk(pt, ActiveRoot, va)
    PROVE  Faulted' /\ Fetchable'
<1>1. fault_addr \in Virt /\ fault_addr' = fault_addr
  BY FaultAddress DEF ServedInv, TlbInv, VInv, fault_addr
<1>2. Walk(pt', ActiveRoot', fault_addr) = Walk(pt, ActiveRoot, fault_addr)
  BY <1>1
<1> QED BY <1>1, <1>2 DEF ServedInv, Faulted, Fetchable

(* An access has one page or more than one.                                *)
LEMMA NotEmpty ==
    ASSUME NEW s \in Seq(Virt), s # << >>
    PROVE  Len(s) = 1 \/ Len(s) > 1
<1> DEFINE n == Len(s)
<1>1. n \in Nat \ {0}
  BY EmptySeq
<1> HIDE DEF n
<1>2. n = 1 \/ n > 1
  BY <1>1
<1> QED BY <1>2 DEF n

(* A sequence of one page.                                                 *)
LEMMA OnePage ==
    ASSUME NEW s \in Seq(Virt), Len(s) = 1
    PROVE  Pages(s) = {Head(s)} /\ Head(s) \in Virt /\ ~(Len(s) > 1)
<1>1. DOMAIN s = {1} /\ Head(s) = s[1]
  OBVIOUS
<1>2. Pages(s) = {Head(s)}
  BY <1>1 DEF Pages
<1>3. s[1] \in Virt
  BY <1>1
<1>4. ~(1 > 1)
  OBVIOUS
<1> QED BY <1>1, <1>2, <1>3, <1>4

(* The hart denies an access only if the table in use does.                *)
LEMMA DeniedByTable ==
    ASSUME VInv, NEW va \in Virt, NEW kind, Denied(va, kind), Canonical(va)
    PROVE  ~Grants(Walk(pt, ActiveRoot, va), kind)
<1>1. PICK e \in tlb[va] : ~Grants(e, kind)
  BY DEF Denied
<1>2. e = Walk(pt, ActiveRoot, va)
  BY DEF VInv, TlbCoherent
<1> QED BY <1>1, <1>2

(* An access fault is one at the page that the table in use gives.         *)
LEMMA NoMemoryByTable ==
    ASSUME VInv, NEW va \in Virt, NEW kind, NoMemory(va, kind)
    PROVE  Walk(pt, ActiveRoot, va).addr \notin HostMemory
<1>1. PICK e \in tlb[va] : e.addr \notin HostMemory
  BY DEF NoMemory
<1>2. e = Walk(pt, ActiveRoot, va)
  BY DEF VInv, TlbCoherent
<1> QED BY <1>1, <1>2

(* The same for an access that it allows.                                  *)
LEMMA AllowedByTable ==
    ASSUME VInv, NEW va \in Virt, NEW kind, Allowed(va, kind)
    PROVE  Grants(Walk(pt, ActiveRoot, va), kind)
<1>1. PICK e \in tlb[va] : Grants(e, kind)
  BY DEF Allowed
<1>2. e = Walk(pt, ActiveRoot, va)
  BY DEF VInv, TlbCoherent
<1> QED BY <1>1, <1>2

(* A page fault of an instruction.                                         *)
LEMMA InstructionFaulted ==
    ASSUME VInv, InstructionPageFault
    PROVE  Faulted' /\ Fetchable'
<1>1. PICK a \in Accesses :
         /\ \E va \in Pages(a.instr) : Denied(va, "X")
         /\ fault' = [kind |-> "X", known |-> TRUE,
                      instr |-> a.instr, pages |-> a.instr]
         /\ Translate(Head(a.instr))
  BY DEF InstructionPageFault
<1> DEFINE va == Head(a.instr)
<1>2. /\ fault'.kind = "X" /\ fault'.pages = a.instr /\ fault_addr' = va
      /\ a.instr \in Seq(Virt) /\ va \in Virt
  BY <1>1, AccessType DEF fault_addr
<1>3. pt' = pt /\ ActiveRoot' = ActiveRoot
  BY DEF InstructionPageFault, table_vars, guest_vars, ActiveRoot
<1>4. phase' # "fetch"
  BY <1>1 DEF Translate
<1>5. Len(a.instr) = 1 /\ Canonical(va) => ~Grants(Walk(pt, ActiveRoot, va), "X")
  <2> SUFFICES ASSUME Len(a.instr) = 1, Canonical(va)
               PROVE  ~Grants(Walk(pt, ActiveRoot, va), "X")
    OBVIOUS
  <2>1. Denied(va, "X")
    BY <1>1, <1>2, OnePage
  <2> HIDE DEF va
  <2> QED BY <1>2, <2>1, DeniedByTable
<1> HIDE DEF va
<1> QED BY <1>2, <1>3, <1>4, <1>5 DEF Faulted, Fetchable

(* A fault of a load or a store.                                           *)
LEMMA DataFaulted ==
    ASSUME VInv, DataPageFault
    PROVE  Faulted' /\ Fetchable'
<1>1. PICK a \in Accesses :
         /\ \A va \in Pages(a.instr) : Allowed(va, "X")
         /\ \E va \in Pages(a.data) : Denied(va, a.kind) \/ NoMemory(va, a.kind)
         /\ fault' = [kind |-> a.kind, known |-> a.known,
                      instr |-> a.instr, pages |-> a.data]
  BY DEF DataPageFault
<1> DEFINE va == Head(a.data)
           pc == Head(a.instr)
<1>2. /\ fault'.kind = a.kind /\ fault'.pages = a.data /\ fault_addr' = va
      /\ fault'.instr = a.instr /\ a.data \in Seq(Virt) /\ a.data # << >>
      /\ a.instr \in Seq(Virt) /\ a.instr # << >> /\ pc \in Virt
  BY <1>1, AccessType DEF fault_addr
<1>3. va \in Virt
  BY <1>2
<1>4. pt' = pt /\ ActiveRoot' = ActiveRoot
  BY DEF DataPageFault, table_vars, guest_vars, ActiveRoot
<1>5. Len(a.data) = 1 /\ Canonical(va) =>
         \/ ~Grants(Walk(pt, ActiveRoot, va), a.kind)
         \/ Walk(pt, ActiveRoot, va).addr \notin HostMemory
  <2> SUFFICES ASSUME Len(a.data) = 1, Canonical(va)
               PROVE  \/ ~Grants(Walk(pt, ActiveRoot, va), a.kind)
                      \/ Walk(pt, ActiveRoot, va).addr \notin HostMemory
    OBVIOUS
  <2>1. Denied(va, a.kind) \/ NoMemory(va, a.kind)
    BY <1>1, <1>2, OnePage
  <2> HIDE DEF va
  <2> QED BY <1>3, <2>1, DeniedByTable, NoMemoryByTable
<1>6. {"V", "U"} \subseteq Walk(pt, ActiveRoot, pc).perm
  <2>1. pc \in Pages(a.instr)
    <3>1. 1 \in DOMAIN a.instr /\ pc = a.instr[1]
      BY <1>2
    <3> QED BY <3>1 DEF Pages
  <2>2. Allowed(pc, "X")
    BY <1>1, <2>1
  <2> HIDE DEF pc
  <2>3. Grants(Walk(pt, ActiveRoot, pc), "X")
    BY <1>2, <2>2, AllowedByTable
  <2> QED BY <2>3 DEF Grants
<1>7. Head(fault'.instr) = pc
  BY <1>2
<1> HIDE DEF va, pc
<1> QED BY <1>2, <1>4, <1>5, <1>6, <1>7 DEF Faulted, Fetchable

-----------------------------------------------------------------------------
(* The instruction that faulted cannot be read in one piece or parsed.     *)
LEMMA FetchGivesUp ==
    ASSUME ServedInv, phase = "fetch", FetchError # "none"
    PROVE  Unsupported
<1>1. fault.instr \in Seq(Virt) /\ fault.instr # << >>
  BY DEF ServedInv, TlbInv, VInv, FaultInv, Handler
<1>2. ~InOneSlice(fault.instr) \/ ~fault.known
  BY FetchErrors DEF ServedInv, Fetchable
<1>3. CASE ~InOneSlice(fault.instr)
  <2>1. Len(fault.instr) # 1
    BY <1>3 DEF InOneSlice
  <2>2. Len(fault.instr) > 1
    BY <1>1, <2>1, NotEmpty, Zenon
  <2> QED BY <2>2 DEF Unsupported
<1>4. CASE ~fault.known
  BY <1>4 DEF Unsupported
<1> QED BY <1>2, <1>3, <1>4

(* What is known of an access of GU that need be served.                   *)
LEMMA UserAccess ==
    ASSUME ServedInv, phase \in Handler, shadow_pt_active, ~Excused
    PROVE  /\ WalkKnown /\ TablesInRam(fault_addr) /\ ~SmallPage(fault_addr)
           /\ fault_addr[2] < N /\ Canonical(fault_addr) /\ Len(fault.pages) = 1
           /\ Grants(Walk(gmem, satp_ppn, fault_addr), fault.kind)
           /\ InRam(Walk(gmem, satp_ppn, fault_addr).addr)
           /\ Present(Walk(gmem, satp_ppn, fault_addr).addr)
<1>1. ~Unsupported /\ Permitted(fault_addr, fault.kind)
  BY DEF Excused
<1>2. /\ TablesInRam(fault_addr) /\ ~SmallPage(fault_addr)
      /\ ~(fault_addr[2] >= N) /\ ~(Len(fault.pages) > 1)
  BY <1>1 DEF Unsupported
<1>3. WalkKnown
  BY <1>2 DEF ServedInv, TlbInv, GuestWalkInv
<1>4. /\ Grants(GuestWalk(fault_addr), fault.kind)
      /\ InRam(GuestWalk(fault_addr).addr) /\ Present(GuestWalk(fault_addr).addr)
  BY <1>1 DEF Permitted
<1>5. Canonical(fault_addr)
  BY <1>4, EntryKinds DEF GuestWalk, Grants
<1>6. GuestWalk(fault_addr) = Walk(gmem, satp_ppn, fault_addr)
  BY <1>5 DEF GuestWalk
<1>7. fault_addr[2] < N
  <2>1. fault_addr[2] \in Nat /\ N \in Nat
    BY FaultAddress, VirtIndices, VmemAssumption DEF ServedInv, TlbInv, VInv
  <2> QED BY <1>2, <2>1
<1>8. Len(fault.pages) = 1
  <2>1. fault.pages \in Seq(Virt) /\ fault.pages # << >>
    BY DEF ServedInv, TlbInv, VInv, FaultInv
  <2> QED BY <1>2, <2>1, NotEmpty, Zenon
<1> QED BY <1>2, <1>3, <1>4, <1>5, <1>6, <1>7, <1>8

(* try_resolve_gu_to_gm refuses an address only with a reason.             *)
LEMMA WalkGivesUp ==
    ASSUME ServedInv, WalkRefused
    PROVE  Excused
<1> SUFFICES ASSUME ~Excused PROVE FALSE
  OBVIOUS
<1> DEFINE va == fault_addr
           e2 == Descend(gmem, satp_ppn, Top(va))
           e1 == Descend(gmem, e2.addr, va[1])
           e0 == Descend(gmem, e1.addr, va[0])
           w == Walk(gmem, satp_ppn, va)
<1>1. /\ phase = "walk" /\ phase \in Handler /\ shadow_pt_active
      /\ ~CanDescend /\ ~(IsLeaf(entry) /\ "U" \in entry.perm)
      /\ level \in 0 .. 2
  BY DEF WalkRefused, ServedInv, TlbInv, VInv, TypeOK, TranslationInv, Handler
<1>2. WalkKnown /\ ~SmallPage(va) /\ {"V", "U"} \subseteq w.perm
  BY <1>1, UserAccess DEF Grants
<1>3. /\ Descend(gmem, satp_ppn, Top(va)) = e2
      /\ Descend(gmem, e2.addr, va[1]) = e1
      /\ Descend(gmem, e1.addr, va[0]) = e0
  OBVIOUS
<1>4. \A e : ~(IsLeaf(e) /\ IsTable(e))
  BY DEF IsLeaf, IsTable
<1>5. CASE level = 2
  <2>1. IsTable(entry)
    BY <1>1, <1>2, <1>5, EntryKinds DEF WalkKnown
  <2> QED BY <1>1, <1>5, <2>1 DEF CanDescend
<1>6. CASE level = 1
  <2>1. entry = e2 /\ ~IsTable(e2) /\ ~(IsLeaf(e2) /\ "U" \in e2.perm)
    BY <1>1, <1>2, <1>6 DEF WalkKnown, CanDescend
  <2>2. IsLeaf(e2) => w.perm = e2.perm
    <3>1. ASSUME IsLeaf(e2)
          PROVE  w = [e2 EXCEPT !.addr = @ + va[1] * N + va[0]]
      <4> HIDE DEF e2, e1, e0, va
      <4> QED BY <1>3, <2>1, <3>1 DEF Walk
    <3>2. e2 \in GuestEntry
      BY <1>1, <2>1 DEF ServedInv, TlbInv, VInv, TypeOK
    <3> HIDE DEF e2, w
    <3> QED BY <3>1, <3>2 DEF GuestEntry
  <2>3. ~IsLeaf(e2) => w = EmptyEntry
    <3> HIDE DEF e2, e1, e0, va
    <3> QED BY <1>3, <2>1 DEF Walk
  <2> HIDE DEF w, e2
  <2> QED BY <1>2, <2>1, <2>2, <2>3, EntryKinds
<1>7. CASE level = 0
  <2>1. IsTable(e2) /\ entry = e1 /\ ~(IsLeaf(e1) /\ "U" \in e1.perm)
    BY <1>1, <1>2, <1>7 DEF WalkKnown
  <2>2. ~IsTable(e1)
    BY <1>2, <2>1 DEF SmallPage
  <2>3. IsLeaf(e1) => w.perm = e1.perm
    <3>1. ASSUME IsLeaf(e1)
          PROVE  w = [e1 EXCEPT !.addr = @ + va[0]]
      <4> HIDE DEF e2, e1, e0, va
      <4> QED BY <1>3, <1>4, <2>1, <2>2, <3>1 DEF Walk
    <3>2. e1 \in GuestEntry
      BY <1>1, <2>1 DEF ServedInv, TlbInv, VInv, TypeOK
    <3> HIDE DEF e1, w
    <3> QED BY <3>1, <3>2 DEF GuestEntry
  <2>4. ~IsLeaf(e1) => w = EmptyEntry
    <3> HIDE DEF e2, e1, e0, va
    <3> QED BY <1>3, <1>4, <2>1, <2>2 DEF Walk
  <2> HIDE DEF w, e1
  <2> QED BY <1>2, <2>1, <2>3, <2>4, EntryKinds
<1> QED BY <1>1, <1>5, <1>6, <1>7

(* It uses a pointer without a value only for a table outside the RAM.     *)
LEMMA WildGivesUp ==
    ASSUME ServedInv, WalkWild
    PROVE  Unsupported
<1>1. phase = "walk" /\ CanDescend /\ ~InRam(entry.addr) /\ shadow_pt_active
  BY DEF WalkWild, ServedInv, TlbInv, VInv, TranslationInv
<1>2. ~TablesInRam(fault_addr)
  BY <1>1, WildOutside DEF ServedInv
<1> QED BY <1>1, <1>2 DEF Unsupported

(* A table of the guest's that is not in memory allows nothing.            *)
LEMMA AbsentGivesUp ==
    ASSUME ServedInv, WalkDown, ~Present(entry.addr)
    PROVE  Excused
<1> SUFFICES ASSUME ~Excused PROVE FALSE
  OBVIOUS
<1> DEFINE va == fault_addr
           e2 == Descend(gmem, satp_ppn, Top(va))
           e1 == Descend(gmem, e2.addr, va[1])
           e0 == Descend(gmem, e1.addr, va[0])
<1>1. /\ phase = "walk" /\ phase \in Handler /\ shadow_pt_active
      /\ IsTable(entry) /\ level \in {1, 2} /\ DOMAIN gmem = GuestTables
  <2>1. phase = "walk" /\ IsTable(entry) /\ level > 0
    BY ZenonT(30) DEF WalkDown, CanDescend
  <2>2. TypeOK /\ TranslationInv
    BY DEF ServedInv, TlbInv, VInv
  <2>3. phase \in Handler
    BY <2>1 DEF Handler
  <2>4. level \in {1, 2}
    BY <2>1, <2>2 DEF TypeOK
  <2>5. DOMAIN gmem = GuestTables
    BY <2>2 DEF TypeOK
  <2>6. shadow_pt_active
    BY <2>1, <2>2 DEF TranslationInv
  <2> QED BY <2>1, <2>3, <2>4, <2>5, <2>6
<1>2. WalkKnown /\ Walk(gmem, satp_ppn, va) # EmptyEntry
  BY <1>1, UserAccess, EntryKinds DEF Grants
<1>3. entry.addr \notin GuestTables
  BY VmemAssumption DEF Present
<1>4. \A e : ~(IsLeaf(e) /\ IsTable(e))
  BY DEF IsLeaf, IsTable
<1>5. ~IsLeaf(EmptyEntry) /\ ~IsTable(EmptyEntry)
  BY EntryKinds
<1>6. Walk(gmem, satp_ppn, va) =
         CASE IsLeaf(e2) -> [e2 EXCEPT !.addr = @ + va[1] * N + va[0]]
           [] IsTable(e2) /\ IsLeaf(e1) -> [e1 EXCEPT !.addr = @ + va[0]]
           [] IsTable(e2) /\ IsTable(e1) /\ IsLeaf(e0) -> e0
           [] OTHER -> EmptyEntry
  BY DEF Walk
<1>7. CASE level = 2
  <2>1. entry.addr = satp_ppn
    BY <1>1, <1>2, <1>7, EntryKinds DEF WalkKnown
  <2>2. e2 = EmptyEntry
    BY <1>1, <1>3, <2>1 DEF Descend
  <2> HIDE DEF e2, e1, e0, va
  <2> QED BY <1>2, <1>5, <1>6, <2>2
<1>8. CASE level = 1
  <2>1. entry = e2
    BY <1>1, <1>2, <1>8 DEF WalkKnown
  <2>2. e1 = EmptyEntry
    BY <1>1, <1>3, <2>1 DEF Descend
  <2>3. ~IsLeaf(e2)
    BY <1>1, <1>4, <2>1
  <2> HIDE DEF e2, e1, e0, va
  <2> QED BY <1>2, <1>5, <1>6, <2>2, <2>3
<1> QED BY <1>1, <1>7, <1>8

(* The page of GM is not in the RAM.                                       *)
LEMMA OutsideGivesUp ==
    ASSUME ServedInv, phase = "map", ~InRam(entry.addr)
    PROVE  Excused
<1> SUFFICES ASSUME ~Excused PROVE FALSE
  OBVIOUS
<1>1. CASE shadow_pt_active
  BY <1>1, UserAccess DEF WalkKnown, Handler
<1>2. CASE ~shadow_pt_active
  BY <1>2 DEF Excused, Permitted, ServedInv, TlbInv, VInv, TranslationInv
<1> QED BY <1>1, <1>2

(* A page of GM that is mapped faults only without memory.                 *)
LEMMA MachineGivesUp ==
    ASSUME ServedInv, phase = "map", ~shadow_pt_active, InRam(entry.addr),
           Mapped(entry.addr)
    PROVE  Excused
<1> SUFFICES ASSUME ~Excused PROVE FALSE
  OBVIOUS
<1> DEFINE va == fault_addr
           g == entry.addr
           top == pt[MachineRoot][Top(va)]
           leaf == pt[top.addr][va[1]]
<1>1. /\ va \in Virt /\ g = PageNumber(va) /\ g \in Nat /\ InRam(g)
      /\ fault.kind \in Kind /\ fault.pages \in Seq(Virt) /\ fault.pages # << >>
  BY FaultAddress, VirtIndices
  DEF ServedInv, TlbInv, VInv, Handler, FaultInv, TranslationInv
<1>2. Canonical(va) /\ ~(Len(fault.pages) > 1)
  BY DEF Excused, Permitted, Unsupported
<1>3. Len(fault.pages) = 1
  BY <1>1, <1>2, NotEmpty, Zenon
<1>4. Lvl3(g) = va[2] /\ Lvl2(g) = va[1] /\ Top(va) = va[2] /\ va[2] \in Slot
      /\ va[1] \in Slot
  <2>1. Lvl3(g) = va[2] /\ Lvl2(g) = va[1]
    BY <1>1, PageIndices
  <2>2. Lvl3(g) \in Slot
    BY <1>1, Levels
  <2>3. va[2] < N
    BY <2>1, <2>2, VmemAssumption DEF Slot
  <2> QED BY <1>1, <2>1, <2>2, <2>3, VirtIndices
<1>5. Tree(pt, free, ShadowRoots, MachineMid, ShadowMid, ShadowLow)
  BY DEF ServedInv, TlbInv, VInv, TreeInv
<1>6. Valid(top) /\ Valid(MachineEntry(pt, g))
  BY <1>4 DEF Mapped
<1>7. TableOrEmpty(top, MachineMid)
  BY <1>4, <1>5 DEF Tree, Contents
<1>8. IsTable(top) /\ top.addr \in DOMAIN pt
  BY <1>5, <1>6, <1>7, EntryCases DEF Tree, Sorted, TablePages
<1>9. MachineEntry(pt, g) = leaf
  BY <1>4, <1>8 DEF MachineEntry, Descend
<1>10. leaf = Region(va[2], va[1])
  BY <1>4, <1>6, <1>8, <1>9 DEF ServedInv, TlbInv, MachineExact
<1>11. leaf.perm = Perm
  BY <1>10 DEF Region
<1>12. IsLeaf(leaf)
  BY <1>6, <1>9, <1>11 DEF IsLeaf, Perm, Kind
<1>13. Walk(pt, MachineRoot, va) = [leaf EXCEPT !.addr = @ + va[0]]
  BY <1>1, <1>5, <1>8, <1>12, MachineWalk
<1>14. Walk(pt, MachineRoot, va).perm = Perm
  BY <1>10, <1>11, <1>13 DEF Region
<1>15. Grants(Walk(pt, MachineRoot, va), fault.kind)
  BY <1>1, <1>14 DEF Grants, Perm, Kind
<1>16. Walk(pt, MachineRoot, va).addr = g + Offset
  <2> DEFINE x == (va[2] * N + va[1]) * N
  <2>1. leaf.addr = x + Offset /\ g = x + va[0]
    BY <1>1, <1>10 DEF Region, PageNumber
  <2>2. Walk(pt, MachineRoot, va).addr = (x + Offset) + va[0]
    BY <1>10, <1>13, <2>1 DEF Region
  <2>3. x \in Nat /\ Offset \in Nat /\ va[0] \in Nat
    <3>1. va[2] \in Nat /\ va[1] \in Nat /\ va[0] \in Nat /\ N \in Nat
      BY <1>1, VirtIndices, VmemAssumption DEF Slot
    <3>2. va[2] * N \in Nat
      BY <3>1
    <3>3. x \in Nat
      <4> HIDE DEF va
      <4> QED BY <3>1, <3>2
    <3> QED BY <3>1, <3>3, VmemAssumption
  <2> HIDE DEF x, va, g
  <2> QED BY <2>1, <2>2, <2>3
<1>17. g + Offset \in HostMemory
  BY <1>1 DEF Excused, Permitted, Present
<1> QED BY <1>2, <1>3, <1>15, <1>16, <1>17
        DEF ServedInv, Faulted, ActiveRoot, Handler

(* A page of GU that the shadow table allows faults only without memory.   *)
LEMMA LeafGivesUp ==
    ASSUME ServedInv, phase = "shadow", level = 0,
           fault.kind \in OldPerm(pt[table][fault_addr[0]])
    PROVE  Excused
<1> SUFFICES ASSUME ~Excused PROVE FALSE
  OBVIOUS
<1> DEFINE va == fault_addr
           r == shadow_page_table
           e2 == pt[r][Top(va)]
           e1 == pt[e2.addr][va[1]]
           e0 == pt[e1.addr][va[0]]
<1>0. VInv
  BY DEF ServedInv, TlbInv
<1>1. /\ shadow_pt_active /\ ActiveRoot = r
      /\ va \in Virt /\ r \in ShadowRoots /\ table \in ShadowLow
      /\ fault.kind \in Kind
  BY <1>0, ShadowPlace DEF VInv, FaultInv, Handler
<1>2. Canonical(va) /\ Len(fault.pages) = 1
  BY <1>1, UserAccess DEF Handler
<1>3. /\ Top(va) = va[2] /\ va[0] \in Slot
      /\ IsTable(e2) /\ e1 = TableEntry(table)
  BY <1>0, <1>1, VirtIndices DEF VInv, ShadowInv
<1>4. e0 = pt[table][va[0]] /\ IsTable(e1)
  BY <1>3, EntryKinds
<1>5. Tree(pt, free, ShadowRoots, MachineMid, ShadowMid, ShadowLow)
  BY <1>0 DEF VInv, TreeInv
<1>6. LeafOrEmpty(e0)
  BY <1>1, <1>3, <1>4, <1>5 DEF Tree, Contents
<1>7. fault.kind \in e0.perm /\ e0.addr = entry.addr
  BY <1>1, <1>4 DEF OldPerm, Kind
<1>8. GoodLeaf(e0)
  <2>1. e0 # EmptyEntry
    BY <1>7, EntryKinds
  <2> HIDE DEF e0
  <2> QED BY <1>6, <2>1, EntryCases
<1>9. Walk(pt, r, va) = IF IsTable(e2) /\ IsTable(e1) /\ IsLeaf(e0)
                        THEN e0 ELSE EmptyEntry
  <2> HIDE DEF va, r
  <2> QED BY <1>1, <1>5, ShadowWalk
<1>10. Walk(pt, r, va) = e0
  BY <1>3, <1>4, <1>8, <1>9 DEF GoodLeaf
<1>11. Grants(Walk(pt, r, va), fault.kind)
  BY <1>7, <1>8, <1>10 DEF Grants, GoodLeaf, IsLeaf, Valid
<1>12. Walk(pt, r, va).addr \in HostMemory
  <2>1. /\ WalkKnown /\ Present(Walk(gmem, satp_ppn, va).addr)
    BY <1>1, UserAccess DEF Handler
  <2>2. entry.addr = Walk(gmem, satp_ppn, va).addr + Offset
    BY <2>1 DEF WalkKnown
  <2>3. e0.addr \in HostMemory
    BY <1>7, <2>1, <2>2 DEF Present
  <2> HIDE DEF e0
  <2> QED BY <1>10, <2>3
<1> QED BY <1>1, <1>2, <1>11, <1>12 DEF ServedInv, Faulted, Handler

-----------------------------------------------------------------------------
(* The table in use, when a table of the machine is added for GU.          *)
LEMMA GrownForUser ==
    ASSUME ServedInv, shadow_pt_active, InRam(entry.addr),
           ensure_guest_machine_mapped(entry.addr), UNCHANGED guest_vars
    PROVE  \A va \in Virt : Walk(pt', ActiveRoot', va) = Walk(pt, ActiveRoot, va)
<1>1. entry.addr \in Nat
  BY DEF ServedInv, TlbInv, VInv, TypeOK, GuestEntry
<1>2. ActiveRoot = shadow_page_table /\ ActiveRoot' = shadow_page_table'
  BY DEF ActiveRoot, guest_vars
<1>3. \A va \in Virt : Walk(pt', shadow_page_table', va)
                        = Walk(pt, shadow_page_table, va)
  BY <1>1, EnsureWalks DEF ServedInv, TlbInv, guest_vars
<1> QED BY <1>2, <1>3

(* Every step keeps the invariant.                                         *)
LEMMA ServedNext == ServedInv /\ [Next]_vars => ServedInv'
<1> SUFFICES ASSUME ServedInv, [Next]_vars PROVE ServedInv'
  OBVIOUS
<1> DEFINE Goal == Faulted' /\ Fetchable' /\ Running' /\ ServedIfSupported'
<1>0. TlbInv'
  BY TlbNext DEF ServedInv
<1> SUFFICES Goal
  BY <1>0 DEF ServedInv
<1> USE DEF table_vars, guest_vars
<1>1. CASE UNCHANGED vars
  BY <1>1 DEF vars, walk_vars, ServedInv, Faulted, Fetchable, Running,
              ServedIfSupported, ActiveRoot, fault_addr, Unsupported, Permitted,
              SmallPage, TablesInRam, GuestWalk
<1>2. ASSUME phase # "halted", phase' = "guest", panic' = panic
      PROVE  Goal
  BY <1>2, GoOn DEF Faulted, Fetchable, Handler
<1>3. ASSUME phase # "halted", panic' = panic, Faulted' /\ Fetchable'
      PROVE  Goal
  BY <1>3, GoOn
<1>4. CASE GuestWrite \/ SetSatp \/ guest_mret \/ guest_exception
           \/ flush_shadow_pagetable
  <2>1. phase = "guest" /\ phase' = "guest" /\ panic' = panic
    BY <1>4 DEF GuestWrite, SetSatp, guest_mret, guest_exception,
                flush_shadow_pagetable
  <2> QED BY <1>2, <2>1
<1>5. CASE InstructionPageFault \/ DataPageFault
  <2>1. phase = "guest" /\ panic' = panic
    BY <1>5 DEF InstructionPageFault, DataPageFault
  <2>2. Faulted' /\ Fetchable'
    BY <1>5, InstructionFaulted, DataFaulted DEF ServedInv, TlbInv
  <2> QED BY <1>3, <2>1, <2>2
<1>6. CASE Fetch
  <2>1. CASE FetchError = "none"
    <3>0. /\ phase = "fetch" /\ Translate(fault_addr)
          /\ UNCHANGED <<table_vars, guest_vars, fault, level, table, panic>>
      BY <1>6, <2>1, Zenon DEF Fetch
    <3>1. /\ phase = "fetch" /\ Translate(fault_addr) /\ panic' = panic
          /\ fault' = fault /\ pt' = pt /\ ActiveRoot' = ActiveRoot
      BY <3>0 DEF ActiveRoot
    <3>2. phase' \in Handler \ {"fetch"}
      BY <3>1 DEF Translate, Handler
    <3>3. Faulted' /\ Fetchable'
      BY <3>1, <3>2, StillFaulted DEF Handler
    <3> QED BY <1>3, <3>1, <3>3
  <2>2. CASE FetchError # "none"
    <3>1. phase = "fetch" /\ \E reason : Panic(reason)
      BY <1>6, <2>2 DEF Fetch
    <3>2. Unsupported
      BY <2>2, <3>1, FetchGivesUp
    <3> QED BY <3>1, <3>2, GiveUp DEF Excused
  <2> QED BY <2>1, <2>2
<1>7. ASSUME phase \in {"walk", "map", "shadow"}, phase' \in {"walk", "map", "shadow"},
             UNCHANGED <<pt, guest_vars, fault, panic>>
      PROVE  Goal
  <2>1. ActiveRoot' = ActiveRoot
    BY <1>7 DEF ActiveRoot
  <2>2. Faulted' /\ Fetchable'
    BY <1>7, <2>1, StillFaulted DEF Handler
  <2> QED BY <1>3, <1>7, <2>2
<1>8. CASE WalkFound
  <2>1. /\ phase = "walk" /\ phase' = "map"
        /\ UNCHANGED <<pt, guest_vars, fault, panic>>
    BY <1>8 DEF WalkFound
  <2> QED BY <1>7, <2>1
<1>9. CASE WalkRefused
  <2>1. Excused
    BY <1>9, WalkGivesUp
  <2> QED BY <1>9, <2>1, GiveUp DEF WalkRefused
<1>10. CASE WalkWild
  <2>1. Unsupported
    BY <1>10, WildGivesUp
  <2>2. CASE Panic("Hypervisor-caused exception")
    BY <2>1, <2>2, GiveUp DEF Excused
  <2>3. CASE UNCHANGED <<pt, guest_vars, phase, fault, panic>>
    <3>1. phase = "walk" /\ phase' = "walk"
      BY <1>10, <2>3 DEF WalkWild
    <3> QED BY <1>7, <2>3, <3>1
  <2> QED BY <1>10, <2>2, <2>3 DEF WalkWild
<1>11. CASE EnsurePanics
  BY <1>11, GiveUp DEF EnsurePanics
<1>12. CASE EmulateDevice
  <2>1. phase = "map" /\ ~InRam(entry.addr)
    BY <1>12 DEF EmulateDevice, InRam
  <2>2. CASE Panic("below RAM")
    BY <2>1, <2>2, OutsideGivesUp, GiveUp
  <2>3. CASE Return(tlb, pt, ActiveRoot)
    BY <1>2, <2>1, <2>3 DEF Return
  <2> QED BY <1>12, <2>2, <2>3 DEF EmulateDevice
<1>13. CASE MapTooHigh
  <2>1. phase = "map" /\ ~InRam(entry.addr) /\ Panic("beyond Sv39")
    BY <1>13 DEF MapTooHigh, InRam
  <2> QED BY <2>1, OutsideGivesUp, GiveUp
<1>14. CASE MapMachine
  <2>1. phase = "map" /\ InRam(entry.addr) /\ ~shadow_pt_active
    BY <1>14 DEF MapMachine
  <2>2. CASE Mapped(entry.addr) /\ Panic("unknown page fault")
    BY <2>1, <2>2, MachineGivesUp, GiveUp
  <2>3. CASE phase' = "guest" /\ panic' = panic
    BY <1>2, <2>1, <2>3
  <2> QED BY <1>14, <2>2, <2>3 DEF MapMachine, Return
<1>15. CASE WalkDown /\ ~Present(entry.addr)
  <2>1. /\ phase' = "halted"
        /\ UNCHANGED <<fault, shadow_pt_active, satp_ppn, gmem>>
    BY <1>15 DEF WalkDown
  <2>2. Excused
    BY <1>15, AbsentGivesUp
  <2>3. Excused'
    BY <2>1, <2>2 DEF Excused, Unsupported, Permitted, fault_addr, SmallPage,
                      TablesInRam, GuestWalk
  <2> QED BY <2>1, <2>3 DEF Faulted, Fetchable, Running, Handler,
                            ServedIfSupported, Excused
<1>16. CASE (WalkDown /\ Present(entry.addr)) \/ MapUser
  <2>1. /\ phase \in {"walk", "map"} /\ phase' \in {"walk", "shadow"}
        /\ InRam(entry.addr) /\ ensure_guest_machine_mapped(entry.addr)
        /\ UNCHANGED <<guest_vars, fault, panic>>
    BY <1>16 DEF WalkDown, MapUser
  <2>2. shadow_pt_active
    BY <1>16 DEF WalkDown, MapUser, ServedInv, TlbInv, VInv, TranslationInv
  <2>3. \A va \in Virt : Walk(pt', ActiveRoot', va) = Walk(pt, ActiveRoot, va)
    BY <2>1, <2>2, GrownForUser
  <2>4. Faulted' /\ Fetchable'
    BY <2>1, <2>3, StillFaulted DEF Handler
  <2> QED BY <1>3, <2>1, <2>4
<1>17. CASE ShadowDown
  <2>1. /\ phase = "shadow" /\ phase' = "shadow"
        /\ UNCHANGED <<guest_vars, fault, panic>>
    BY <1>17 DEF ShadowDown
  <2>2. ActiveRoot = shadow_page_table /\ ActiveRoot' = ActiveRoot
    BY <2>1, ShadowPlace DEF ActiveRoot, ServedInv, TlbInv
  <2>3. \A va \in Virt : Walk(pt', shadow_page_table, va)
                          = Walk(pt, shadow_page_table, va)
    BY <1>17, ShadowDownStep DEF ServedInv, TlbInv
  <2>4. Faulted' /\ Fetchable'
    BY <2>1, <2>2, <2>3, StillFaulted DEF Handler
  <2> QED BY <1>3, <2>1, <2>4
<1>18. CASE ShadowPanics
  <2>1. phase = "shadow" /\ shadow_pt_active
    BY <1>18, ShadowPlace DEF ShadowPanics, ServedInv, TlbInv
  <2>2. CASE fault_addr[2] >= N /\ Panic("beyond Sv39")
    BY <2>1, <2>2, GiveUp DEF Excused, Unsupported
  <2>3. CASE Panic("Failed to allocate a page")
    BY <2>3, GiveUp
  <2> QED BY <1>18, <2>2, <2>3 DEF ShadowPanics
<1>19. CASE ShadowLeaf
  <2>1. phase = "shadow" /\ level = 0
    BY <1>19 DEF ShadowLeaf
  <2>2. CASE /\ fault.kind \in OldPerm(pt[table][fault_addr[0]])
             /\ Panic("unknown page fault")
    BY <2>1, <2>2, LeafGivesUp, GiveUp
  <2>3. CASE phase' = "guest" /\ panic' = panic
    BY <1>2, <2>1, <2>3
  <2> QED BY <1>19, <2>2, <2>3 DEF ShadowLeaf, Return
<1> HIDE DEF Goal
<1> QED BY <1>1, <1>4, <1>5, <1>6, <1>8, <1>9, <1>10, <1>11, <1>12, <1>13, <1>14,
           <1>15, <1>16, <1>17, <1>18, <1>19
        DEF Next, Handle, halt_thread

(* The invariant always holds.                                             *)
LEMMA ServedInvariant == Spec => []ServedInv
<1>1. Init => ServedInv
  BY TlbInit DEF Init, ServedInv, Faulted, Fetchable, Running, ServedIfSupported,
                 Handler
<1> QED BY <1>1, ServedNext, PTL DEF Spec

(* Whatever the guest does, the hypervisor gives up only without memory,   *)
(* for an access that the guest is not entitled to, or in one of the cases *)
(* that vmem.c has no code for.                                            *)
THEOREM ServedIfSupportedHolds == Spec => []ServedIfSupported
<1>1. ServedInv => ServedIfSupported
  BY DEF ServedInv
<1> QED BY <1>1, ServedInvariant, PTL

-----------------------------------------------------------------------------
\* The fault that is or was being handled is one of an access.
Caused ==
    phase \in Handler \union {"halted"} =>
        \E a \in Accesses : /\ fault.instr = a.instr
                            /\ fault.pages \in {a.instr, a.data}
                            /\ a.known => fault.known

GuestInv == Written /\ Caused

(* Where a fault comes from.                                               *)
LEMMA CausedNext ==
    ASSUME Caused, [Next]_vars
    PROVE  Caused'
<1>1. CASE phase' = "guest"
  BY <1>1 DEF Caused, Handler
<1>2. CASE phase \in Handler \union {"halted"} /\ UNCHANGED fault
  BY <1>2 DEF Caused
<1>3. CASE UNCHANGED <<phase, fault>>
  BY <1>3 DEF Caused
<1>4. CASE InstructionPageFault \/ DataPageFault
  <2>1. PICK a \in Accesses :
           \/ fault' = [kind |-> "X", known |-> TRUE,
                        instr |-> a.instr, pages |-> a.instr]
           \/ fault' = [kind |-> a.kind, known |-> a.known,
                        instr |-> a.instr, pages |-> a.data]
    BY <1>4 DEF InstructionPageFault, DataPageFault
  <2>2. /\ fault'.instr = a.instr /\ fault'.pages \in {a.instr, a.data}
        /\ a.known => fault'.known
    BY <2>1
  <2> QED BY <2>2 DEF Caused
<1>5. CASE UNCHANGED vars
  BY <1>3, <1>5 DEF vars, walk_vars
<1>6. CASE GuestWrite \/ SetSatp \/ guest_mret \/ guest_exception
           \/ flush_shadow_pagetable
  BY <1>1, <1>6 DEF GuestWrite, SetSatp, guest_mret, guest_exception,
                    flush_shadow_pagetable
<1>7. CASE Handle
  <2>1. phase \in Handler /\ (phase' = "guest" \/ UNCHANGED fault)
    BY <1>7
    DEF Handle, Fetch, WalkFound, WalkRefused, WalkDown, WalkWild, EnsurePanics,
        EmulateDevice, MapTooHigh, MapMachine, MapUser, ShadowDown,
        ShadowPanics, ShadowLeaf, Panic, Return, walk_vars, Handler
  <2> QED BY <1>1, <1>2, <2>1
<1> QED BY <1>4, <1>5, <1>6, <1>7 DEF Next, halt_thread

(* The guest's tables as such a guest writes them.                         *)
LEMMA LargePages ==
    ASSUME LargePageGuest, TypeOK, Written, NEW va \in Virt
    PROVE  TablesInRam(va) /\ ~SmallPage(va) /\ ~(va[2] >= N)
<1> DEFINE e2 == Descend(gmem, satp_ppn, Top(va))
           e1 == Descend(gmem, e2.addr, va[1])
<1>1. Top(va) \in Slot /\ va[1] \in Slot
  BY VirtIndices
<1>2. TablesInRam(va)
  BY TablesStay DEF LargePageGuest
<1>3. IsTable(e2) => /\ satp_ppn \in GuestTables
                     /\ e2 \in GuestPtes[satp_ppn][Top(va)]
  BY <1>1, TableWritten
<1>4. IsTable(e2) /\ IsTable(e1) => /\ e2.addr \in GuestTables
                                    /\ e1 \in GuestPtes[e2.addr][va[1]]
  <2> HIDE DEF e2
  <2> QED BY <1>1, TableWritten
<1>5. ~(IsTable(e2) /\ IsTable(e1))
  <2> HIDE DEF e2, e1
  <2> QED BY <1>1, <1>3, <1>4 DEF LargePageGuest
<1>6. ~(va[2] >= N)
  <2>1. va[2] < N /\ va[2] \in Nat /\ N \in Nat
    BY VirtIndices, VmemAssumption DEF LargePageGuest
  <2> QED BY <2>1
<1> QED BY <1>2, <1>5, <1>6 DEF SmallPage

(* Such a guest has every access served that it is entitled to, unless     *)
(* there is no memory.                                                     *)
THEOREM PermittedServedHolds ==
    ASSUME LargePageGuest
    PROVE  Spec => []PermittedServed
<1>1. Init => GuestInv
  BY DEF Init, GuestInv, Written, Caused, EmptyTable, Handler
<1>2. ServedInv /\ GuestInv /\ [Next]_vars => GuestInv'
  BY WrittenNext, CausedNext DEF GuestInv, ServedInv, TlbInv, VInv
<1>3. ServedInv /\ GuestInv => PermittedServed
  <2> SUFFICES ASSUME ServedInv, GuestInv,
                      panic \notin {"none", "Failed to allocate a page"}
               PROVE  \E va \in Pages(fault.pages) : ~Permitted(va, fault.kind)
    BY DEF PermittedServed
  <2>1. phase = "halted"
    BY DEF ServedInv, Running
  <2>2. PICK a \in Accesses : /\ fault.instr = a.instr
                              /\ fault.pages \in {a.instr, a.data}
                              /\ a.known => fault.known
    BY <2>1 DEF GuestInv, Caused
  <2>3. /\ fault.instr \in Seq(Virt) /\ Len(fault.instr) = 1
        /\ fault.pages \in Seq(Virt) /\ Len(fault.pages) = 1
    BY <2>2, AccessType DEF LargePageGuest
  <2>4. Pages(fault.pages) = {fault_addr}
    BY <2>3, OnePage DEF fault_addr
  <2>5. fault_addr \in Virt
    BY <2>3, OnePage DEF fault_addr
  <2>6. ~Unsupported
    <3>1. /\ TablesInRam(fault_addr) /\ ~SmallPage(fault_addr)
          /\ ~(fault_addr[2] >= N)
      BY <2>5, LargePages DEF GuestInv, ServedInv, TlbInv, VInv
    <3>2. ~(Len(fault.instr) > 1) /\ ~(Len(fault.pages) > 1)
      BY <2>3, OnePage, Zenon
    <3>3. fault.known
      BY <2>2 DEF LargePageGuest
    <3> QED BY <3>1, <3>2, <3>3 DEF Unsupported
  <2>7. ~Permitted(fault_addr, fault.kind)
    BY <2>6 DEF ServedInv, ServedIfSupported
  <2> QED BY <2>4, <2>7
<1> QED BY <1>1, <1>2, <1>3, ServedInvariant, PTL DEF Spec
=============================================================================
