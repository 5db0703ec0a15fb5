-------------------------- MODULE PageAllocProofs --------------------------
(***************************************************************************)
(* Proofs about PageAlloc, for every number of harts and pages.            *)
(***************************************************************************)
EXTENDS PageAlloc, FiniteSetTheorems, TLAPS

\* The free list, without a bound on its length.
FreeList == \E n \in Nat : \E list \in [1 .. n -> Page] : IsFreeList(list, n)

\* What a hart relies on at each point of its call.
HartOK(h) ==
    /\ pc[h] = "alloc_pop" => entry[h] = free_list_top /\ entry[h] # NULL
    /\ pc[h] = "alloc_bump" => free_list_top = NULL
    /\ pc[h] = "alloc_release" /\ result[h] # NULL => owner[result[h]] = h
    /\ pc[h] \in {"free_acquire", "free_link", "free_push"} =>
          page[h] \in Page /\ owner[page[h]] = h
    /\ pc[h] = "free_push" => first_word[page[h]] = free_list_top

\* Pages from next_unallocated_idx on have never been handed out.
Untouched == \A p \in Page : p >= next_unallocated_idx => owner[p] = "pool"

\* The inductive invariant.
AllocInv == /\ TypeOK
            /\ MutualExclusion
            /\ FreeList
            /\ \A h \in Harts : HartOK(h)
            /\ Untouched

-----------------------------------------------------------------------------
(* A free list is no longer than the pool, because it holds no page twice.  *)
LEMMA FreeListBounded == TypeOK /\ FreeList => FreeListSound
<1> SUFFICES ASSUME TypeOK, FreeList PROVE FreeListSound
  OBVIOUS
<1>1. PICK n \in Nat : \E list \in [1 .. n -> Page] : IsFreeList(list, n)
  BY DEF FreeList
<1>2. PICK list \in [1 .. n -> Page] : IsFreeList(list, n)
  BY <1>1
<1>3. IsFiniteSet(Page) /\ Cardinality(Page) = MaxPages
  <2>1. IsFiniteSet(0 .. MaxPages - 1)
        /\ Cardinality(0 .. MaxPages - 1) =
             IF 0 > MaxPages - 1 THEN 0 ELSE MaxPages - 1 - 0 + 1
    BY PageAllocAssumption, FS_Interval
  <2> QED BY <2>1, PageAllocAssumption DEF Page
<1>4. IsFiniteSet(1 .. n) /\ Cardinality(1 .. n) = n
  <2>1. IsFiniteSet(1 .. n) /\ Cardinality(1 .. n) = IF 1 > n THEN 0 ELSE n - 1 + 1
    BY FS_Interval
  <2> QED BY <2>1
<1>5. list \in Injection(1 .. n, Page)
  BY <1>2 DEF IsFreeList, Injection, IsInjective
<1>6. Cardinality(1 .. n) <= Cardinality(Page)
  BY <1>3, <1>5, FS_Injection
<1> QED BY <1>2, <1>3, <1>4, <1>6, PageAllocAssumption DEF FreeListSound

(* Steps that leave the list alone: the shared variables of the list stay,  *)
(* except for words of pages that are in use, and no page enters or leaves *)
(* the pool.                                                               *)
LEMMA FreeListKept ==
    ASSUME FreeList,
           UNCHANGED <<free_list_top, next_unallocated_idx>>,
           \A p \in Page : owner'[p] = "pool" <=> owner[p] = "pool",
           \A p \in Page : owner[p] = "pool" => first_word'[p] = first_word[p]
    PROVE  FreeList'
<1>1. PICK n \in Nat : \E list \in [1 .. n -> Page] : IsFreeList(list, n)
  BY DEF FreeList
<1>2. PICK list \in [1 .. n -> Page] : IsFreeList(list, n)
  BY <1>1
<1>3. \A i \in 1 .. n : list[i] \in Page
  BY <1>2
<1>4. IsFreeList(list, n)'
  BY <1>2, <1>3 DEF IsFreeList
<1> QED BY <1>4 DEF FreeList

(* What the top of a free list is.                                         *)
LEMMA TopOfList ==
    ASSUME TypeOK, NEW n \in Nat, NEW list \in [1 .. n -> Page],
           IsFreeList(list, n)
    PROVE  /\ free_list_top = NULL <=> n = 0
           /\ free_list_top # NULL => /\ n \in 1 .. n
                                      /\ free_list_top = list[n]
                                      /\ free_list_top \in Page
                                      /\ owner[free_list_top] = "pool"
                                      /\ free_list_top < next_unallocated_idx
<1>1. \A p \in Page : p # NULL
  BY PageAllocAssumption DEF Page, NULL
<1>2. CASE n = 0
  BY <1>2 DEF IsFreeList
<1>3. CASE n # 0
  <2>1. n \in 1 .. n
    BY <1>3
  <2>2. list[n] \in Page
    BY <2>1
  <2> QED BY <1>1, <1>3, <2>1, <2>2 DEF IsFreeList
<1> QED BY <1>2, <1>3

(* Taking the top page off the list leaves a list.                         *)
LEMMA PopKeepsList ==
    ASSUME AllocInv, NEW h \in Harts, AllocPop(h)
    PROVE  FreeList'
<1>0. /\ TypeOK /\ HartOK(h)
      /\ "pool" # h
  BY PageAllocAssumption DEF AllocInv
<1>1. PICK n \in Nat : \E list \in [1 .. n -> Page] : IsFreeList(list, n)
  BY DEF AllocInv, FreeList
<1>2. PICK list \in [1 .. n -> Page] : IsFreeList(list, n)
  BY <1>1
<1>3. entry[h] = free_list_top /\ free_list_top # NULL
  BY <1>0 DEF AllocPop, At, HartOK
<1>4. /\ n \in 1 .. n /\ n - 1 \in Nat
      /\ free_list_top = list[n] /\ free_list_top \in Page
  BY <1>0, <1>2, <1>3, TopOfList
<1>5. /\ free_list_top' = first_word[list[n]]
      /\ owner' = [owner EXCEPT ![list[n]] = h]
      /\ UNCHANGED <<next_unallocated_idx, first_word>>
  BY <1>3, <1>4 DEF AllocPop, Give
<1>6. owner \in [Page -> Harts \union {"pool", "client"}]
  BY <1>0 DEF TypeOK
<1> DEFINE m == n - 1
           rest == [i \in 1 .. m |-> list[i]]
<1>7. /\ rest \in [1 .. m -> Page]
      /\ \A i \in 1 .. m : /\ i \in 1 .. n /\ i # n
                           /\ rest[i] = list[i]
                           /\ list[i] \in Page
                           /\ list[i] # list[n]
  BY <1>2, <1>4 DEF IsFreeList
<1>8. IsFreeList(rest, m)'
  <2>1. \A i, j \in 1 .. m : rest[i] = rest[j] => i = j
    BY <1>2, <1>7 DEF IsFreeList
  <2>2. \A i \in 1 .. m : /\ rest[i] < next_unallocated_idx'
                          /\ owner'[rest[i]] = "pool"
                          /\ first_word'[rest[i]] =
                               IF i = 1 THEN NULL ELSE rest[i - 1]
    <3> SUFFICES ASSUME NEW i \in 1 .. m
                 PROVE  /\ rest[i] < next_unallocated_idx'
                        /\ owner'[rest[i]] = "pool"
                        /\ first_word'[rest[i]] =
                             IF i = 1 THEN NULL ELSE rest[i - 1]
      OBVIOUS
    <3>1. /\ list[i] < next_unallocated_idx
          /\ owner[list[i]] = "pool"
          /\ first_word[list[i]] = IF i = 1 THEN NULL ELSE list[i - 1]
      BY <1>2, <1>7 DEF IsFreeList
    <3>2. owner'[list[i]] = "pool"
      BY <1>5, <1>6, <1>7, <3>1
    <3>3. i # 1 => i - 1 \in 1 .. m
      BY <1>4
    <3>4. i # 1 => rest[i - 1] = list[i - 1]
      BY <1>7, <3>3
    <3> HIDE DEF rest, m
    <3> QED BY <1>5, <1>7, <3>1, <3>2, <3>4
  <2>3. free_list_top' = IF m = 0 THEN NULL ELSE rest[m]
    <3>1. first_word[list[n]] = IF n = 1 THEN NULL ELSE list[n - 1]
      BY <1>2, <1>4 DEF IsFreeList
    <3>2. m # 0 => rest[m] = list[n - 1]
      BY <1>4
    <3> QED BY <1>4, <1>5, <3>1, <3>2
  <2>4. \A p \in Page : p < next_unallocated_idx' /\ owner'[p] = "pool"
                          => \E i \in 1 .. m : rest[i] = p
    <3> SUFFICES ASSUME NEW p \in Page, p < next_unallocated_idx,
                        owner'[p] = "pool"
                 PROVE  \E i \in 1 .. m : rest[i] = p
      BY <1>5
    <3>1. p # list[n] /\ owner[p] = "pool"
      BY <1>0, <1>4, <1>5, <1>6
    <3>2. PICK i \in 1 .. n : list[i] = p
      BY <1>2, <3>1 DEF IsFreeList
    <3>3. i \in 1 .. m
      BY <3>1, <3>2
    <3> QED BY <1>7, <3>2, <3>3
  <2> HIDE DEF rest, m
  <2> QED BY <2>1, <2>2, <2>3, <2>4 DEF IsFreeList
<1> HIDE DEF rest, m
<1> QED BY <1>4, <1>7, <1>8 DEF FreeList, m

(* Putting a linked page on top of the list leaves a list.                 *)
LEMMA PushKeepsList ==
    ASSUME AllocInv, NEW h \in Harts, FreePush(h)
    PROVE  FreeList'
<1>0. TypeOK /\ HartOK(h) /\ "pool" # h /\ Untouched
  BY PageAllocAssumption DEF AllocInv
<1>1. PICK n \in Nat : \E list \in [1 .. n -> Page] : IsFreeList(list, n)
  BY DEF AllocInv, FreeList
<1>2. PICK list \in [1 .. n -> Page] : IsFreeList(list, n)
  BY <1>1
<1>3. PICK q \in Page : /\ q = page[h]
                        /\ owner[q] = h
                        /\ first_word[q] = free_list_top
  BY <1>0 DEF FreePush, At, HartOK
<1>4. /\ free_list_top' = q
      /\ owner' = [owner EXCEPT ![q] = "pool"]
      /\ UNCHANGED <<next_unallocated_idx, first_word>>
  BY <1>3 DEF FreePush, Give
<1>5. /\ owner \in [Page -> Harts \union {"pool", "client"}]
      /\ next_unallocated_idx \in Nat
  BY <1>0, PageAllocAssumption DEF TypeOK
<1>6. q < next_unallocated_idx
  BY <1>0, <1>3, <1>5 DEF Untouched, Page
<1> DEFINE m == n + 1
           more == [i \in 1 .. m |-> IF i = m THEN q ELSE list[i]]
<1>7. /\ m \in Nat /\ m \in 1 .. m
      /\ more[m] = q
      /\ \A i \in 1 .. n : /\ i \in 1 .. m /\ i # m
                           /\ more[i] = list[i]
                           /\ list[i] \in Page
                           /\ list[i] # q
  BY <1>0, <1>2, <1>3 DEF IsFreeList
<1>8. more \in [1 .. m -> Page]
  BY <1>3
<1>9. \A i \in 1 .. m : i = m \/ i \in 1 .. n
  OBVIOUS
<1>10. IsFreeList(more, m)'
  <2>1. \A i, j \in 1 .. m : more[i] = more[j] => i = j
    <3>1. \A i, j \in 1 .. n : list[i] = list[j] => i = j
      BY <1>2 DEF IsFreeList
    <3> HIDE DEF more, m
    <3> QED BY <1>7, <1>9, <3>1
  <2>2. \A i \in 1 .. m : /\ more[i] < next_unallocated_idx'
                          /\ owner'[more[i]] = "pool"
                          /\ first_word'[more[i]] =
                               IF i = 1 THEN NULL ELSE more[i - 1]
    <3> SUFFICES ASSUME NEW i \in 1 .. m
                 PROVE  /\ more[i] < next_unallocated_idx'
                        /\ owner'[more[i]] = "pool"
                        /\ first_word'[more[i]] =
                             IF i = 1 THEN NULL ELSE more[i - 1]
      OBVIOUS
    <3>1. i # 1 => i - 1 \in 1 .. n
      OBVIOUS
    <3>2. i # 1 => more[i - 1] = list[i - 1]
      BY <1>7, <3>1
    <3>3. CASE i = m
      <4>1. free_list_top = IF n = 0 THEN NULL ELSE list[n]
        BY <1>2 DEF IsFreeList
      <4>2. owner'[q] = "pool"
        BY <1>3, <1>4, <1>5
      <4>3. first_word'[q] = IF i = 1 THEN NULL ELSE list[i - 1]
        BY <1>3, <1>4, <3>3, <4>1
      <4> HIDE DEF more
      <4> QED BY <1>4, <1>6, <1>7, <3>2, <3>3, <4>2, <4>3
    <3>4. CASE i \in 1 .. n
      <4>1. /\ list[i] < next_unallocated_idx
            /\ owner[list[i]] = "pool"
            /\ first_word[list[i]] = IF i = 1 THEN NULL ELSE list[i - 1]
        BY <1>2, <3>4 DEF IsFreeList
      <4>2. owner'[list[i]] = "pool"
        BY <1>4, <1>5, <1>7, <3>4, <4>1
      <4> HIDE DEF more, m
      <4> QED BY <1>4, <1>7, <3>2, <3>4, <4>1, <4>2
    <3> QED BY <1>9, <3>3, <3>4
  <2>3. free_list_top' = IF m = 0 THEN NULL ELSE more[m]
    BY <1>4, <1>7
  <2>4. \A p \in Page : p < next_unallocated_idx' /\ owner'[p] = "pool"
                          => \E i \in 1 .. m : more[i] = p
    <3> SUFFICES ASSUME NEW p \in Page, p < next_unallocated_idx,
                        owner'[p] = "pool"
                 PROVE  \E i \in 1 .. m : more[i] = p
      BY <1>4
    <3>1. CASE p = q
      BY <1>7, <3>1
    <3>2. CASE p # q
      <4>1. owner[p] = "pool"
        BY <1>4, <1>5, <3>2
      <4>2. PICK i \in 1 .. n : list[i] = p
        BY <1>2, <4>1 DEF IsFreeList
      <4> HIDE DEF more, m
      <4> QED BY <1>7, <4>2
    <3> QED BY <3>1, <3>2
  <2> HIDE DEF more, m
  <2> QED BY <2>1, <2>2, <2>3, <2>4 DEF IsFreeList
<1> HIDE DEF more, m
<1> QED BY <1>7, <1>8, <1>10 DEF FreeList

(* Handing out a new page leaves the list as it is.                        *)
LEMMA BumpKeepsList ==
    ASSUME AllocInv, NEW h \in Harts, AllocBump(h)
    PROVE  FreeList'
<1>0. TypeOK /\ "pool" # h /\ Untouched /\ FreeList
  BY PageAllocAssumption DEF AllocInv
<1>1. UNCHANGED <<free_list_top, first_word>>
  BY DEF AllocBump
<1>2. CASE next_unallocated_idx < MaxPages
  <2>1. PICK n \in Nat : \E list \in [1 .. n -> Page] : IsFreeList(list, n)
    BY <1>0 DEF FreeList
  <2>2. PICK list \in [1 .. n -> Page] : IsFreeList(list, n)
    BY <2>1
  <2> DEFINE q == next_unallocated_idx
  <2>3. /\ q \in Page /\ q \in Nat
        /\ next_unallocated_idx' = q + 1
        /\ owner' = [owner EXCEPT ![q] = h]
        /\ owner \in [Page -> Harts \union {"pool", "client"}]
    BY <1>0, <1>2, PageAllocAssumption DEF TypeOK, Page, AllocBump, Give
  <2>4. \A i \in 1 .. n : /\ list[i] \in Page /\ list[i] \in Int
                          /\ list[i] < q
    BY <2>2 DEF IsFreeList, Page
  <2>5. \A p \in Page : p < q + 1 /\ owner'[p] = "pool" =>
                           p < q /\ owner[p] = "pool"
    BY <1>0, <2>3 DEF Page
  <2>6. IsFreeList(list, n)'
    <3>1. \A i \in 1 .. n : owner'[list[i]] = owner[list[i]]
      BY <2>3, <2>4
    <3>2. \A i \in 1 .. n : list[i] < next_unallocated_idx'
      BY <2>3, <2>4
    <3> HIDE DEF q
    <3> QED BY <1>1, <2>2, <2>3, <2>4, <2>5, <3>1, <3>2 DEF IsFreeList, q
  <2> QED BY <2>6 DEF FreeList
<1>3. CASE ~(next_unallocated_idx < MaxPages)
  <2>1. UNCHANGED <<next_unallocated_idx, owner>>
    BY <1>3 DEF AllocBump
  <2> QED BY <1>0, <1>1, <2>1, FreeListKept
<1> QED BY <1>2, <1>3

-----------------------------------------------------------------------------
(* The types are kept by every step.                                       *)
LEMMA TypeStep == AllocInv /\ [Next]_vars => TypeOK'
<1> SUFFICES ASSUME AllocInv, [Next]_vars PROVE TypeOK'
  OBVIOUS
<1> USE PageAllocAssumption DEF PagePtr, Location
<1>0. TypeOK /\ NULL \in PagePtr /\ NULL \notin Page
  BY DEF AllocInv, NULL, Page
<1>1. ASSUME NEW h \in Harts, AllocCall(h) PROVE TypeOK'
  BY <1>0, <1>1 DEF TypeOK, AllocCall, At, GoTo, shared, local
<1>2. ASSUME NEW h \in Harts, AllocAcquire(h) \/ FreeAcquire(h) PROVE TypeOK'
  BY <1>0, <1>2 DEF TypeOK, AllocAcquire, FreeAcquire, spin_lock_acquire, At,
                    GoTo, local
<1>3. ASSUME NEW h \in Harts, AllocTest(h) PROVE TypeOK'
  BY <1>0, <1>3 DEF TypeOK, AllocTest, At, GoTo, shared
<1>4. ASSUME NEW h \in Harts, AllocPop(h) PROVE TypeOK'
  <2>1. entry[h] \in Page
    BY <1>0, <1>4 DEF AllocInv, HartOK, TypeOK, AllocPop, At
  <2>2. first_word[entry[h]] \in PagePtr
    BY <1>0, <2>1 DEF TypeOK
  <2> QED BY <1>0, <1>4, <2>1, <2>2 DEF TypeOK, AllocPop, At, GoTo, Give
<1>5. ASSUME NEW h \in Harts, AllocBump(h) PROVE TypeOK'
  <2>1. CASE next_unallocated_idx < MaxPages
    <3>1. next_unallocated_idx \in Page
          /\ next_unallocated_idx + 1 \in 0 .. MaxPages
      BY <1>0, <2>1 DEF TypeOK, Page
    <3> QED BY <1>0, <1>5, <2>1, <3>1 DEF TypeOK, AllocBump, At, GoTo, Give
  <2>2. CASE ~(next_unallocated_idx < MaxPages)
    BY <1>0, <1>5, <2>2 DEF TypeOK, AllocBump, At, GoTo
  <2> QED BY <2>1, <2>2
<1>6. ASSUME NEW h \in Harts, AllocRelease(h) PROVE TypeOK'
  BY <1>0, <1>6 DEF TypeOK, AllocRelease, spin_lock_release, At, GoTo, Give
<1>7. ASSUME NEW h \in Harts, NEW p \in Page, FreeCall(h, p) PROVE TypeOK'
  BY <1>0, <1>7 DEF TypeOK, FreeCall, At, GoTo, Give, shared
<1>8. ASSUME NEW h \in Harts, FreeLink(h) PROVE TypeOK'
  BY <1>0, <1>8 DEF TypeOK, FreeLink, At, GoTo, local
<1>9. ASSUME NEW h \in Harts, FreePush(h) PROVE TypeOK'
  <2>1. page[h] \in Page
    BY <1>9 DEF AllocInv, HartOK, FreePush, At
  <2> QED BY <1>0, <1>9, <2>1 DEF TypeOK, FreePush, At, GoTo, Give, local
<1>10. ASSUME NEW h \in Harts, FreeRelease(h) PROVE TypeOK'
  BY <1>0, <1>10 DEF TypeOK, FreeRelease, spin_lock_release, At, GoTo
<1>11. ASSUME NEW p \in Page, ClientWrite(p) PROVE TypeOK'
  BY <1>0, <1>11 DEF TypeOK, ClientWrite, local
<1>12. CASE UNCHANGED vars
  BY <1>0, <1>12 DEF TypeOK, vars, shared, local
<1> QED BY <1>1, <1>2, <1>3, <1>4, <1>5, <1>6, <1>7, <1>8, <1>9, <1>10, <1>11,
           <1>12 DEF Next, Step

(* The lock keeps the harts apart.                                         *)
LEMMA MutexStep == TypeOK /\ MutualExclusion /\ [Next]_vars => MutualExclusion'
<1> SUFFICES ASSUME TypeOK, MutualExclusion, [Next]_vars
             PROVE  MutualExclusion'
  OBVIOUS
<1> USE DEF Critical, Location
<1>0. pc \in [Harts -> Location]
  BY DEF TypeOK
<1>1. ASSUME NEW h \in Harts, AllocCall(h) PROVE MutualExclusion'
  BY <1>0, <1>1 DEF MutualExclusion, AllocCall, At, GoTo, shared
<1>2. ASSUME NEW h \in Harts, AllocAcquire(h) \/ FreeAcquire(h)
      PROVE  MutualExclusion'
  BY <1>0, <1>2 DEF MutualExclusion, AllocAcquire, FreeAcquire,
                    spin_lock_acquire, At, GoTo
<1>3. ASSUME NEW h \in Harts,
             AllocTest(h) \/ AllocPop(h) \/ AllocBump(h) \/ FreeLink(h)
               \/ FreePush(h)
      PROVE  MutualExclusion'
  <2>1. /\ allocator_lock' = allocator_lock
        /\ pc[h] \in Critical
        /\ \E l \in Critical : pc' = [pc EXCEPT ![h] = l]
    BY <1>3 DEF AllocTest, AllocPop, AllocBump, FreeLink, FreePush, At, GoTo,
                shared
  <2> QED BY <1>0, <2>1 DEF MutualExclusion
<1>4. ASSUME NEW h \in Harts, AllocRelease(h) \/ FreeRelease(h)
      PROVE  MutualExclusion'
  <2>1. pc[h] \in Critical /\ pc' = [pc EXCEPT ![h] = "idle"]
    BY <1>4 DEF AllocRelease, FreeRelease, At, GoTo
  <2>2. \A g \in Harts : pc'[g] \notin Critical
    BY <1>0, <2>1 DEF MutualExclusion
  <2> QED BY <2>2 DEF MutualExclusion
<1>5. ASSUME NEW h \in Harts, NEW p \in Page, FreeCall(h, p)
      PROVE  MutualExclusion'
  BY <1>0, <1>5 DEF MutualExclusion, FreeCall, At, GoTo, shared
<1>6. ASSUME NEW p \in Page, ClientWrite(p) PROVE MutualExclusion'
  BY <1>6 DEF MutualExclusion, ClientWrite
<1>7. CASE UNCHANGED vars
  BY <1>7 DEF MutualExclusion, vars, shared
<1> QED BY <1>1, <1>2, <1>3, <1>4, <1>5, <1>6, <1>7 DEF Next, Step

(* The free list is kept by every step.                                    *)
LEMMA FreeListStep == AllocInv /\ [Next]_vars => FreeList'
<1> SUFFICES ASSUME AllocInv, [Next]_vars PROVE FreeList'
  OBVIOUS
<1> USE PageAllocAssumption
<1>0. TypeOK /\ FreeList /\ NULL \notin Page
  BY DEF AllocInv, NULL, Page
<1>1. ASSUME NEW h \in Harts,
             \/ AllocCall(h) \/ AllocAcquire(h) \/ AllocTest(h)
             \/ FreeAcquire(h) \/ FreeRelease(h)
      PROVE  FreeList'
  <2>1. UNCHANGED <<free_list_top, next_unallocated_idx, first_word, owner>>
    BY <1>1 DEF AllocCall, AllocAcquire, AllocTest, FreeAcquire, FreeRelease,
                spin_lock_acquire, spin_lock_release, shared
  <2> QED BY <1>0, <2>1, FreeListKept
<1>2. ASSUME NEW h \in Harts, AllocRelease(h) PROVE FreeList'
  <2>1. UNCHANGED <<free_list_top, next_unallocated_idx, first_word>>
    BY <1>2 DEF AllocRelease, spin_lock_release
  <2>2. \A p \in Page : owner'[p] = "pool" <=> owner[p] = "pool"
    BY <1>0, <1>2 DEF AllocRelease, AllocInv, HartOK, Give, At, TypeOK
  <2> QED BY <1>0, <2>1, <2>2, FreeListKept
<1>3. ASSUME NEW h \in Harts, NEW p \in Page, FreeCall(h, p) PROVE FreeList'
  <2>1. UNCHANGED <<free_list_top, next_unallocated_idx, first_word>>
    BY <1>3 DEF FreeCall, shared
  <2>2. \A q \in Page : owner'[q] = "pool" <=> owner[q] = "pool"
    BY <1>0, <1>3 DEF FreeCall, Give, TypeOK
  <2> QED BY <1>0, <2>1, <2>2, FreeListKept
<1>4. ASSUME NEW h \in Harts, FreeLink(h) PROVE FreeList'
  <2>1. page[h] \in Page /\ owner[page[h]] = h
    BY <1>4 DEF FreeLink, AllocInv, HartOK, At
  <2>2. \A q \in Page : owner[q] = "pool" => first_word'[q] = first_word[q]
    BY <1>0, <1>4, <2>1 DEF FreeLink, TypeOK
  <2>3. UNCHANGED <<free_list_top, next_unallocated_idx, owner>>
    BY <1>4 DEF FreeLink
  <2> QED BY <1>0, <2>2, <2>3, FreeListKept
<1>5. ASSUME NEW p \in Page, ClientWrite(p) PROVE FreeList'
  <2>1. \A q \in Page : owner[q] = "pool" => first_word'[q] = first_word[q]
    BY <1>0, <1>5 DEF ClientWrite, TypeOK
  <2>2. UNCHANGED <<free_list_top, next_unallocated_idx, owner>>
    BY <1>5 DEF ClientWrite
  <2> QED BY <1>0, <2>1, <2>2, FreeListKept
<1>6. CASE UNCHANGED vars
  <2>1. UNCHANGED <<free_list_top, next_unallocated_idx, first_word, owner>>
    BY <1>6 DEF vars, shared
  <2> QED BY <1>0, <2>1, FreeListKept
<1> QED BY <1>1, <1>2, <1>3, <1>4, <1>5, <1>6, PopKeepsList, BumpKeepsList,
           PushKeepsList DEF Next, Step

(* No page from next_unallocated_idx on is ever in use.                    *)
LEMMA UntouchedStep == AllocInv /\ [Next]_vars => Untouched'
<1> SUFFICES ASSUME AllocInv, [Next]_vars PROVE Untouched'
  OBVIOUS
<1> USE PageAllocAssumption
<1>0. /\ TypeOK /\ Untouched /\ NULL \notin Page
      /\ \A p \in Page : p \in Int
  BY DEF AllocInv, NULL, Page
<1>1. ASSUME NEW h \in Harts, AllocPop(h) PROVE Untouched'
  <2>1. PICK n \in Nat : \E list \in [1 .. n -> Page] : IsFreeList(list, n)
    BY DEF AllocInv, FreeList
  <2>2. /\ entry[h] \in Page /\ entry[h] < next_unallocated_idx
    BY <1>0, <1>1, <2>1, TopOfList DEF AllocInv, HartOK, AllocPop, At
  <2> QED BY <1>0, <1>1, <2>2 DEF Untouched, AllocPop, Give, TypeOK
<1>2. ASSUME NEW h \in Harts, AllocBump(h) PROVE Untouched'
  BY <1>0, <1>2 DEF Untouched, AllocBump, Give, TypeOK
<1>3. ASSUME NEW h \in Harts, AllocRelease(h) PROVE Untouched'
  <2>1. CASE result[h] = NULL
    BY <1>0, <1>3, <2>1 DEF Untouched, AllocRelease, spin_lock_release
  <2>2. CASE result[h] # NULL
    <3>1. result[h] \in Page /\ owner[result[h]] = h
      BY <1>0, <1>3, <2>2 DEF AllocInv, HartOK, AllocRelease, At, TypeOK,
                              PagePtr
    <3> QED BY <1>0, <1>3, <2>2, <3>1 DEF Untouched, AllocRelease, Give,
                                          spin_lock_release, TypeOK
  <2> QED BY <2>1, <2>2
<1>4. ASSUME NEW h \in Harts, NEW p \in Page, FreeCall(h, p) PROVE Untouched'
  BY <1>0, <1>4 DEF Untouched, FreeCall, Give, TypeOK, shared
<1>5. ASSUME NEW h \in Harts, FreePush(h) PROVE Untouched'
  BY <1>0, <1>5 DEF Untouched, FreePush, Give, TypeOK
<1>6. ASSUME UNCHANGED <<next_unallocated_idx, owner>> PROVE Untouched'
  BY <1>0, <1>6 DEF Untouched
<1> QED BY <1>1, <1>2, <1>3, <1>4, <1>5, <1>6
        DEF Next, Step, AllocCall, AllocAcquire, AllocTest, FreeAcquire,
            FreeLink, FreeRelease, ClientWrite, spin_lock_acquire,
            spin_lock_release, vars, shared

(* The hart that takes a step finds what it relies on at the next point of  *)
(* its call.                                                               *)
LEMMA OwnHartStep ==
    ASSUME AllocInv, NEW h \in Harts,
           \/ AllocCall(h) \/ Step(h) \/ \E p \in Page : FreeCall(h, p)
    PROVE  HartOK(h)'
<1> USE PageAllocAssumption DEF At, GoTo
<1>0. TypeOK /\ HartOK(h) /\ NULL \notin Page
  BY DEF AllocInv, NULL, Page
<1>1. CASE AllocCall(h)
  BY <1>0, <1>1 DEF HartOK, TypeOK, AllocCall
<1>2. CASE AllocAcquire(h)
  BY <1>0, <1>2 DEF HartOK, TypeOK, AllocAcquire
<1>3. CASE AllocTest(h)
  BY <1>0, <1>3 DEF HartOK, TypeOK, AllocTest, shared
<1>4. CASE AllocPop(h)
  BY <1>0, <1>4 DEF HartOK, TypeOK, AllocPop, Give, PagePtr
<1>5. CASE AllocBump(h)
  <2>1. pc'[h] = "alloc_release"
    BY <1>0, <1>5 DEF TypeOK, AllocBump
  <2>2. CASE next_unallocated_idx < MaxPages
    <3>1. next_unallocated_idx \in Page
      BY <1>0, <2>2 DEF TypeOK, Page
    <3>2. result'[h] = next_unallocated_idx /\ owner'[next_unallocated_idx] = h
      BY <1>0, <1>5, <2>2, <3>1 DEF TypeOK, AllocBump, Give
    <3> QED BY <2>1, <3>2 DEF HartOK
  <2>3. CASE ~(next_unallocated_idx < MaxPages)
    BY <1>0, <1>5, <2>1, <2>3 DEF HartOK, TypeOK, AllocBump
  <2> QED BY <2>2, <2>3
<1>6. CASE AllocRelease(h) \/ FreeRelease(h)
  BY <1>0, <1>6 DEF HartOK, TypeOK, AllocRelease, FreeRelease
<1>7. ASSUME NEW p \in Page, FreeCall(h, p) PROVE HartOK(h)'
  BY <1>0, <1>7 DEF HartOK, TypeOK, FreeCall, Give
<1>8. CASE FreeAcquire(h)
  BY <1>0, <1>8 DEF HartOK, TypeOK, FreeAcquire, local
<1>9. CASE FreeLink(h)
  BY <1>0, <1>9 DEF HartOK, TypeOK, FreeLink, local
<1>10. CASE FreePush(h)
  BY <1>0, <1>10 DEF HartOK, TypeOK, FreePush
<1> QED BY <1>1, <1>2, <1>3, <1>4, <1>5, <1>6, <1>7, <1>8, <1>9, <1>10 DEF Step

(* What the step of one hart leaves to another: its local variables, the    *)
(* pages it holds, and, if it is between acquire and release, the list.    *)
LEMMA OtherHartStep ==
    ASSUME AllocInv, NEW g \in Harts, NEW h \in Harts, g # h,
           \/ AllocCall(h) \/ Step(h) \/ \E p \in Page : FreeCall(h, p)
    PROVE  HartOK(g)'
<1> USE PageAllocAssumption DEF At, GoTo
<1>0. /\ TypeOK /\ HartOK(g) /\ HartOK(h) /\ NULL \notin Page
      /\ MutualExclusion /\ Untouched
      /\ {g, h} \intersect {"pool", "client"} = {}
  BY DEF AllocInv, NULL, Page
<1>1. /\ pc'[g] = pc[g] /\ entry'[g] = entry[g] /\ result'[g] = result[g]
      /\ page'[g] = page[g]
  BY <1>0 DEF TypeOK, Step, AllocCall, AllocAcquire, AllocTest, AllocPop,
              AllocBump, AllocRelease, FreeCall, FreeAcquire, FreeLink,
              FreePush, FreeRelease, local
<1>2. pc[g] \in Critical => UNCHANGED free_list_top
  BY <1>0 DEF MutualExclusion, Critical, Location, Step, AllocCall,
              AllocAcquire, AllocTest, AllocPop, AllocBump, AllocRelease,
              FreeCall, FreeAcquire, FreeLink, FreePush, FreeRelease,
              spin_lock_acquire, spin_lock_release, shared
<1>3. \A p \in Page : owner[p] = g => owner'[p] = g /\ first_word'[p] = first_word[p]
  <2>1. CASE AllocPop(h)
    <3>1. entry[h] \in Page /\ owner[entry[h]] = "pool"
      <4>1. PICK n \in Nat : \E list \in [1 .. n -> Page] : IsFreeList(list, n)
        BY DEF AllocInv, FreeList
      <4> QED BY <1>0, <2>1, <4>1, TopOfList DEF HartOK, AllocPop
    <3> QED BY <1>0, <2>1, <3>1 DEF AllocPop, Give, TypeOK
  <2>2. CASE AllocBump(h)
    <3>1. next_unallocated_idx \in Page => owner[next_unallocated_idx] = "pool"
      BY <1>0 DEF Untouched, Page, TypeOK
    <3> QED BY <1>0, <2>2, <3>1 DEF AllocBump, Give, TypeOK
  <2>3. CASE AllocRelease(h)
    BY <1>0, <2>3 DEF AllocRelease, HartOK, Give, TypeOK, spin_lock_release
  <2>4. ASSUME NEW q \in Page, FreeCall(h, q)
        PROVE  \A p \in Page : owner[p] = g =>
                  owner'[p] = g /\ first_word'[p] = first_word[p]
    BY <1>0, <2>4 DEF FreeCall, Give, TypeOK, shared
  <2>5. CASE FreeLink(h)
    BY <1>0, <2>5 DEF FreeLink, HartOK, TypeOK
  <2>6. CASE FreePush(h)
    BY <1>0, <2>6 DEF FreePush, HartOK, Give, TypeOK
  <2>7. CASE \/ AllocCall(h) \/ AllocAcquire(h) \/ AllocTest(h)
             \/ FreeAcquire(h) \/ FreeRelease(h)
    BY <2>7 DEF AllocCall, AllocAcquire, AllocTest, FreeAcquire, FreeRelease,
                spin_lock_acquire, spin_lock_release, shared
  <2> QED BY <2>1, <2>2, <2>3, <2>4, <2>5, <2>6, <2>7 DEF Step
<1>4. result[g] \in PagePtr
  BY <1>0 DEF TypeOK
<1> QED BY <1>0, <1>1, <1>2, <1>3, <1>4 DEF HartOK, Critical, Location, PagePtr

(* AllocInv is inductive.                                                  *)
LEMMA AllocInvStep == AllocInv /\ [Next]_vars => AllocInv'
<1> SUFFICES ASSUME AllocInv, [Next]_vars PROVE AllocInv'
  OBVIOUS
<1>1. TypeOK' /\ MutualExclusion' /\ FreeList' /\ Untouched'
  BY TypeStep, MutexStep, FreeListStep, UntouchedStep DEF AllocInv
<1>2. ASSUME NEW g \in Harts PROVE HartOK(g)'
  <2>0. TypeOK /\ HartOK(g) /\ g # "client"
    BY PageAllocAssumption DEF AllocInv
  <2>1. ASSUME NEW h \in Harts,
               \/ AllocCall(h) \/ Step(h) \/ \E p \in Page : FreeCall(h, p)
        PROVE  HartOK(g)'
    BY <2>1, OwnHartStep, OtherHartStep
  <2>2. ASSUME NEW p \in Page, ClientWrite(p) PROVE HartOK(g)'
    BY <2>0, <2>2 DEF HartOK, ClientWrite, TypeOK, local
  <2>3. CASE UNCHANGED vars
    BY <2>0, <2>3 DEF HartOK, vars, shared, local
  <2> QED BY <2>1, <2>2, <2>3 DEF Next
<1> QED BY <1>1, <1>2 DEF AllocInv

(* AllocInv holds in the initial states.                                   *)
LEMMA AllocInvInit == Init => AllocInv
<1> SUFFICES ASSUME Init PROVE AllocInv
  OBVIOUS
<1> USE PageAllocAssumption
<1>1. TypeOK
  <2>1. allocator_lock \in BOOLEAN
    BY Zenon DEF Init
  <2>2. /\ free_list_top \in PagePtr
        /\ next_unallocated_idx \in 0 .. MaxPages
        /\ first_word \in [Page -> PagePtr]
    BY DEF Init, PagePtr
  <2>3. pc \in [Harts -> Location]
    BY DEF Init, Location
  <2>4. /\ entry \in [Harts -> PagePtr]
        /\ result \in [Harts -> PagePtr]
        /\ page \in [Harts -> PagePtr]
    BY DEF Init, PagePtr
  <2>5. owner \in [Page -> Harts \union {"pool", "client"}]
    BY DEF Init
  <2> QED BY <2>1, <2>2, <2>3, <2>4, <2>5 DEF TypeOK
<1>2. MutualExclusion
  BY DEF Init, MutualExclusion, Critical
<1>3. FreeList
  <2> DEFINE empty == [i \in 1 .. 0 |-> 0]
  <2>1. empty \in [1 .. 0 -> Page]
    OBVIOUS
  <2>2. IsFreeList(empty, 0)
    BY DEF Init, IsFreeList, Page
  <2> QED BY <2>1, <2>2 DEF FreeList
<1>4. \A h \in Harts : HartOK(h)
  BY DEF Init, HartOK
<1>5. Untouched
  BY DEF Init, Untouched
<1> QED BY <1>1, <1>2, <1>3, <1>4, <1>5 DEF AllocInv

(* The inductive invariant holds in every reachable state.                 *)
THEOREM AllocInvariant == Spec => []AllocInv
BY AllocInvInit, AllocInvStep, PTL DEF Spec

(* Every variable of the allocator has its type.                           *)
THEOREM TypeCorrect == Spec => []TypeOK
<1>1. AllocInv => TypeOK
  BY DEF AllocInv
<1> QED BY <1>1, AllocInvariant, PTL

(* allocator_lock gives mutual exclusion, for any number of harts.         *)
THEOREM MutualExclusionHolds == Spec => []MutualExclusion
<1>1. AllocInv => MutualExclusion
  BY DEF AllocInv
<1> QED BY <1>1, AllocInvariant, PTL

(* The chain of deallocated pages is always sound: no cycle, no page twice, *)
(* no page in use, no page lost.                                           *)
THEOREM FreeListSoundHolds == Spec => []FreeListSound
<1>1. AllocInv => FreeListSound
  BY FreeListBounded DEF AllocInv
<1> QED BY <1>1, AllocInvariant, PTL

-----------------------------------------------------------------------------
(* allocate_page and deallocate_page implement the pool of PagePool: each   *)
(* call takes effect in the one step that moves a page into or out of the  *)
(* pool, and finds NULL only if every page is in use.                      *)
THEOREM RefinementHolds == Spec => Refinement
<1> USE PageAllocAssumption
<1> DEFINE used == {p \in Page : owner[p] # "pool"}
<1>1. Init => Pool!Init
  BY DEF Init, Pool!Init, Pool!NULL, NULL
<1>2. AllocInv /\ [Next]_vars => [Pool!Next]_(Pool!pool_vars)
  <2> SUFFICES ASSUME AllocInv, [Next]_vars
               PROVE  Pool!Next \/ UNCHANGED <<used, result>>
    BY DEF Pool!pool_vars
  <2>0. /\ TypeOK /\ NULL \notin Page
        /\ owner \in [Page -> Harts \union {"pool", "client"}]
        /\ Page = Pool!Page /\ NULL = Pool!NULL
    BY DEF AllocInv, TypeOK, NULL, Page, Pool!Page, Pool!NULL
  <2>1. ASSUME NEW h \in Harts, AllocPop(h) PROVE Pool!Allocate(h)
    <3>1. entry[h] \in Page /\ owner[entry[h]] = "pool"
      <4>1. PICK n \in Nat : \E list \in [1 .. n -> Page] : IsFreeList(list, n)
        BY DEF AllocInv, FreeList
      <4> QED BY <2>0, <2>1, <4>1, TopOfList DEF AllocInv, HartOK, AllocPop, At
    <3>2. /\ used' = used \union {entry[h]}
          /\ entry[h] \in Page \ used
          /\ result' = [result EXCEPT ![h] = entry[h]]
      BY <2>0, <2>1, <3>1 DEF AllocPop, Give
    <3> QED BY <2>0, <3>2 DEF Pool!Allocate
  <2>2. ASSUME NEW h \in Harts, AllocBump(h)
        PROVE  Pool!Allocate(h) \/ Pool!Exhausted(h)
    <3>1. CASE next_unallocated_idx < MaxPages
      <4> DEFINE q == next_unallocated_idx
      <4>1. q \in Page
        BY <2>0, <3>1 DEF TypeOK, Page
      <4>2. owner[q] = "pool"
        BY <2>0, <4>1 DEF AllocInv, Untouched, TypeOK
      <4>3. /\ used' = used \union {q}
            /\ q \in Page \ used
            /\ result' = [result EXCEPT ![h] = q]
        BY <2>0, <2>2, <3>1, <4>1, <4>2 DEF AllocBump, Give
      <4> QED BY <2>0, <4>3 DEF Pool!Allocate
    <3>2. CASE ~(next_unallocated_idx < MaxPages)
      <4>1. UNCHANGED owner /\ result' = [result EXCEPT ![h] = NULL]
        BY <2>2, <3>2 DEF AllocBump
      <4>2. free_list_top = NULL
        BY <2>2 DEF AllocInv, HartOK, AllocBump, At
      <4>3. PICK n \in Nat : \E list \in [1 .. n -> Page] : IsFreeList(list, n)
        BY DEF AllocInv, FreeList
      <4>4. PICK list \in [1 .. n -> Page] : IsFreeList(list, n)
        BY <4>3
      <4>5. n = 0
        BY <2>0, <4>2, <4>4, TopOfList
      <4>6. \A p \in Page : p < next_unallocated_idx
        BY <2>0, <3>2 DEF TypeOK, Page
      <4>7. \A p \in Page : owner[p] # "pool"
        BY <4>4, <4>5, <4>6 DEF IsFreeList
      <4> QED BY <2>0, <4>1, <4>7 DEF Pool!Exhausted
    <3> QED BY <3>1, <3>2
  <2>3. ASSUME NEW h \in Harts, FreePush(h) PROVE Pool!Deallocate
    <3>1. page[h] \in Page /\ owner[page[h]] = h
      BY <2>3 DEF AllocInv, HartOK, FreePush, At
    <3>2. used' = used \ {page[h]} /\ page[h] \in used /\ UNCHANGED result
      BY <2>0, <2>3, <3>1 DEF FreePush, Give, local
    <3> QED BY <3>2 DEF Pool!Deallocate
  <2>4. ASSUME NEW h \in Harts, AllocRelease(h) PROVE UNCHANGED <<used, result>>
    <3>1. result[h] # NULL => owner[result[h]] = h
      BY <2>4 DEF AllocInv, HartOK, AllocRelease, At
    <3> QED BY <2>0, <2>4, <3>1 DEF AllocRelease, Give
  <2>5. ASSUME NEW h \in Harts, NEW p \in Page, FreeCall(h, p)
        PROVE  UNCHANGED <<used, result>>
    BY <2>0, <2>5 DEF FreeCall, Give
  <2>6. CASE UNCHANGED <<owner, result>>
    BY <2>6
  <2> QED BY <2>1, <2>2, <2>3, <2>4, <2>5, <2>6
          DEF Next, Step, Pool!Next, AllocCall, AllocAcquire, AllocTest,
              FreeAcquire, FreeLink, FreeRelease, ClientWrite, vars, local
<1> QED BY <1>1, <1>2, AllocInvariant, PTL DEF Spec, Refinement, Pool!Spec
=============================================================================
