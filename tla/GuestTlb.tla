------------------------------ MODULE GuestTlb ------------------------------
(***************************************************************************)
(* What a guest may expect of the translation of its addresses: a cache of *)
(* the translations in its page tables, as the architecture allows one.    *)
(* Translations are taken over from the guest's tables when they are used, *)
(* may be kept after the tables have changed or be dropped at any time,    *)
(* and are gone after sfence.vma.                                          *)
(***************************************************************************)
VARIABLES cached,            \* the translations in use
          current,           \* the translations the guest's tables give
          fenced             \* the last step was an sfence.vma

tlb_vars == <<cached, current, fenced>>

Init == cached = {} /\ fenced = FALSE

\* The guest changes its tables or satp.
Change == UNCHANGED cached /\ fenced' = FALSE

Use == /\ cached' \subseteq cached \union current
       /\ UNCHANGED current
       /\ fenced' = FALSE

Fence == /\ cached' = {}
         /\ UNCHANGED current
         /\ fenced' = TRUE

Next == Change \/ Use \/ Fence

Spec == Init /\ [][Next]_tlb_vars
=============================================================================
