----------------------------- MODULE MCVmemGuest -----------------------------
(***************************************************************************)
(* The instance of a guest that keeps to what vmem.c supports, as the      *)
(* theorems on it suppose.                                                 *)
(***************************************************************************)
EXTENDS MCVmem

ASSUME GuestAssumption == LargePageGuest
=============================================================================
