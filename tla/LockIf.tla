------------------------------- MODULE LockIf -------------------------------
(***************************************************************************)
(* The test-and-set lock of include/lock_if.h (TAS, the lock the default   *)
(* build compiles): the word that the CAS of tas_lock leaves behind, and   *)
(* when it lets its caller pass.  The CAS compares with TAS_FREE, the loop *)
(* around it with TAS_LCKD: a word that is neither, such as that of a lock *)
(* that was never initialised, lets everybody pass and stays as it is.     *)
(***************************************************************************)
TAS_FREE == 0
TAS_LCKD == 1

tas_lock_passes(l) == l # TAS_LCKD
tas_locked(l) == IF l = TAS_FREE THEN TAS_LCKD ELSE l
=============================================================================
