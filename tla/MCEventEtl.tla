----------------------------- MODULE MCEventEtl -----------------------------
(***************************************************************************)
(* Small instances of EventEtl.  The mutants are slips a maintainer could  *)
(* make in the code, each of which one property has to notice.             *)
(***************************************************************************)
EXTENDS EventEtl, TLC
=============================================================================
