------------------------------ MODULE MCUgcApi ------------------------------
(***************************************************************************)
(* A small instance of UgcApi.  Requests are interchangeable, and so are   *)
(* partitions.                                                             *)
(***************************************************************************)
EXTENDS UgcApi

Symmetry == Permutations(Requests) \cup Permutations(Partitions)
=============================================================================
