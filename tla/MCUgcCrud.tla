----------------------------- MODULE MCUgcCrud ------------------------------
(***************************************************************************)
(* A small instance of UgcCrud, the likes.  Requests and contents are      *)
(* interchangeable.                                                        *)
(***************************************************************************)
EXTENDS UgcCrud

Symmetry == Permutations(Requests) \cup Permutations(Contents)
=============================================================================
