---------------------------- MODULE MCAuthTokens ----------------------------
(***************************************************************************)
(* Small instances of AuthTokens.  Clients are interchangeable, and so are *)
(* requests.                                                               *)
(***************************************************************************)
EXTENDS AuthTokens, TLC

Symmetry == Permutations(Clients) \cup Permutations(Requests)
=============================================================================
