---------------------------- MODULE MCAdminLogin ----------------------------
(***************************************************************************)
(* A small instance of AdminLogin: the superuser's login and the email of  *)
(* the one client who comes from a provider are the logins there are, and  *)
(* the second password that anybody thinks of may be the superuser's.      *)
(* Requests are interchangeable.                                           *)
(***************************************************************************)
EXTENDS AdminLogin, TLC

CONSTANT admin

MCNames == {admin}

Symmetry == Permutations(Requests)
=============================================================================
