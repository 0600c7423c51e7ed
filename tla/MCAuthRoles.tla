---------------------------- MODULE MCAuthRoles ----------------------------
(***************************************************************************)
(* A small instance of AuthRoles: two default privileges, whose ids may    *)
(* start with the same digit.  Users, digits and requests are              *)
(* interchangeable.                                                        *)
(***************************************************************************)
EXTENDS AuthRoles, TLC

TwoPrivileges == {"role/create", "role/assign"}

\* Both that exist, and one that exists with one that does not.
TwoAsks == {TwoPrivileges, {"role/create", Unknown}}

Symmetry == Permutations(Users) \cup Permutations(Digits) \cup
            Permutations(Requests)
=============================================================================
