--------------------------- MODULE AuthRolesProofs --------------------------
(***************************************************************************)
(* Proofs about AuthRoles, for any finite set of default privileges and    *)
(* any users, role names, requests and commands.                           *)
(***************************************************************************)
EXTENDS AuthRoles, FiniteSetTheorems, TLAPS

Defaults == {"ADMIN", "USER", "GUEST"}

\* The default roles before the k-th are as they should be.
SeededUpTo(k) ==
    \A i \in 1..3 : i < k =>
        /\ role[DefaultRoles[i]] # "none"
        /\ role_privilege[DefaultRoles[i]] = DefaultsOf(DefaultRoles[i])

SeedInv ==
    /\ server \in {"role", "links", "serving"} => Existing = Privileges
    /\ server \in {"role", "links"} => SeededUpTo(seeding)
    /\ server = "links" => role[DefaultRoles[seeding]] # "none"
    /\ server = "serving" => SeededUpTo(4)

\* Who is behind the guard has the superuser's role, which is there then.
ReqInv ==
    \A r \in Requests :
        /\ req[r].at # "idle" => server = "serving"
        /\ req[r].at \in {"handle", "write"} => role[Superuser] = "superuser"
        /\ req[r].at = "write" => req[r].asked \subseteq Privileges

CmdInv ==
    \A k \in Commands :
        /\ cmd[k].at # "idle" => cmd[k].user \in Users
        /\ cmd[k].at = "assign" => user[cmd[k].user] = "command"

\* As things are, there is one role that somebody may have.
GrantInv == \A g \in user_role : g[2] = Superuser

IInv ==
    /\ TypeOK /\ SeedInv /\ ReqInv /\ CmdInv /\ GrantInv
    /\ SuperuserNameIsReserved

-----------------------------------------------------------------------------
LEMMA DefaultRolesAre ==
    /\ Len(DefaultRoles) = 3
    /\ \A i \in 1..3 : DefaultRoles[i] \in Defaults
    /\ Defaults \subseteq RoleNames
    /\ Superuser \in RoleNames /\ Superuser \notin Defaults
  BY DEF DefaultRoles, Defaults, RoleNames, Superuser

LEMMA NothingTyped ==
    /\ NoRequest \in RequestStates /\ NoRequest.at = "idle"
    /\ NoCommand \in CommandStates /\ NoCommand.at = "idle"
  BY DEF NoRequest, RequestStates, NoCommand, CommandStates, Operations,
         RoleNames

\* As many digits as ids: every id is there.
LEMMA ValidMeansExisting ==
    ASSUME TypeOK, NEW asked \in SUBSET (Privileges \cup {Unknown}), Valid(asked)
    PROVE  asked \subseteq Existing
<1> DEFINE T == asked \cap Existing
           D == {privilege[p] : p \in T}
           f == [p \in T |-> privilege[p]]
<1>1. IsFiniteSet(Privileges \cup {Unknown})
  BY PrivilegesAssumption, FS_AddElement
<1>2. IsFiniteSet(asked)
  BY <1>1, FS_Subset
<1>3. T \in SUBSET asked
  OBVIOUS
<1>4. IsFiniteSet(T) /\ Cardinality(T) <= Cardinality(asked)
      /\ (Cardinality(asked) = Cardinality(T) => asked = T)
  BY <1>2, <1>3, FS_Subset
<1>5. f \in Surjection(T, D)
  BY DEF Surjection
<1>6. IsFiniteSet(D) /\ Cardinality(D) <= Cardinality(T)
  BY <1>4, <1>5, FS_Surjection
<1>7. Cardinality(D) = Cardinality(asked)
  BY DEF Valid
<1> HIDE DEF T, D
<1>8. Cardinality(T) \in Nat /\ Cardinality(asked) \in Nat
  BY <1>2, <1>4, FS_CardinalityType
<1>9. Cardinality(asked) = Cardinality(T)
  BY <1>4, <1>6, <1>7, <1>8
<1>10. asked = T
  BY <1>4, <1>9
<1>11. QED
  BY <1>10 DEF T

\* Whom the guard lets in has the superuser's role.
LEMMA GuardMeansSuperuser ==
    ASSUME IInv, NEW u, NEW op, HavePrivilege(u, op)
    PROVE  role[Superuser] = "superuser"
<1> DEFINE roles == {n \in RoleNames : <<u, n>> \in user_role}
           having == {n \in roles : op \in role_privilege[n]}
<1>1. Cardinality({}) = 0
  BY FS_EmptySet
<1>2. roles # {}
  <2> SUFFICES ASSUME roles = {} PROVE FALSE
    OBVIOUS
  <2>1. having = {}
    OBVIOUS
  <2>2. Cardinality(having) = 1
    BY DEF HavePrivilege
  <2> HIDE DEF having
  <2>3. QED
    BY <1>1, <2>1, <2>2
<1>3. PICK n \in RoleNames : <<u, n>> \in user_role
  BY <1>2
<1>4. n = Superuser
  BY <1>3 DEF IInv, GrantInv
<1>5. role[Superuser] # "none"
  BY <1>3, <1>4 DEF IInv, TypeOK
<1>6. QED
  BY <1>5, DefaultRolesAre DEF IInv, TypeOK, SuperuserNameIsReserved

LEMMA InitIInv == Init => IInv
<1> SUFFICES ASSUME Init PROVE IInv
  OBVIOUS
<1>1. Existing = {}
  BY DEF Init, Existing
<1>2. TypeOK
  BY <1>1, NothingTyped, DefaultRolesAre DEF Init, TypeOK
<1>3. SeedInv /\ ReqInv /\ CmdInv
  BY NothingTyped DEF Init, SeedInv, ReqInv, CmdInv
<1>5. GrantInv /\ SuperuserNameIsReserved
  BY DefaultRolesAre DEF Init, GrantInv, SuperuserNameIsReserved
<1>6. QED
  BY <1>2, <1>3, <1>5 DEF IInv

-----------------------------------------------------------------------------
(***************************************************************************)
(* The server                                                              *)
(***************************************************************************)
LEMMA StartServerStep == ASSUME IInv, StartServer PROVE IInv'
<1> USE DEF IInv, StartServer, tables
<1>1. TypeOK'
  BY DEF TypeOK, Existing
<1>2. SeedInv' /\ ReqInv' /\ CmdInv'
  BY DEF SeedInv, ReqInv, CmdInv
<1>4. GrantInv' /\ SuperuserNameIsReserved'
  BY DEF GrantInv, SuperuserNameIsReserved
<1>5. QED
  BY <1>1, <1>2, <1>4

LEMMA SeedPrivilegeStep ==
    ASSUME IInv, NEW p \in Privileges, SeedPrivilege(p)
    PROVE  IInv'
<1> USE DEF IInv, SeedPrivilege
<1>1. privilege' \in [Privileges -> Digits \cup {Unknown}]
  BY DEF TypeOK
<1>2. Existing \subseteq Existing'
  BY DEF TypeOK, Existing
<1>3. TypeOK'
  BY <1>1, <1>2 DEF TypeOK
<1>4. SeedInv' /\ ReqInv' /\ CmdInv'
  BY DEF SeedInv, ReqInv, CmdInv
<1>6. GrantInv' /\ SuperuserNameIsReserved'
  BY DEF GrantInv, SuperuserNameIsReserved
<1>7. QED
  BY <1>3, <1>4, <1>6

LEMMA PrivilegesSeededStep == ASSUME IInv, PrivilegesSeeded PROVE IInv'
<1> USE DEF IInv, PrivilegesSeeded, tables
<1>1. TypeOK'
  BY DefaultRolesAre DEF TypeOK, Existing
<1>2. SeedInv' /\ ReqInv' /\ CmdInv'
  BY DEF SeedInv, SeededUpTo, ReqInv, CmdInv, Existing
<1>4. GrantInv' /\ SuperuserNameIsReserved'
  BY DEF GrantInv, SuperuserNameIsReserved
<1>5. QED
  BY <1>1, <1>2, <1>4

LEMMA SeedRoleStep == ASSUME IInv, SeedRole PROVE IInv'
<1> PICK n : n = DefaultRoles[seeding]
  OBVIOUS
<1> USE DEF IInv
<1>1. n \in Defaults /\ n \in RoleNames /\ n # Superuser
  BY DefaultRolesAre DEF TypeOK
<1>2. /\ role' \in [RoleNames -> {"none", "superuser", "other"}]
      /\ \A m \in RoleNames : role[m] # "none" => role'[m] = role[m]
      /\ role'[n] # "none" /\ role'[Superuser] = role[Superuser]
  BY <1>1, DefaultRolesAre DEF SeedRole, TypeOK
<1>3. UNCHANGED <<privilege, role_privilege, user, user_role, seeding, req, cmd>>
      /\ server = "role" /\ server' = "links" /\ Existing' = Existing
  BY DEF SeedRole, Existing
<1>4. TypeOK'
  BY <1>2, <1>3 DEF TypeOK
<1>5. SeedInv'
  BY <1>2, <1>3, DefaultRolesAre DEF SeedInv, SeededUpTo
<1>6. ReqInv' /\ CmdInv'
  BY <1>2, <1>3 DEF ReqInv, CmdInv
<1>7. GrantInv' /\ SuperuserNameIsReserved'
  BY <1>2, <1>3
  DEF GrantInv, SuperuserNameIsReserved
<1>8. QED
  BY <1>4, <1>5, <1>6, <1>7

LEMMA SeedLinksStep == ASSUME IInv, SeedLinks PROVE IInv'
<1> PICK n : n = DefaultRoles[seeding]
  OBVIOUS
<1> USE DEF IInv
<1>1. n \in Defaults /\ n \in RoleNames /\ seeding \in 1..3
  BY DefaultRolesAre DEF TypeOK
<1>2. UNCHANGED <<privilege, role, user, user_role, req, cmd>>
      /\ server = "links" /\ Existing' = Existing /\ Existing = Privileges
  BY DEF SeedLinks, Existing, SeedInv
<1>3. role_privilege' = [role_privilege EXCEPT ![n] = DefaultsOf(n) \cap Existing]
  BY DEF SeedLinks
<1>4. DefaultsOf(n) \cap Existing = DefaultsOf(n)
  BY <1>2 DEF DefaultsOf
<1>5. /\ role_privilege' \in [RoleNames -> SUBSET Existing]
      /\ \A m \in RoleNames : role_privilege'[m] =
            IF m = n THEN DefaultsOf(n) ELSE role_privilege[m]
  BY <1>1, <1>3, <1>4 DEF TypeOK
<1>6. \/ seeding = 3 /\ server' = "serving" /\ seeding' = seeding
      \/ seeding # 3 /\ server' = "role" /\ seeding' = seeding + 1
  BY DefaultRolesAre DEF SeedLinks
<1>7. \A i \in 1..3 : i <= seeding =>
         /\ role[DefaultRoles[i]] # "none"
         /\ role_privilege'[DefaultRoles[i]] = DefaultsOf(DefaultRoles[i])
  <2> SUFFICES ASSUME NEW i \in 1..3, i <= seeding
               PROVE  /\ role[DefaultRoles[i]] # "none"
                      /\ role_privilege'[DefaultRoles[i]] = DefaultsOf(DefaultRoles[i])
    OBVIOUS
  <2>1. DefaultRoles[i] \in RoleNames
    BY DefaultRolesAre
  <2>2. CASE i = seeding
    BY <1>1, <1>2, <1>5, <2>2 DEF SeedInv
  <2>3. CASE i < seeding
    BY <1>1, <1>2, <1>5, <2>1, <2>3 DEF SeedInv, SeededUpTo
  <2>4. QED
    BY <1>1, <2>2, <2>3
<1>8. TypeOK'
  BY <1>1, <1>2, <1>5, <1>6, DefaultRolesAre DEF TypeOK
<1>9. SeedInv'
  BY <1>1, <1>2, <1>6, <1>7 DEF SeedInv, SeededUpTo
<1>10. ReqInv' /\ CmdInv'
  BY <1>2, <1>6 DEF ReqInv, CmdInv
<1>12. GrantInv' /\ SuperuserNameIsReserved'
  BY <1>2 DEF GrantInv, SuperuserNameIsReserved
<1>13. QED
  BY <1>8, <1>9, <1>10, <1>12

LEMMA CrashServerStep == ASSUME IInv, CrashServer PROVE IInv'
<1> USE DEF IInv, CrashServer, tables
<1>1. TypeOK'
  BY NothingTyped, DefaultRolesAre DEF TypeOK, Existing
<1>2. SeedInv' /\ ReqInv' /\ CmdInv'
  BY NothingTyped DEF SeedInv, ReqInv, CmdInv
<1>4. GrantInv' /\ SuperuserNameIsReserved'
  BY DEF GrantInv, SuperuserNameIsReserved
<1>5. QED
  BY <1>1, <1>2, <1>4

-----------------------------------------------------------------------------
(***************************************************************************)
(* The requests                                                            *)
(***************************************************************************)
LEMMA RegisterStep ==
    ASSUME IInv, NEW u \in Users, Register(u)
    PROVE  IInv'
<1> USE DEF IInv, Register
<1>1. /\ user' \in [Users -> {"none", "api", "command"}]
      /\ \A v \in Users : user[v] # "none" => user'[v] = user[v]
  BY DEF TypeOK
<1>2. TypeOK'
  BY <1>1 DEF TypeOK, Existing
<1>3. SeedInv' /\ ReqInv'
  BY DEF SeedInv, SeededUpTo, ReqInv, Existing
<1>4. CmdInv'
  BY <1>1 DEF CmdInv
<1>6. GrantInv' /\ SuperuserNameIsReserved'
  BY <1>1 DEF GrantInv, SuperuserNameIsReserved, TypeOK
<1>7. QED
  BY <1>2, <1>3, <1>4, <1>6

\* A step of a request that leaves the tables alone.
LEMMA RequestStep ==
    ASSUME IInv, NEW r \in Requests, NEW p \in RequestStates,
           req' = [req EXCEPT ![r] = p],
           p.at # "idle" => server = "serving",
           p.at \in {"handle", "write"} => role[Superuser] = "superuser",
           p.at = "write" => p.asked \subseteq Privileges,
           UNCHANGED <<tables, server, seeding, cmd>>
    PROVE  IInv'
<1> USE DEF IInv, tables
<1>1. \A s \in Requests : req'[s] = IF s = r THEN p ELSE req[s]
  BY DEF TypeOK
<1>2. TypeOK'
  BY DEF TypeOK, Existing
<1>3. ReqInv'
  BY <1>1 DEF ReqInv
<1>4. SeedInv' /\ CmdInv'
  BY DEF SeedInv, SeededUpTo, CmdInv, Existing
<1>6. GrantInv' /\ SuperuserNameIsReserved'
  BY DEF GrantInv, SuperuserNameIsReserved
<1>7. QED
  BY <1>2, <1>3, <1>4, <1>6

LEMMA ReqEndsStep ==
    ASSUME IInv, NEW r \in Requests, ReqEnds(r),
           UNCHANGED <<tables, server, seeding, cmd>>
    PROVE  IInv'
  BY RequestStep, NothingTyped DEF ReqEnds

LEMMA ReqGoStep ==
    ASSUME IInv, NEW r \in Requests, NEW place \in {"handle", "write", "answered"},
           ReqGo(r, place), server = "serving", role[Superuser] = "superuser",
           place = "write" => req[r].asked \subseteq Privileges,
           UNCHANGED <<tables, server, seeding, cmd>>
    PROVE  IInv'
<1> PICK p : p = [req[r] EXCEPT !.at = place, !.user = Unknown]
  OBVIOUS
<1>1. req[r] \in RequestStates
  BY DEF IInv, TypeOK
<1>2. p \in RequestStates /\ p.at = place /\ p.asked = req[r].asked
  BY <1>1 DEF RequestStates
<1>3. req' = [req EXCEPT ![r] = p]
  BY DEF ReqGo, IInv, TypeOK
<1>4. QED
  BY <1>2, <1>3, RequestStep

LEMMA SendStep ==
    ASSUME IInv, NEW r \in Requests, NEW u \in Users, NEW op \in Operations,
           NEW name \in Names \cup {Superuser},
           NEW asked \in Asks \cup {{}}, NEW target \in Users \cup {Unknown},
           Send(r, u, op, name, asked, target)
    PROVE  IInv'
<1> PICK p : p = [at |-> "guard", user |-> u, op |-> op, name |-> name,
                  asked |-> asked, target |-> target]
  OBVIOUS
<1>1. p \in RequestStates
  BY AsksAssumption DEF RequestStates, RoleNames
<1>2. QED
  BY <1>1, RequestStep DEF Send

LEMMA GuardStep == ASSUME IInv, NEW r \in Requests, Guard(r) PROVE IInv'
<1>1. server = "serving"
  BY DEF Guard, ReqAt, IInv, ReqInv
<1>2. CASE HavePrivilege(req[r].user, req[r].op)
  BY <1>1, <1>2, GuardMeansSuperuser, ReqGoStep DEF Guard
<1>3. CASE ~ HavePrivilege(req[r].user, req[r].op)
  BY <1>3, ReqEndsStep DEF Guard
<1>4. QED
  BY <1>2, <1>3

\* The handlers whose session ends without a commit.
LEMMA InSessionStep ==
    ASSUME IInv, NEW r \in Requests,
           ChangeRole(r) \/ DeleteRole(r) \/ AssignRole(r) \/ RevokeRole(r)
    PROVE  IInv'
<1>1. PICK success \in BOOLEAN : Answered(r, success)
  BY DEF ChangeRole, DeleteRole, AssignRole, RevokeRole
<1>2. ReqAt(r, "handle") /\ UNCHANGED <<tables, server, seeding, cmd>>
  BY DEF ChangeRole, DeleteRole, AssignRole, RevokeRole, Handles
<1>3. server = "serving" /\ role[Superuser] = "superuser"
  BY <1>2 DEF ReqAt, IInv, ReqInv
<1>4. CASE success
  BY <1>1, <1>2, <1>3, <1>4, ReqGoStep DEF Answered
<1>5. CASE ~ success
  BY <1>1, <1>2, <1>5, ReqEndsStep DEF Answered
<1>6. QED
  BY <1>4, <1>5

LEMMA ValidateStep ==
    ASSUME IInv, NEW r \in Requests, ValidatePrivileges(r)
    PROVE  IInv'
<1>1. server = "serving" /\ role[Superuser] = "superuser"
  BY DEF ValidatePrivileges, ReqAt, IInv, ReqInv
<1>2. CASE Valid(req[r].asked)
  <2>1. req[r].asked \in SUBSET (Privileges \cup {Unknown}) /\ TypeOK
    BY DEF IInv, TypeOK, RequestStates
  <2>2. req[r].asked \subseteq Privileges
    BY <1>2, <2>1, ValidMeansExisting DEF Existing
  <2>3. QED
    BY <1>1, <1>2, <2>2, ReqGoStep DEF ValidatePrivileges
<1>3. CASE ~ Valid(req[r].asked)
  BY <1>3, ReqEndsStep DEF ValidatePrivileges
<1>4. QED
  BY <1>2, <1>3

LEMMA CreateRoleStep ==
    ASSUME IInv, NEW r \in Requests, CreateRole(r)
    PROVE  IInv'
<1> PICK n, asked : n = req[r].name /\ asked = req[r].asked
  OBVIOUS
<1>1. /\ server = "serving" /\ role[Superuser] = "superuser"
      /\ asked \subseteq Privileges /\ Existing = Privileges
  BY DEF CreateRole, ReqAt, IInv, ReqInv, SeedInv
<1>2. n \in RoleNames
  BY DEF IInv, TypeOK, RequestStates
<1>3. CASE RoleIsThere(n)
  BY <1>3, ReqEndsStep DEF CreateRole, Answered, tables
<1>4. CASE ~ RoleIsThere(n)
  <2> USE DEF IInv
  <2>1. /\ role' = [role EXCEPT ![n] = "other"]
        /\ role_privilege' = [role_privilege EXCEPT ![n] = asked]
    <3>1. asked \cap Existing = asked
      BY <1>1
    <3>2. QED
      BY <1>4, <3>1 DEF CreateRole
  <2>2. ReqGo(r, "answered") /\ Existing' = Existing
        /\ UNCHANGED <<privilege, user, user_role, server, seeding, cmd>>
    BY <1>4 DEF CreateRole, Answered, Existing
  <2>3. n \notin Defaults /\ n # Superuser
    <3>1. \A m \in Defaults : \E i \in 1..3 : m = DefaultRoles[i]
      BY DEF Defaults, DefaultRoles
    <3>2. \A i \in 1..3 : role[DefaultRoles[i]] # "none"
      BY <1>1 DEF SeedInv, SeededUpTo
    <3>3. QED
      BY <1>1, <1>4, <3>1, <3>2 DEF RoleIsThere
  <2>4. /\ req' \in [Requests -> RequestStates]
        /\ \A s \in Requests : s # r => req'[s] = req[s]
        /\ req'[r].at = "answered"
    <3>1. req[r] \in RequestStates
      BY DEF TypeOK
    <3>2. [req[r] EXCEPT !.at = "answered", !.user = Unknown] \in RequestStates
      BY <3>1 DEF RequestStates
    <3>3. req' = [req EXCEPT ![r] =
                     [req[r] EXCEPT !.at = "answered", !.user = Unknown]]
      BY <2>2 DEF ReqGo, TypeOK
    <3>4. QED
      BY <3>1, <3>2, <3>3 DEF TypeOK, RequestStates
  <2>5. /\ role' \in [RoleNames -> {"none", "superuser", "other"}]
        /\ role_privilege' \in [RoleNames -> SUBSET Existing]
    BY <1>1, <1>2, <2>1 DEF TypeOK
  <2>6. /\ \A m \in RoleNames \ {n} : /\ role'[m] = role[m]
                                      /\ role_privilege'[m] = role_privilege[m]
        /\ role'[n] = "other"
    BY <1>2, <2>1 DEF TypeOK
  <2>7. TypeOK'
    BY <2>2, <2>4, <2>5, <2>6 DEF TypeOK
  <2>8. SeedInv'
    <3>1. \A i \in 1..3 : DefaultRoles[i] \in RoleNames \ {n}
      BY <2>3, DefaultRolesAre
    <3>2. QED
      BY <1>1, <2>2, <2>6, <3>1 DEF SeedInv, SeededUpTo
  <2>9. role'[Superuser] = role[Superuser]
    BY <2>3, <2>6, DefaultRolesAre
  <2>10. ReqInv'
    BY <1>1, <2>2, <2>4, <2>9 DEF ReqInv
  <2>11. CmdInv' /\ GrantInv' /\ SuperuserNameIsReserved'
    BY <2>2, <2>9 DEF CmdInv, GrantInv, SuperuserNameIsReserved
  <2>12. QED
    BY <2>7, <2>8, <2>10, <2>11
<1>5. QED
  BY <1>3, <1>4

-----------------------------------------------------------------------------
(***************************************************************************)
(* The superuser command                                                   *)
(***************************************************************************)
\* A step of a command that leaves the tables alone.
LEMMA CommandStep ==
    ASSUME IInv, NEW k \in Commands, NEW c \in CommandStates,
           cmd' = [cmd EXCEPT ![k] = c],
           c.at # "idle" => c.user \in Users,
           c.at = "assign" => user[c.user] = "command",
           UNCHANGED <<tables, server, seeding, req>>
    PROVE  IInv'
<1> USE DEF IInv, tables
<1>1. \A l \in Commands : cmd'[l] = IF l = k THEN c ELSE cmd[l]
  BY DEF TypeOK
<1>2. TypeOK'
  BY DEF TypeOK, Existing
<1>3. CmdInv'
  BY <1>1 DEF CmdInv
<1>4. SeedInv' /\ ReqInv'
  BY DEF SeedInv, SeededUpTo, ReqInv, Existing
<1>6. GrantInv' /\ SuperuserNameIsReserved'
  BY DEF GrantInv, SuperuserNameIsReserved
<1>7. QED
  BY <1>2, <1>3, <1>4, <1>6

LEMMA CmdEndsStep ==
    ASSUME IInv, NEW k \in Commands, CmdEnds(k),
           UNCHANGED <<tables, server, seeding, req>>
    PROVE  IInv'
  BY CommandStep, NothingTyped DEF CmdEnds

LEMMA StartCommandStep ==
    ASSUME IInv, NEW k \in Commands, NEW u \in Users, StartCommand(k, u)
    PROVE  IInv'
<1> PICK c : c = [at |-> "role", user |-> u]
  OBVIOUS
<1>1. c \in CommandStates
  BY DEF CommandStates
<1>2. QED
  BY <1>1, CommandStep DEF StartCommand

LEMMA EnsureSuperuserRoleStep ==
    ASSUME IInv, NEW k \in Commands, EnsureSuperuserRole(k)
    PROVE  IInv'
<1>1. role[Superuser] # "other"
  BY DEF IInv, SuperuserNameIsReserved
<1> USE DEF IInv
<1>2. CmdGo(k, "register") /\ role' = [role EXCEPT ![Superuser] = "superuser"]
      /\ UNCHANGED <<privilege, role_privilege, user, user_role, server,
                     seeding, req>>
  BY <1>1 DEF EnsureSuperuserRole
<1>3. Existing' = Existing
  BY <1>2 DEF Existing
<1>4. /\ role' \in [RoleNames -> {"none", "superuser", "other"}]
      /\ role'[Superuser] = "superuser"
      /\ \A n \in RoleNames : role[n] # "none" => role'[n] = role[n]
  BY <1>1, <1>2, DefaultRolesAre DEF TypeOK
<1>5. cmd[k] \in CommandStates /\ cmd[k].user \in Users
  BY DEF EnsureSuperuserRole, CmdAt, TypeOK, CmdInv
<1>6. /\ cmd' \in [Commands -> CommandStates]
      /\ \A l \in Commands : cmd'[l].user = cmd[l].user
      /\ \A l \in Commands : l # k => cmd'[l] = cmd[l]
      /\ cmd'[k].at = "register"
  BY <1>2, <1>5 DEF CmdGo, TypeOK, CommandStates
<1>7. TypeOK'
  BY <1>2, <1>3, <1>4, <1>6 DEF TypeOK
<1>8. SeedInv'
  BY <1>2, <1>3, <1>4, DefaultRolesAre DEF SeedInv, SeededUpTo, TypeOK
<1>9. ReqInv'
  BY <1>2, <1>4 DEF ReqInv
<1>10. CmdInv'
  BY <1>2, <1>5, <1>6 DEF CmdInv
<1>11. GrantInv' /\ SuperuserNameIsReserved'
  BY <1>2, <1>4
  DEF GrantInv, SuperuserNameIsReserved
<1>12. QED
  BY <1>7, <1>8, <1>9, <1>10, <1>11

LEMMA RegisterAdminStep ==
    ASSUME IInv, NEW k \in Commands, RegisterAdmin(k)
    PROVE  IInv'
<1> PICK u : u = cmd[k].user
  OBVIOUS
<1>1. u \in Users /\ cmd[k] \in CommandStates
  BY DEF RegisterAdmin, CmdAt, IInv, TypeOK, CmdInv
<1>2. CASE user[u] # "none"
  BY <1>2, CmdEndsStep DEF RegisterAdmin, tables
<1>3. CASE user[u] = "none"
  <2> USE DEF IInv
  <2>1. CmdGo(k, "assign") /\ user' = [user EXCEPT ![u] = "command"]
        /\ UNCHANGED <<privilege, role, role_privilege, user_role, server,
                       seeding, req>>
    BY <1>3 DEF RegisterAdmin
  <2>2. /\ user' \in [Users -> {"none", "api", "command"}]
        /\ \A v \in Users : user[v] # "none" => user'[v] = user[v]
        /\ user'[u] = "command"
    BY <1>1, <1>3, <2>1 DEF TypeOK
  <2>3. /\ cmd' \in [Commands -> CommandStates]
        /\ \A l \in Commands : cmd'[l].user = cmd[l].user
        /\ \A l \in Commands : l # k => cmd'[l] = cmd[l]
    BY <1>1, <2>1 DEF CmdGo, TypeOK, CommandStates
  <2>4. TypeOK'
    BY <2>1, <2>2, <2>3 DEF TypeOK, Existing
  <2>5. CmdInv'
    BY <1>1, <2>2, <2>3 DEF CmdInv
  <2>6. SeedInv' /\ ReqInv'
    BY <2>1 DEF SeedInv, SeededUpTo, ReqInv, Existing
    <2>8. GrantInv' /\ SuperuserNameIsReserved'
    BY <2>1, <2>2 DEF GrantInv, SuperuserNameIsReserved, TypeOK
  <2>9. QED
    BY <2>4, <2>5, <2>6, <2>8
<1>4. QED
  BY <1>2, <1>3

LEMMA AssignStep ==
    ASSUME IInv, NEW k \in Commands, AssignSuperuserRole(k)
    PROVE  IInv'
<1> PICK u : u = cmd[k].user
  OBVIOUS
<1>1. u \in Users /\ user[u] = "command"
  BY DEF AssignSuperuserRole, CmdAt, IInv, CmdInv
<1>2. CASE role[Superuser] # "superuser"
  BY <1>2, CmdEndsStep DEF AssignSuperuserRole, tables
<1>3. CASE role[Superuser] = "superuser"
  <2> USE DEF IInv
  <2>1. user_role' = user_role \cup {<<u, Superuser>>} /\ CmdEnds(k)
        /\ UNCHANGED <<privilege, role, role_privilege, user, server, seeding,
                       req>>
    BY <1>3 DEF AssignSuperuserRole
  <2>2. cmd' \in [Commands -> CommandStates]
        /\ \A l \in Commands : cmd'[l] = IF l = k THEN NoCommand ELSE cmd[l]
    BY <2>1, NothingTyped DEF CmdEnds, TypeOK
  <2>3. /\ <<u, Superuser>> \in Users \X RoleNames
        /\ user[u] # "none" /\ role[Superuser] # "none"
    BY <1>1, <1>3, DefaultRolesAre
  <2>4. TypeOK'
    BY <2>1, <2>2, <2>3 DEF TypeOK, Existing
  <2>5. CmdInv'
    BY <2>1, <2>2, NothingTyped DEF CmdInv
  <2>6. SeedInv' /\ ReqInv'
    BY <2>1 DEF SeedInv, SeededUpTo, ReqInv, Existing
    <2>8. GrantInv' /\ SuperuserNameIsReserved'
    BY <1>1, <2>1 DEF GrantInv, SuperuserNameIsReserved
  <2>9. QED
    BY <2>4, <2>5, <2>6, <2>8
<1>4. QED
  BY <1>2, <1>3

-----------------------------------------------------------------------------
LEMMA NextIInv == IInv /\ [Next]_vars => IInv'
<1> SUFFICES ASSUME IInv, [Next]_vars PROVE IInv'
  OBVIOUS
<1>1. CASE UNCHANGED vars
  <2> USE <1>1 DEF vars, IInv
  <2>1. TypeOK'
    BY DEF TypeOK, Existing
  <2>2. SeedInv' /\ ReqInv' /\ CmdInv'
    BY DEF SeedInv, SeededUpTo, ReqInv, CmdInv, Existing
    <2>4. GrantInv' /\ SuperuserNameIsReserved'
    BY DEF GrantInv, SuperuserNameIsReserved
  <2>5. QED
    BY <2>1, <2>2, <2>4
<1>2. CASE StartServer \/ PrivilegesSeeded \/ SeedRole \/ SeedLinks \/ CrashServer
  BY <1>2, StartServerStep, PrivilegesSeededStep, SeedRoleStep, SeedLinksStep,
     CrashServerStep
<1>3. ASSUME NEW p \in Privileges, SeedPrivilege(p) PROVE IInv'
  BY <1>3, SeedPrivilegeStep
<1>4. ASSUME NEW u \in Users, Register(u) PROVE IInv'
  BY <1>4, RegisterStep
<1>5. ASSUME NEW r \in Requests, NEW u \in Users, NEW op \in Operations,
             NEW name \in Names \cup {Superuser},
             NEW asked \in Asks \cup {{}}, NEW target \in Users \cup {Unknown},
             Send(r, u, op, name, asked, target)
      PROVE  IInv'
  BY <1>5, SendStep
<1>6. ASSUME NEW r \in Requests,
             \/ Guard(r) \/ ChangeRole(r) \/ DeleteRole(r) \/ AssignRole(r)
             \/ RevokeRole(r) \/ ReadRoles(r) \/ ValidatePrivileges(r)
             \/ CreateRole(r) \/ Finish(r)
      PROVE  IInv'
  BY <1>6, GuardStep, InSessionStep, ReqEndsStep, ValidateStep, CreateRoleStep
  DEF ReadRoles, Handles, Finish
<1>7. ASSUME NEW k \in Commands, NEW u \in Users, StartCommand(k, u) PROVE IInv'
  BY <1>7, StartCommandStep
<1>8. ASSUME NEW k \in Commands,
             \/ EnsureSuperuserRole(k) \/ RegisterAdmin(k)
             \/ AssignSuperuserRole(k) \/ KillCommand(k)
      PROVE  IInv'
  BY <1>8, EnsureSuperuserRoleStep, RegisterAdminStep, AssignStep, CmdEndsStep
  DEF KillCommand
<1>9. QED
  BY <1>1, <1>2, <1>3, <1>4, <1>5, <1>6, <1>7, <1>8 DEF Next

LEMMA IInvHolds == Spec => []IInv
  BY InitIInv, NextIInv, PTL DEF Spec

-----------------------------------------------------------------------------
(***************************************************************************)
(* Every variable keeps its type; the join tables link rows that exist.    *)
(***************************************************************************)
THEOREM TypeOKHolds == Spec => []TypeOK
<1>1. IInv => TypeOK
  BY DEF IInv
<1>2. QED
  BY <1>1, IInvHolds, PTL

(***************************************************************************)
(* Wherever earlier starts ended, a server that answers has its default    *)
(* privileges and roles, linked as initial_data.py says.                   *)
(***************************************************************************)
THEOREM ServingMeansSeededHolds == Spec => []ServingMeansSeeded
<1>1. IInv => ServingMeansSeeded
  BY DefaultRolesAre DEF IInv, SeedInv, SeededUpTo, ServingMeansSeeded
<1>2. QED
  BY <1>1, IInvHolds, PTL

(***************************************************************************)
(* A role create_role answers for is stored with the privileges that were  *)
(* asked for, all of which existed: as many digits as ids were counted.    *)
(***************************************************************************)
THEOREM CreatedIsStoredHolds == Spec => CreatedIsStored
<1>1. ASSUME IInv, [Next]_vars, NEW r \in Requests, Answers(r),
             req[r].op = "role/create"
      PROVE  Stored(r)'
  <2> USE <1>1
  <2>1. req[r].at # "answered" /\ req'[r].at = "answered"
    BY DEF Answers, ReqAt
  <2>2. req[r] \in RequestStates /\ req[r].name \in RoleNames
    BY DEF IInv, TypeOK, RequestStates
  <2>3. req' # req
    BY <2>1
  <2>4. ASSUME NEW s \in Requests, s # r,
               \/ ReqEnds(s) \/ \E place : ReqGo(s, place)
               \/ \E p : req' = [req EXCEPT ![s] = p]
        PROVE  FALSE
    <3>1. \E p : req' = [req EXCEPT ![s] = p]
      BY <2>4 DEF ReqEnds, ReqGo
    <3>2. req'[r] = req[r]
      BY <2>4, <3>1 DEF IInv, TypeOK
    <3>3. QED
      BY <2>1, <3>2
  <2>5. ~ ReqEnds(r)
    BY <2>1, NothingTyped DEF ReqEnds, IInv, TypeOK
  <2>6. CreateRole(r)
    <3>1. CASE CrashServer
      BY <2>1, <3>1, NothingTyped DEF CrashServer
    <3>2. CASE UNCHANGED req
      BY <2>3, <3>2
    <3>3. ASSUME NEW s \in Requests, NEW u \in Users, NEW op \in Operations,
                 NEW name \in Names \cup {Superuser},
                 NEW asked \in Asks \cup {{}},
                 NEW target \in Users \cup {Unknown},
                 Send(s, u, op, name, asked, target)
          PROVE  FALSE
      <4>1. s = r
        BY <2>4, <3>3 DEF Send
      <4>2. req'[r].at = "guard"
        BY <3>3, <4>1 DEF Send, IInv, TypeOK
      <4>3. QED
        BY <2>1, <4>2
    <3>4. ASSUME NEW s \in Requests, Guard(s) \/ ValidatePrivileges(s)
          PROVE  FALSE
      <4>1. \/ ReqEnds(s)
            \/ \E place \in {"handle", "write"} : ReqGo(s, place)
        BY <3>4 DEF Guard, ValidatePrivileges
      <4>2. s = r
        BY <2>4, <4>1
      <4>3. PICK place \in {"handle", "write"} : ReqGo(r, place)
        BY <2>5, <4>1, <4>2
      <4>4. req'[r].at = place
        BY <2>2, <4>3 DEF ReqGo, IInv, TypeOK, RequestStates
      <4>5. QED
        BY <2>1, <4>4
    <3>5. ASSUME NEW s \in Requests,
                 \/ ChangeRole(s) \/ DeleteRole(s) \/ AssignRole(s)
                 \/ RevokeRole(s)
          PROVE  FALSE
      <4>1. ReqEnds(s) \/ ReqGo(s, "answered")
        BY <3>5 DEF ChangeRole, DeleteRole, AssignRole, RevokeRole, Answered
      <4>2. req[s].op # "role/create"
        BY <3>5 DEF ChangeRole, DeleteRole, AssignRole, RevokeRole, Handles
      <4>3. QED
        BY <2>4, <4>1, <4>2
    <3>6. ASSUME NEW s \in Requests, ReadRoles(s) \/ Finish(s)
          PROVE  FALSE
      BY <2>4, <2>5, <3>6 DEF ReadRoles, Finish
    <3>7. ASSUME NEW s \in Requests, CreateRole(s)
          PROVE  s = r
      BY <2>4, <3>7 DEF CreateRole, Answered
    <3>8. UNCHANGED req \/ CrashServer
          \/ \E s \in Requests :
                \/ \E u \in Users, op \in Operations,
                      name \in Names \cup {Superuser},
                      asked \in Asks \cup {{}}, target \in Users \cup {Unknown} :
                      Send(s, u, op, name, asked, target)
                \/ Guard(s) \/ ValidatePrivileges(s)
                \/ ChangeRole(s) \/ DeleteRole(s) \/ AssignRole(s)
                \/ RevokeRole(s) \/ ReadRoles(s) \/ Finish(s)
                \/ CreateRole(s)
      BY DEF Next, vars, StartServer, SeedPrivilege, PrivilegesSeeded, SeedRole,
             SeedLinks, Register, StartCommand, EnsureSuperuserRole,
             RegisterAdmin, AssignSuperuserRole, KillCommand
    <3>9. QED
      BY <3>1, <3>2, <3>3, <3>4, <3>5, <3>6, <3>7, <3>8
  <2>7. ~ RoleIsThere(req[r].name) /\ ReqGo(r, "answered")
    BY <2>5, <2>6 DEF CreateRole, Answered
  <2>8. /\ role' = [role EXCEPT ![req[r].name] = "other"]
        /\ role_privilege' = [role_privilege EXCEPT ![req[r].name] =
                                 req[r].asked \cap Existing]
    BY <2>6, <2>7 DEF CreateRole
  <2>9. req[r].asked \cap Existing = req[r].asked
    BY <2>6 DEF CreateRole, ReqAt, IInv, ReqInv, SeedInv
  <2>10. /\ req'[r].op = "role/create" /\ req'[r].name = req[r].name
         /\ req'[r].asked = req[r].asked
    BY <2>2, <2>7 DEF ReqGo, IInv, TypeOK, RequestStates
  <2>11. role'[req[r].name] # "none" /\ role_privilege'[req[r].name] = req[r].asked
    BY <2>2, <2>8, <2>9 DEF IInv, TypeOK
  <2>12. QED
    BY <2>10, <2>11 DEF Stored
<1>2. IInv /\ [Next]_vars =>
        [\A r \in Requests :
            Answers(r) /\ req[r].op = "role/create" => Stored(r)']_vars
  BY <1>1
<1>3. QED
  BY <1>2, IInvHolds, PTL DEF Spec, CreatedIsStored

(***************************************************************************)
(* The command gives its role to an account it has made itself.            *)
(***************************************************************************)
THEOREM CommandPromotesItsOwnHolds == Spec => CommandPromotesItsOwn
<1>1. IInv /\ [Next]_vars =>
        [\A k \in Commands :
            AssignSuperuserRole(k) => user[cmd[k].user] = "command"]_vars
  BY DEF IInv, CmdInv, AssignSuperuserRole, CmdAt
<1>2. QED
  BY <1>1, IInvHolds, PTL DEF Spec, CommandPromotesItsOwn

(***************************************************************************)
(* create_role never takes the superuser's name.                           *)
(***************************************************************************)
THEOREM SuperuserNameIsReservedHolds == Spec => []SuperuserNameIsReserved
<1>1. IInv => SuperuserNameIsReserved
  BY DEF IInv
<1>2. QED
  BY <1>1, IInvHolds, PTL
=============================================================================
