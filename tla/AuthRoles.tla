------------------------------ MODULE AuthRoles ------------------------------
(***************************************************************************)
(* Roles and privileges of auth_service: the seeding at the start of the   *)
(* server, the superuser command, and the role requests behind the guard   *)
(* have_privilege.  Each commit is an action of its own and the server or  *)
(* a command may end between any two.                                      *)
(*                                                                         *)
(* A role is named by its unique name, a privilege by its name; of the id  *)
(* of a privilege the first digit is kept, the one _validate_privileges    *)
(* counts, and of the id of a role whether it is the superuser's.          *)
(***************************************************************************)
EXTENDS Integers, FiniteSets, Sequences

CONSTANTS
    Privileges,    \* DEFAULT_PRIVILEGES
    Unknown,       \* the id of no privilege, no digit, no user
    Digits,        \* first characters of an id
    Users,         \* accounts, named by login
    Names,         \* names of roles that requests are about
    Asks,          \* sets of ids of privileges that requests ask for
    Requests,      \* requests that may be in flight together
    Commands       \* superuser commands that may run together

ASSUME UnknownAssumption == Unknown \notin Privileges \cup Digits \cup Users
ASSUME PrivilegesAssumption == IsFiniteSet(Privileges)
ASSUME AsksAssumption == Asks \subseteq SUBSET (Privileges \cup {Unknown})

DefaultRoles == <<"ADMIN", "USER", "GUEST">>
Superuser == "SUPERUSER"
RoleNames == {"ADMIN", "USER", "GUEST", Superuser} \cup Names
DefaultsOf(name) == IF name = "ADMIN" THEN Privileges ELSE {}

Reading == {"role/", "role/user"}
Assigning == {"role/assign", "role/revoke"}
Operations == {"role/create", "role/change", "role/delete"} \cup Assigning
              \cup Reading

\* Who asks, for what, of which role, with which privileges, for whom.
RequestStates ==
    [at : {"idle", "guard", "handle", "write", "answered"},
     user : Users \cup {Unknown},
     op : Operations,
     name : RoleNames,
     asked : SUBSET (Privileges \cup {Unknown}),
     target : Users \cup {Unknown}]

CommandStates == [at : {"idle", "role", "register", "assign"},
                  user : Users \cup {Unknown}]

VARIABLES
    privilege,      \* table privilege: [Privileges -> its digit],
                    \* Unknown: no row
    role,           \* table role: [RoleNames -> "none", "superuser", "other"]
    role_privilege, \* [RoleNames -> SUBSET Privileges]
    user,           \* table user: [Users -> "none", or who made the row]
    user_role,      \* SUBSET (Users \X RoleNames)
    server,         \* where the server is: down, seeding or serving
    seeding,        \* index of the default role it is at
    req,            \* [Requests -> RequestStates]
    cmd             \* [Commands -> CommandStates]

vars == <<privilege, role, role_privilege, user, user_role, server, seeding,
          req, cmd>>
tables == <<privilege, role, role_privilege, user, user_role>>

-----------------------------------------------------------------------------
NoRequest == [at |-> "idle", user |-> Unknown, op |-> "role/create",
              name |-> Superuser, asked |-> {}, target |-> Unknown]
NoCommand == [at |-> "idle", user |-> Unknown]

Existing == {p \in Privileges : privilege[p] # Unknown}

ReqAt(r, place) == req[r].at = place
ReqGo(r, place) == req' = [req EXCEPT ![r].at = place, ![r].user = Unknown]
\* The end of a request, or its refusal: the session is closed without a
\* commit.
ReqEnds(r) == req' = [req EXCEPT ![r] = NoRequest]
Answered(r, success) == IF success THEN ReqGo(r, "answered") ELSE ReqEnds(r)

CmdAt(k, place) == cmd[k].at = place
CmdGo(k, place) == cmd' = [cmd EXCEPT ![k].at = place]
CmdEnds(k) == cmd' = [cmd EXCEPT ![k] = NoCommand]

\* Slip: who has no role may do what needs none.
NoRolesAreAllowed(u, op) ==
    LET roles == {n \in RoleNames : <<u, n>> \in user_role}
    IN  roles = {} \/ Superuser \in roles

\* have_privilege: the superuser's role, or one role with the privilege; of
\* two such roles one_or_none makes an error.
HavePrivilege(u, op) ==
    LET roles == {n \in RoleNames : <<u, n>> \in user_role}
    IN  \/ \E n \in roles : role[n] = "superuser"
        \/ Cardinality({n \in roles : op \in role_privilege[n]}) = 1

\* Slip: the ids are compared with none instead of with all.
SomeAreValid(asked) == asked = {} \/ asked \cap Existing # {}

\* _validate_privileges: the digits of those that exist, counted.
Valid(asked) ==
    Cardinality({privilege[p] : p \in asked \cap Existing}) = Cardinality(asked)

Init ==
    /\ privilege = [p \in Privileges |-> Unknown]
    /\ role = [n \in RoleNames |-> "none"]
    /\ role_privilege = [n \in RoleNames |-> {}]
    /\ user = [u \in Users |-> "none"]
    /\ user_role = {}
    /\ server = "down"
    /\ seeding = 1
    /\ req = [r \in Requests |-> NoRequest]
    /\ cmd = [k \in Commands |-> NoCommand]

-----------------------------------------------------------------------------
(***************************************************************************)
(* The server: init_roles_and_privileges, then the requests.               *)
(***************************************************************************)
StartServer ==
    /\ server = "down"
    /\ server' = "privileges"
    /\ UNCHANGED <<tables, seeding, req, cmd>>

\* One missing privilege, with a commit of its own.
SeedPrivilege(p) ==
    /\ server = "privileges"
    /\ privilege[p] = Unknown
    /\ \E d \in Digits : privilege' = [privilege EXCEPT ![p] = d]
    /\ UNCHANGED <<role, role_privilege, user, user_role, server, seeding, req, cmd>>

PrivilegesSeeded ==
    /\ server = "privileges"
    /\ Existing = Privileges
    /\ server' = "role"
    /\ seeding' = 1
    /\ UNCHANGED <<tables, req, cmd>>

\* Slip: a role that was there is taken to have its privileges.
SeedNewRolesOnly ==
    /\ server = "role"
    /\ LET n == DefaultRoles[seeding] IN
       IF role[n] = "none"
       THEN role' = [role EXCEPT ![n] = "other"] /\ server' = "links"
            /\ UNCHANGED seeding
       ELSE /\ seeding' = seeding + 1
            /\ server' = IF seeding = Len(DefaultRoles) THEN "serving" ELSE "role"
            /\ UNCHANGED role
    /\ UNCHANGED <<privilege, role_privilege, user, user_role, req, cmd>>

\* The role, if it is not there, and its commit.
SeedRole ==
    /\ server = "role"
    /\ LET n == DefaultRoles[seeding] IN
       role' = [role EXCEPT ![n] = IF @ = "none" THEN "other" ELSE @]
    /\ server' = "links"
    /\ UNCHANGED <<privilege, role_privilege, user, user_role, seeding, req, cmd>>

\* The old links deleted and the new ones inserted, in one commit.
SeedLinks ==
    /\ server = "links"
    /\ LET n == DefaultRoles[seeding] IN
       role_privilege' =
          [role_privilege EXCEPT ![n] = DefaultsOf(n) \cap Existing]
    /\ IF seeding = Len(DefaultRoles)
       THEN server' = "serving" /\ UNCHANGED seeding
       ELSE server' = "role" /\ seeding' = seeding + 1
    /\ UNCHANGED <<privilege, role, user, user_role, req, cmd>>

CrashServer ==
    /\ server # "down"
    /\ server' = "down"
    /\ seeding' = 1
    /\ req' = [r \in Requests |-> NoRequest]
    /\ UNCHANGED <<tables, cmd>>

-----------------------------------------------------------------------------
(***************************************************************************)
(* The requests.  Their sessions end without a commit, except that of      *)
(* registration and of create_role: what the other four change is in the   *)
(* session, and gone with it once they have answered.                      *)
(***************************************************************************)
Register(u) ==
    /\ server = "serving"
    /\ user[u] = "none"
    /\ user' = [user EXCEPT ![u] = "api"]
    /\ UNCHANGED <<privilege, role, role_privilege, user_role, server, seeding,
                   req, cmd>>

Send(r, u, op, name, asked, target) ==
    /\ server = "serving"
    /\ ReqAt(r, "idle")
    /\ user[u] # "none"
    /\ op \notin {"role/create", "role/change"} => asked = {}
    /\ op \in Reading => name = Superuser
    /\ op \notin Assigning => target = Unknown
    /\ req' = [req EXCEPT ![r] = [at |-> "guard", user |-> u, op |-> op,
                                  name |-> name, asked |-> asked,
                                  target |-> target]]
    /\ UNCHANGED <<tables, server, seeding, cmd>>

\* check_privilege: 401 without the privilege.
Guard(r) ==
    /\ ReqAt(r, "guard")
    /\ IF HavePrivilege(req[r].user, req[r].op)
       THEN ReqGo(r, "handle") ELSE ReqEnds(r)
    /\ UNCHANGED <<tables, server, seeding, cmd>>

Handles(r, op) ==
    /\ ReqAt(r, "handle")
    /\ req[r].op = op
    /\ UNCHANGED <<tables, server, seeding, cmd>>

UserIsThere(u) == u \in Users /\ user[u] # "none"
RoleIsThere(n) == role[n] # "none"

\* 400 for the ids, 404 without the role, 409 when the new name, which is
\* flushed before the answer, is that of another role.
ChangeRole(r) ==
    /\ Handles(r, "role/change")
    /\ \E free \in BOOLEAN :
          Answered(r, Valid(req[r].asked) /\ RoleIsThere(req[r].name) /\ free)

\* No id is unknown to DELETE, and every link goes with its role.
DeleteRole(r) == Handles(r, "role/delete") /\ Answered(r, TRUE)

\* 404 without the user or the role, 409 who has it.
AssignRole(r) ==
    /\ Handles(r, "role/assign")
    /\ Answered(r, /\ UserIsThere(req[r].target)
                   /\ RoleIsThere(req[r].name)
                   /\ <<req[r].target, req[r].name>> \notin user_role)

\* 404 without the user or the role, and 404 who does not have it.
RevokeRole(r) ==
    /\ Handles(r, "role/revoke")
    /\ Answered(r, /\ UserIsThere(req[r].target)
                   /\ RoleIsThere(req[r].name)
                   /\ <<req[r].target, req[r].name>> \in user_role)

\* all_roles, all_roles_user.
ReadRoles(r) == (\E op \in Reading : Handles(r, op)) /\ ReqEnds(r)

ValidatePrivileges(r) ==
    /\ ReqAt(r, "handle")
    /\ req[r].op = "role/create"
    /\ IF Valid(req[r].asked) THEN ReqGo(r, "write") ELSE ReqEnds(r)
    /\ UNCHANGED <<tables, server, seeding, cmd>>

\* The role and its links, in one commit; 409 if the name is taken.
CreateRole(r) ==
    /\ ReqAt(r, "write")
    /\ LET n == req[r].name IN
       /\ IF RoleIsThere(n)
          THEN UNCHANGED <<role, role_privilege>>
          ELSE /\ role' = [role EXCEPT ![n] = "other"]
               /\ role_privilege' =
                     [role_privilege EXCEPT ![n] = req[r].asked \cap Existing]
       /\ Answered(r, ~ RoleIsThere(n))
    /\ UNCHANGED <<privilege, user, user_role, server, seeding, cmd>>

\* The client has its answer.
Finish(r) ==
    /\ ReqAt(r, "answered")
    /\ ReqEnds(r)
    /\ UNCHANGED <<tables, server, seeding, cmd>>

-----------------------------------------------------------------------------
(***************************************************************************)
(* The superuser command: three commits.                                   *)
(***************************************************************************)
StartCommand(k, u) ==
    /\ CmdAt(k, "idle")
    /\ cmd' = [cmd EXCEPT ![k] = [at |-> "role", user |-> u]]
    /\ UNCHANGED <<tables, server, seeding, req>>

\* The role with the superuser's id; if another role has its name, the unique
\* index ends the command.
EnsureSuperuserRole(k) ==
    /\ CmdAt(k, "role")
    /\ IF role[Superuser] = "other"
       THEN CmdEnds(k) /\ UNCHANGED role
       ELSE CmdGo(k, "register") /\ role' = [role EXCEPT ![Superuser] = "superuser"]
    /\ UNCHANGED <<privilege, role_privilege, user, user_role, server, seeding,
                   req>>

\* Slip: the account is not committed.
RegisterAdminUncommitted(k) ==
    /\ CmdAt(k, "register")
    /\ IF user[cmd[k].user] # "none" THEN CmdEnds(k) ELSE CmdGo(k, "assign")
    /\ UNCHANGED <<tables, server, seeding, req>>

\* Slip: who is there already is good enough.
RegisterAdminOrTake(k) ==
    /\ CmdAt(k, "register")
    /\ CmdGo(k, "assign")
    /\ user' = [user EXCEPT ![cmd[k].user] = IF @ = "none" THEN "command" ELSE @]
    /\ UNCHANGED <<privilege, role, role_privilege, user_role, server, seeding,
                   req>>

\* A login that is taken, before the check or after it, ends the command.
RegisterAdmin(k) ==
    /\ CmdAt(k, "register")
    /\ IF user[cmd[k].user] # "none"
       THEN CmdEnds(k) /\ UNCHANGED user
       ELSE /\ CmdGo(k, "assign")
            /\ user' = [user EXCEPT ![cmd[k].user] = "command"]
    /\ UNCHANGED <<privilege, role, role_privilege, user_role, server, seeding,
                   req>>

AssignSuperuserRole(k) ==
    /\ CmdAt(k, "assign")
    /\ user_role' = IF role[Superuser] = "superuser"
                    THEN user_role \cup {<<cmd[k].user, Superuser>>}
                    ELSE user_role
    /\ CmdEnds(k)
    /\ UNCHANGED <<privilege, role, role_privilege, user, server, seeding, req>>

KillCommand(k) ==
    /\ ~ CmdAt(k, "idle")
    /\ CmdEnds(k)
    /\ UNCHANGED <<tables, server, seeding, req>>

Next ==
    \/ StartServer
    \/ \E p \in Privileges : SeedPrivilege(p)
    \/ PrivilegesSeeded
    \/ SeedRole
    \/ SeedLinks
    \/ CrashServer
    \/ \E u \in Users : Register(u)
    \/ \E r \in Requests :
          \/ \E u \in Users, op \in Operations, name \in Names \cup {Superuser},
                asked \in Asks \cup {{}}, target \in Users \cup {Unknown} :
                Send(r, u, op, name, asked, target)
          \/ Guard(r)
          \/ ChangeRole(r) \/ DeleteRole(r)
          \/ AssignRole(r) \/ RevokeRole(r) \/ ReadRoles(r)
          \/ ValidatePrivileges(r)
          \/ CreateRole(r)
          \/ Finish(r)
    \/ \E k \in Commands :
          \/ \E u \in Users : StartCommand(k, u)
          \/ EnsureSuperuserRole(k)
          \/ RegisterAdmin(k)
          \/ AssignSuperuserRole(k)
          \/ KillCommand(k)

Spec == Init /\ [][Next]_vars

-----------------------------------------------------------------------------
(***************************************************************************)
(* Properties                                                              *)
(***************************************************************************)
\* Every variable has its type, and links only rows that are there.
TypeOK ==
    /\ privilege \in [Privileges -> Digits \cup {Unknown}]
    /\ role \in [RoleNames -> {"none", "superuser", "other"}]
    /\ role_privilege \in [RoleNames -> SUBSET Existing]
    /\ user \in [Users -> {"none", "api", "command"}]
    /\ user_role \subseteq Users \X RoleNames
    /\ \A g \in user_role : user[g[1]] # "none" /\ role[g[2]] # "none"
    /\ server \in {"down", "privileges", "role", "links", "serving"}
    /\ seeding \in 1..Len(DefaultRoles)
    /\ req \in [Requests -> RequestStates]
    /\ cmd \in [Commands -> CommandStates]

(***************************************************************************)
(* Whenever the server answers requests, the default privileges and roles  *)
(* are there and linked as they should be, wherever the starts before this *)
(* one ended.                                                              *)
(***************************************************************************)
ServingMeansSeeded ==
    server = "serving" =>
        \A i \in 1..Len(DefaultRoles) : LET n == DefaultRoles[i] IN
            /\ role[n] # "none"
            /\ role_privilege[n] = DefaultsOf(n)

\* What the answer of a request says is in the tables.
Stored(r) ==
    LET q == req[r] IN
    /\ q.op \in {"role/create", "role/change"} =>
          role[q.name] # "none" /\ role_privilege[q.name] = q.asked
    /\ q.op = "role/delete" => role[q.name] = "none"
    /\ q.op = "role/assign" => <<q.target, q.name>> \in user_role
    /\ q.op = "role/revoke" => <<q.target, q.name>> \notin user_role

Answers(r) == ~ ReqAt(r, "answered") /\ ReqAt(r, "answered")'

\* Whoever is answered that a role was made finds it there with all the
\* privileges that were asked for and no others, whatever the digits of the
\* ids are and whoever else asks for the same name.
CreatedIsStored ==
    [][\A r \in Requests :
          Answers(r) /\ req[r].op = "role/create" => Stored(r)']_vars

\* Whoever is answered success, by any operation on roles, finds it done: so
\* the diagrams of auth_role.wsd and the answers of role.py say.
AnsweredIsStored ==
    [][\A r \in Requests : Answers(r) => Stored(r)']_vars

(***************************************************************************)
(* The command gives the superuser's role to no account but one it made,   *)
(* whoever registers its login while it runs and wherever commands before  *)
(* it ended.                                                               *)
(***************************************************************************)
CommandPromotesItsOwn ==
    [][\A k \in Commands :
          AssignSuperuserRole(k) => user[cmd[k].user] = "command"]_vars

(***************************************************************************)
(* Nobody can take the name of the superuser's role, which would make      *)
(* every later command fail, before the first command has made it.         *)
(***************************************************************************)
SuperuserNameIsReserved == role[Superuser] # "other"
=============================================================================
