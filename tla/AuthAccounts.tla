---------------------------- MODULE AuthAccounts ----------------------------
(***************************************************************************)
(* The accounts of auth_service: registration, the change of login and of  *)
(* password, the unlinking of a provider and the entrance by a provider.   *)
(* Every handler checks in one query and writes in a transaction of its    *)
(* own, and gives way in between.                                          *)
(*                                                                         *)
(* Accounts and passwords are named by the order they are made in; 0 is    *)
(* none.  The email a provider vouches for is named as its client, and     *)
(* like any other text it is a login that everybody may type.              *)
(***************************************************************************)
EXTENDS Integers, FiniteSets

CONSTANTS
    Clients,
    Vouched,       \* clients who may come from a provider
    Names,         \* logins people think of
    Requests,      \* requests that may be in flight together
    None,          \* no client, no login
    MaxAccounts,   \* bound: accounts
    MaxPasswords   \* bound: passwords

ASSUME NamesAssumption ==
    /\ Vouched \subseteq Clients
    /\ Clients \cap Names = {}
    /\ None \notin Clients \cup Names
ASSUME BoundsAssumption == MaxAccounts \in Nat /\ MaxPasswords \in Nat

Logins == Vouched \cup Names
Accounts == 1..MaxAccounts
Passwords == 0..MaxPasswords

Operations == {"register", "change_login", "change_password", "unlink",
               "provider"}

\* What a request or its answer is about.
RequestStates ==
    [at : {"idle", "check", "write", "reply"},
     op : Operations,
     client : Clients \cup {None},
     account : 0..MaxAccounts,
     login : Logins \cup {None},
     old : Passwords,
     new : Passwords]

\* What a client takes to be its account and its credentials.
Beliefs == [account : 0..MaxAccounts, login : Logins \cup {None},
            password : Passwords]

VARIABLES
    users,      \* table user: [Accounts -> [login, password]]
    made,       \* number of accounts
    passwords,  \* number of passwords thought of or generated
    req,        \* [Requests -> RequestStates]
    known,      \* [Clients -> Beliefs]
    disturbed,  \* clients that had two requests in flight or lost an answer
                \* (history)
    visitors    \* [Accounts -> clients that made it or were let into it by a
                \* provider] (history)

accountVars == <<users, made, passwords, req, known, disturbed, visitors>>

-----------------------------------------------------------------------------
NoUser == [login |-> None, password |-> 0]
NoRequest == [at |-> "idle", op |-> "register", client |-> None, account |-> 0,
              login |-> None, old |-> 0, new |-> 0]

At(r, place) == req[r].at = place

InFlight(c) == {r \in Requests : ~ At(r, "idle") /\ req[r].client = c}

Holder(login) == {i \in 1..made : users[i].login = login}

\* Slip: the column is not unique.
NobodyTakes(login) == FALSE

\* The unique index on login: IntegrityError.
Taken(login) == Holder(login) # {}

\* 400, 404, 409, 500: nothing is committed, and the client learns nothing.
Refuse(r) == req' = [req EXCEPT ![r] = NoRequest]

Proceed(r) == req' = [req EXCEPT ![r].at = "write"]

Init ==
    /\ users = [i \in Accounts |-> NoUser]
    /\ made = 0
    /\ passwords = 0
    /\ req = [r \in Requests |-> NoRequest]
    /\ known = [c \in Clients |-> [account |-> 0, login |-> None, password |-> 0]]
    /\ disturbed = {}
    /\ visitors = [i \in Accounts |-> {}]

-----------------------------------------------------------------------------
(***************************************************************************)
(* The clients (external).  The account of a request is that of the access *)
(* token, which the guard checks.                                          *)
(***************************************************************************)
Send(r, c, op, login) ==
    /\ At(r, "idle")
    /\ CASE op = "register" -> login \in Logins
         [] op = "provider" -> c \in Vouched /\ login = c
         [] op = "change_login" -> login \in Logins /\ known[c].account # 0
         [] op \in {"change_password", "unlink"} ->
              login = None /\ known[c].account # 0
    /\ passwords' = IF op = "change_login" THEN passwords ELSE passwords + 1
    /\ passwords' <= MaxPasswords
    /\ req' = [req EXCEPT ![r] = [at |-> "check", op |-> op, client |-> c,
                                  account |-> IF op \in {"register", "provider"}
                                              THEN 0 ELSE known[c].account,
                                  login |-> login,
                                  old |-> IF op = "change_password"
                                          THEN known[c].password ELSE 0,
                                  new |-> passwords']]
    /\ disturbed' = IF InFlight(c) = {} THEN disturbed ELSE disturbed \cup {c}
    /\ UNCHANGED <<users, made, known, visitors>>

\* The client learns of its account and its credentials.  A password made up
\* for a provider's user is told to nobody.
Receive(r) ==
    /\ At(r, "reply")
    /\ LET a == req[r] IN
       known' = [known EXCEPT ![a.client] =
                   CASE a.op = "register" ->
                          [account |-> a.account, login |-> a.login,
                           password |-> a.new]
                     [] a.op = "provider" ->
                          [account |-> a.account, login |-> a.login,
                           password |-> IF @.account = a.account
                                        THEN @.password ELSE 0]
                     [] a.op = "change_login" -> [@ EXCEPT !.login = a.login]
                     [] a.op = "change_password" -> [@ EXCEPT !.password = a.new]
                     [] a.op = "unlink" -> [@ EXCEPT !.login = a.login,
                                                     !.password = a.new]]
    /\ Refuse(r)
    /\ UNCHANGED <<users, made, passwords, disturbed, visitors>>

\* The worker ends or the answer does not arrive: what is committed stays.
Abort(r) ==
    /\ ~ At(r, "idle")
    /\ disturbed' = disturbed \cup {req[r].client}
    /\ Refuse(r)
    /\ UNCHANGED <<users, made, passwords, known, visitors>>

(***************************************************************************)
(* register_user, external_provider_auth and change_login look for the     *)
(* login first.  Who comes from a provider enters an account there is,     *)
(* whoever made it.                                                        *)
(***************************************************************************)
CheckLogin(r) ==
    /\ At(r, "check")
    /\ req[r].op \in {"register", "change_login"}
    /\ IF Holder(req[r].login) # {} THEN Refuse(r) ELSE Proceed(r)
    /\ UNCHANGED <<users, made, passwords, known, disturbed, visitors>>

FindProviderUser(r) ==
    /\ At(r, "check")
    /\ req[r].op = "provider"
    /\ \/ /\ Holder(req[r].login) = {}
          /\ Proceed(r)
          /\ UNCHANGED visitors
       \/ \E i \in Holder(req[r].login) :
             /\ req' = [req EXCEPT ![r].at = "reply", ![r].account = i]
             /\ visitors' = [visitors EXCEPT ![i] = @ \cup {req[r].client}]
    /\ UNCHANGED <<users, made, passwords, known, disturbed>>

\* Slip: add_object does not commit; the id is answered all the same.
InsertUserUncommitted(r) ==
    /\ At(r, "write")
    /\ req[r].op \in {"register", "provider"}
    /\ made < MaxAccounts
    /\ made' = made + 1
    /\ req' = [req EXCEPT ![r].at = "reply", ![r].account = made']
    /\ visitors' = [visitors EXCEPT ![made'] = {req[r].client}]
    /\ UNCHANGED <<users, passwords, known, disturbed>>

\* For a provider's user the login is looked up once more before, which
\* refuses no other requests than the index.
InsertUser(r) ==
    /\ At(r, "write")
    /\ req[r].op \in {"register", "provider"}
    /\ IF Taken(req[r].login)
       THEN /\ Refuse(r)
            /\ UNCHANGED <<users, made, visitors>>
       ELSE /\ made < MaxAccounts
            /\ made' = made + 1
            /\ users' = [users EXCEPT ![made'] = [login |-> req[r].login,
                                                  password |-> req[r].new]]
            /\ visitors' = [visitors EXCEPT ![made'] = {req[r].client}]
            /\ req' = [req EXCEPT ![r].at = "reply", ![r].account = made']
    /\ UNCHANGED <<passwords, known, disturbed>>

ChangeLogin(r) ==
    /\ At(r, "write")
    /\ req[r].op = "change_login"
    /\ IF Taken(req[r].login)
       THEN /\ Refuse(r)
            /\ UNCHANGED users
       ELSE /\ users' = [users EXCEPT ![req[r].account].login = req[r].login]
            /\ req' = [req EXCEPT ![r].at = "reply"]
    /\ UNCHANGED <<made, passwords, known, disturbed, visitors>>

\* change_password: the hash is read and verified.
VerifyPassword(r) ==
    /\ At(r, "check")
    /\ req[r].op = "change_password"
    /\ IF users[req[r].account].password = req[r].old
       THEN Proceed(r) ELSE Refuse(r)
    /\ UNCHANGED <<users, made, passwords, known, disturbed, visitors>>

\* user_unlink: the login it will answer is read here.
ReadProfile(r) ==
    /\ At(r, "check")
    /\ req[r].op = "unlink"
    /\ req' = [req EXCEPT ![r].at = "write",
                          ![r].login = users[req[r].account].login]
    /\ UNCHANGED <<users, made, passwords, known, disturbed, visitors>>

\* Slip: change_password of AuthEngine does not commit.
ChangePasswordUncommitted(r) ==
    /\ At(r, "write")
    /\ req[r].op \in {"change_password", "unlink"}
    /\ req' = [req EXCEPT ![r].at = "reply"]
    /\ UNCHANGED <<users, made, passwords, known, disturbed, visitors>>

\* Whatever the password is by now.
ChangePassword(r) ==
    /\ At(r, "write")
    /\ req[r].op \in {"change_password", "unlink"}
    /\ users' = [users EXCEPT ![req[r].account].password = req[r].new]
    /\ req' = [req EXCEPT ![r].at = "reply"]
    /\ UNCHANGED <<made, passwords, known, disturbed, visitors>>

-----------------------------------------------------------------------------
AccountNext ==
    \E r \in Requests :
        \/ \E c \in Clients, op \in Operations, login \in Logins \cup {None} :
              Send(r, c, op, login)
        \/ Receive(r)
        \/ Abort(r)
        \/ CheckLogin(r)
        \/ FindProviderUser(r)
        \/ InsertUser(r)
        \/ ChangeLogin(r)
        \/ VerifyPassword(r)
        \/ ReadProfile(r)
        \/ ChangePassword(r)

AccountSpec == Init /\ [][AccountNext]_accountVars

-----------------------------------------------------------------------------
(***************************************************************************)
(* Properties                                                              *)
(***************************************************************************)
\* Every variable has its type.
TypeOK ==
    /\ users \in [Accounts -> [login : Logins \cup {None}, password : Passwords]]
    /\ \A i \in Accounts : users[i].login = None <=> i > made
    /\ made \in 0..MaxAccounts
    /\ passwords \in Passwords
    /\ req \in [Requests -> RequestStates]
    /\ known \in [Clients -> Beliefs]
    /\ disturbed \subseteq Clients
    /\ visitors \in [Accounts -> SUBSET Clients]

(***************************************************************************)
(* Requests that all found a login free, to register with it, to enter     *)
(* with it or to change to it, do not end up with two accounts of it.      *)
(***************************************************************************)
OneAccountPerLogin ==
    \A i, j \in 1..made : users[i].login = users[j].login => i = j

(***************************************************************************)
(* Who sends one request at a time, gets every answer and has an account   *)
(* into which no provider ever let anybody else knows its login, and the   *)
(* password if any was ever told: refused changes leave no trace, the      *)
(* password a handler makes up is the one stored, and what others do with  *)
(* the same logins changes nothing.                                        *)
(***************************************************************************)
SequentialOwnerKnowsCredentials ==
    \A c \in Clients :
        /\ c \notin disturbed /\ InFlight(c) = {}
        /\ known[c].account # 0 /\ visitors[known[c].account] = {c}
        =>  /\ users[known[c].account].login = known[c].login
            /\ known[c].password \in {0, users[known[c].account].password}
=============================================================================
