----------------------------- MODULE AdminLogin -----------------------------
(***************************************************************************)
(* CustomBackend of movies_admin on top of the accounts of auth_service:   *)
(* the admin site has a table of users of its own, and an entrance that    *)
(* auth_service confirms copies the account into it.  The entrypoint gives *)
(* that table a superuser of its own, who is in no other table.            *)
(***************************************************************************)
EXTENDS AuthAccounts

CONSTANTS
    Blank,         \* the login of a row that get_or_create has just made
    Superuser,     \* the login of createsuperuser
    LocalPassword  \* its password

ASSUME BlankAssumption == Blank \notin Logins \cup {None}
ASSUME SuperuserAssumption == Superuser \in Names /\ LocalPassword \in Nat \ {0}

\* Rows of the admin's table: by account, and the superuser's.
Local == 0
Rows == {Local} \cup Accounts

VARIABLES
    mirror,   \* the admin's table: [Rows -> its login there], None: no row
    entry     \* [Clients -> EntryStates], an authenticate in progress

EntryStates ==
    [at : {"idle", "create", "save", "out"},
     account : 0..MaxAccounts,
     login : Logins \cup {None}]

vars == <<accountVars, mirror, entry>>

-----------------------------------------------------------------------------
NoEntry == [at |-> "idle", account |-> 0, login |-> None]

EntryAt(c, place) == entry[c].at = place
EntryGo(c, place) == entry' = [entry EXCEPT ![c].at = place]
EntryEnds(c, place) == entry' = [entry EXCEPT ![c] = [NoEntry EXCEPT !.at = place]]

\* The unique login of the admin's table.
Clash(i, login) == \E j \in Rows \ {i} : mirror[j] = login

AdminInit ==
    /\ Init
    /\ mirror = [i \in Rows |-> None]
    /\ entry = [c \in Clients |-> NoEntry]

\* createsuperuser of the entrypoint, before the site answers anybody: a
\* login that is taken ends the command and not the entrypoint.
CreateSuperuser ==
    /\ \A c \in Clients : EntryAt(c, "idle")
    /\ mirror[Local] = None
    /\ ~ Clash(Local, Superuser)
    /\ mirror' = [mirror EXCEPT ![Local] = Superuser]
    /\ UNCHANGED <<accountVars, entry>>

\* What a client may type: what it knows of its account, or has been told.
Typed(c) == {[login |-> known[c].login, password |-> known[c].password],
             [login |-> Superuser, password |-> LocalPassword]}

\* The row found by login is asked first.  The superuser's is the one that
\* has a password; all others send the credentials to auth_service, which
\* tells the account in a token.
Authenticate(c) ==
    /\ EntryAt(c, "idle")
    /\ \E typed \in Typed(c) :
          /\ typed.password # 0
          /\ IF mirror[Local] = typed.login /\ typed.password = LocalPassword
             THEN UNCHANGED entry
             ELSE \E i \in 1..made :
                    /\ users[i] = typed
                    /\ entry' = [entry EXCEPT ![c] =
                                    [at |-> "create", account |-> i,
                                     login |-> typed.login]]
    /\ UNCHANGED <<accountVars, mirror>>

\* Slip: a user who has been here before is not let in.
GetOrCreateNewOnly(c) ==
    /\ EntryAt(c, "create")
    /\ LET i == entry[c].account IN
       IF mirror[i] # None \/ Clash(i, Blank)
       THEN EntryEnds(c, "out") /\ UNCHANGED mirror
       ELSE EntryGo(c, "save") /\ mirror' = [mirror EXCEPT ![i] = Blank]
    /\ UNCHANGED accountVars

\* get_or_create by the id, with no login yet; a second row without a login
\* is refused by the database, and so is the user.
GetOrCreate(c) ==
    /\ EntryAt(c, "create")
    /\ LET i == entry[c].account IN
       \/ mirror[i] # None /\ EntryGo(c, "save") /\ UNCHANGED mirror
       \/ /\ mirror[i] = None
          /\ Clash(i, Blank)
          /\ EntryEnds(c, "out")
          /\ UNCHANGED mirror
       \/ /\ mirror[i] = None
          /\ ~ Clash(i, Blank)
          /\ EntryGo(c, "save")
          /\ mirror' = [mirror EXCEPT ![i] = Blank]
    /\ UNCHANGED accountVars

\* user.save(): the login the user has typed, if no other row has it.
SaveUser(c) ==
    /\ EntryAt(c, "save")
    /\ IF Clash(entry[c].account, entry[c].login)
       THEN EntryEnds(c, "out") /\ UNCHANGED mirror
       ELSE /\ EntryEnds(c, "idle")
            /\ mirror' = [mirror EXCEPT ![entry[c].account] = entry[c].login]
    /\ UNCHANGED accountVars

\* The page has been answered, or the worker has ended on the way.
EndEntry(c) ==
    /\ ~ EntryAt(c, "idle")
    /\ entry' = [entry EXCEPT ![c] = NoEntry]
    /\ UNCHANGED <<accountVars, mirror>>

Next ==
    \/ AccountNext /\ UNCHANGED <<mirror, entry>>
    \/ CreateSuperuser
    \/ \E c \in Clients :
          \/ Authenticate(c)
          \/ GetOrCreate(c)
          \/ SaveUser(c)
          \/ EndEntry(c)

Spec == AdminInit /\ [][Next]_vars

-----------------------------------------------------------------------------
\* Every variable has its type.
AdminTypeOK ==
    /\ TypeOK
    /\ mirror \in [Rows -> Logins \cup {None, Blank}]
    /\ entry \in [Clients -> EntryStates]

(***************************************************************************)
(* Whom auth_service has confirmed is kept out of the admin site only by   *)
(* another's row: that of the site's own superuser, whose login the        *)
(* account has; one that is not up to date, which an entrance left without *)
(* a login or with one that its account has given up since; or because the *)
(* login has changed hands during the entrance.                            *)
(***************************************************************************)
OutOfDate(j) == mirror[j] \notin {None, users[j].login}

KeptOutOnlyByAnotherRow ==
    [][\A c \in Clients :
          ~ EntryAt(c, "out") /\ EntryAt(c, "out")' =>
              \/ mirror[Local] = entry[c].login
              \/ \E j \in Accounts \ {entry[c].account} : OutOfDate(j)
              \/ users[entry[c].account].login # entry[c].login]_vars
=============================================================================
