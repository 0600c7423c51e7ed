----------------------------- MODULE AuthTokens -----------------------------
(***************************************************************************)
(* Sessions in auth_service: the refresh tokens in Postgres, the pair of   *)
(* tokens in each client's cookies, and the requests that enter, exchange  *)
(* the refresh token for a new pair, pass the guard of the other endpoints *)
(* or exit.  A request runs as a coroutine and gives way at every await;   *)
(* each action is what it does between two commits.                        *)
(*                                                                         *)
(* A refresh token is a uuid4, named here by the order of issue; 0 is no   *)
(* token.  Of an access token only its expiry matters; 0 is no cookie.     *)
(***************************************************************************)
EXTENDS Integers, FiniteSets

CONSTANTS
    Clients,     \* browsers, each signed in as a user of its own
    Requests,    \* requests that may be in flight together
    Nobody,      \* no client
    AccessLife,  \* settings.access_token_expires_in
    MaxTokens,   \* bound: refresh tokens issued
    MaxTime      \* bound: the clock

ASSUME ClientsAssumption == Nobody \notin Clients
ASSUME LifeAssumption == AccessLife \in Nat \ {0}
ASSUME BoundsAssumption ==
    /\ MaxTokens \in Nat
    /\ MaxTime \in Nat \ {0}

Tokens == 1..MaxTokens
Expiries == 0..(MaxTime + AccessLife)
Cookies == [access : Expiries, refresh : Tokens \cup {0}]

\* "guarded" stands for every endpoint behind check_access_token but exit.
Operations == {"enter", "update_access", "guarded", "exit"}

Places == {"idle", "verify", "record", "read", "delete", "mint", "guard",
           "compare", "call", "reply"}

RequestStates ==
    [at : Places,
     op : Operations,
     client : Clients \cup {Nobody},
     sent : Cookies,                           \* the cookies it came with
     made : Cookies,                           \* the pair it has made
     reply : {"plain", "tokens", "clear"}]     \* what its answer does to them

VARIABLES
    time,
    rows,       \* table refresh_token
    owner,      \* user_id of the row, for every token ever issued
    history,    \* table history: the tokens of the entrances recorded
    issued,     \* number of refresh tokens issued
    cookies,    \* [Clients -> Cookies]
    req,        \* [Requests -> RequestStates]
    (* The rest only says what has happened. *)
    origin,     \* the token that was exchanged for a token, 0: an entrance
    shared,     \* tokens two requests have held at once
    disturbed   \* clients that had two requests in flight at once, a request
                \* that failed or an answer that got lost, or a token that
                \* the guard exchanged

table == <<rows, owner, issued, origin>>
vars == <<time, rows, owner, history, issued, cookies, req, origin, shared,
          disturbed>>

-----------------------------------------------------------------------------
NoCookies == [access |-> 0, refresh |-> 0]

NoRequest == [at |-> "idle", op |-> "enter", client |-> Nobody,
              sent |-> NoCookies, made |-> NoCookies, reply |-> "plain"]

At(r, place) == req[r].at = place
Go(r, place) == req' = [req EXCEPT ![r].at = place]

\* All that is left of a request is the answer on its way to the client.
Reply(r, reply, pair) ==
    [NoRequest EXCEPT !.at = "reply", !.client = req[r].client,
                      !.reply = reply, !.made = pair]
Answer(r, reply, pair) == req' = [req EXCEPT ![r] = Reply(r, reply, pair)]

InFlight(c) == {r \in Requests : ~ At(r, "idle") /\ req[r].client = c}

\* A request holds the token it has read until it has made another.
Holds(r, t) == req[r].at \in {"delete", "mint"} /\ req[r].sent.refresh = t

\* jwt.decode accepts a token up to and including the second of its expiry.
Expired(access) == access < time

\* Slip: minutes taken for seconds.
FreshAccessInMinutes == time + 60 * AccessLife

FreshAccess == time + AccessLife

FirstPlace(op) ==
    CASE op = "enter" -> "verify"
      [] op = "update_access" -> "read"
      [] op \in {"guarded", "exit"} -> "guard"

\* Of the cookies a browser sends, those the endpoint looks at.
Looked(op, jar) ==
    CASE op = "enter" -> NoCookies
      [] op = "update_access" -> [jar EXCEPT !.access = 0]
      [] op \in {"guarded", "exit"} -> jar

\* create_access_token and create_refresh_token, which commits: a pair for the
\* user, in exchange for a token or for a password (0).
NewPair == [access |-> FreshAccess, refresh |-> issued + 1]

IssueToken(user, exchanged) ==
    /\ issued < MaxTokens
    /\ issued' = issued + 1
    /\ rows' = rows \cup {issued'}
    /\ owner' = [owner EXCEPT ![issued'] = user]
    /\ origin' = [origin EXCEPT ![issued'] = exchanged]

-----------------------------------------------------------------------------
Init ==
    /\ time = 1
    /\ rows = {}
    /\ owner = [t \in Tokens |-> Nobody]
    /\ history = {}
    /\ issued = 0
    /\ cookies = [c \in Clients |-> NoCookies]
    /\ req = [r \in Requests |-> NoRequest]
    /\ origin = [t \in Tokens |-> 0]
    /\ shared = {}
    /\ disturbed = {}

(***************************************************************************)
(* The clients (external).                                                 *)
(***************************************************************************)
Tick ==
    /\ time < MaxTime
    /\ time' = time + 1
    /\ UNCHANGED <<table, history, cookies, req, shared, disturbed>>

\* A browser sends the cookies it has; nothing keeps it from sending a
\* request before the answer to the last one.
Send(r, c, op) ==
    /\ At(r, "idle")
    /\ req' = [req EXCEPT ![r] = [NoRequest EXCEPT !.at = FirstPlace(op),
                                                   !.op = op,
                                                   !.client = c,
                                                   !.sent = Looked(op, cookies[c])]]
    /\ disturbed' = IF InFlight(c) = {} THEN disturbed ELSE disturbed \cup {c}
    /\ UNCHANGED <<time, table, history, cookies, shared>>

\* The lifetime of a cookie has run out, by the clock of the browser.
Forget(c, name) ==
    /\ cookies' = [cookies EXCEPT ![c][name] = 0]
    /\ UNCHANGED <<time, table, history, req, shared, disturbed>>

\* The answer arrives with its Set-Cookie headers, in whatever order.
Receive(r) ==
    /\ At(r, "reply")
    /\ cookies' = CASE req[r].reply = "plain" -> cookies
                    [] req[r].reply = "tokens" ->
                        [cookies EXCEPT ![req[r].client] = req[r].made]
                    [] req[r].reply = "clear" ->
                        [cookies EXCEPT ![req[r].client] = NoCookies]
    /\ req' = [req EXCEPT ![r] = NoRequest]
    /\ UNCHANGED <<time, table, history, shared, disturbed>>

\* A commit fails, the worker ends, or the answer never arrives: what has
\* been committed stays, the client keeps the cookies it has.
Abort(r) ==
    /\ ~ At(r, "idle")
    /\ disturbed' = disturbed \cup {req[r].client}
    /\ req' = [req EXCEPT ![r] = NoRequest]
    /\ UNCHANGED <<time, table, history, cookies, shared>>

(***************************************************************************)
(* Entering: enter_user and _enter_verified_user, with external_provider_  *)
(* auth for a user there is.  The refresh token and the history entry are  *)
(* committed one after the other.                                          *)
(***************************************************************************)
EnterRefused(r) ==
    /\ At(r, "verify")
    /\ Answer(r, "plain", NoCookies)
    /\ UNCHANGED <<time, table, history, cookies, shared, disturbed>>

\* Slip: the entrance is answered without its history entry.
EnterVerifiedUnrecorded(r) ==
    /\ At(r, "verify")
    /\ IssueToken(req[r].client, 0)
    /\ Answer(r, "tokens", NewPair)
    /\ UNCHANGED <<time, history, cookies, shared, disturbed>>

EnterVerified(r) ==
    /\ At(r, "verify")
    /\ IssueToken(req[r].client, 0)
    /\ req' = [req EXCEPT ![r].at = "record", ![r].made = NewPair]
    /\ UNCHANGED <<time, history, cookies, shared, disturbed>>

EnterRecorded(r) ==
    /\ At(r, "record")
    /\ history' = history \cup {req[r].made.refresh}
    /\ Answer(r, "tokens", req[r].made)
    /\ UNCHANGED <<time, table, cookies, shared, disturbed>>

(***************************************************************************)
(* user_update_access: the row of the token is read, deleted and committed,*)
(* and a new pair is made and committed.  The lifetime of the row (column  *)
(* expired) is never looked at.                                            *)
(***************************************************************************)
UpdateRead(r) ==
    /\ At(r, "read")
    /\ IF req[r].sent.refresh \in rows
       THEN /\ Go(r, "delete")
            /\ shared' = IF \E s \in Requests : Holds(s, req[r].sent.refresh)
                         THEN shared \cup {req[r].sent.refresh} ELSE shared
       ELSE /\ Answer(r, "plain", NoCookies)
            /\ UNCHANGED shared
    /\ UNCHANGED <<time, table, history, cookies, disturbed>>

\* Slip: the deletion is never committed.
UpdateDeleteUncommitted(r) ==
    /\ At(r, "delete")
    /\ Go(r, "mint")
    /\ UNCHANGED <<time, table, history, cookies, shared, disturbed>>

\* Deleting a row that another request has deleted is a warning only.
UpdateDelete(r) ==
    /\ At(r, "delete")
    /\ rows' = rows \ {req[r].sent.refresh}
    /\ Go(r, "mint")
    /\ UNCHANGED <<time, owner, issued, origin, history, cookies, shared,
                   disturbed>>

\* Slip: the endpoint too sets the cookies on a response nobody sends.
UpdateMintUnsent(r) ==
    /\ At(r, "mint")
    /\ IssueToken(owner[req[r].sent.refresh], req[r].sent.refresh)
    /\ IF req[r].op = "update_access"
       THEN /\ Answer(r, "plain", NoCookies)
            /\ UNCHANGED disturbed
       ELSE /\ Go(r, "call")
            /\ disturbed' = disturbed \cup {req[r].client}
    /\ UNCHANGED <<time, history, cookies, shared>>

\* For the endpoint itself the pair goes into its answer; the guard of
\* another endpoint puts it into a Response of its own that nobody sends.
UpdateMint(r) ==
    /\ At(r, "mint")
    /\ IssueToken(owner[req[r].sent.refresh], req[r].sent.refresh)
    /\ IF req[r].op = "update_access"
       THEN /\ Answer(r, "tokens", NewPair)
            /\ UNCHANGED disturbed
       ELSE /\ Go(r, "call")
            /\ disturbed' = disturbed \cup {req[r].client}
    /\ UNCHANGED <<time, history, cookies, shared>>

(***************************************************************************)
(* check_access_token: a missing cookie is refused; decoding an expired    *)
(* token yields None, and None < int raises TypeError.  Only a token that  *)
(* expires between the decoding and the comparison is exchanged.           *)
(***************************************************************************)
Guard(r) ==
    /\ At(r, "guard")
    /\ IF \/ req[r].sent.access = 0
          \/ req[r].sent.refresh = 0
          \/ Expired(req[r].sent.access)
       THEN Answer(r, "plain", NoCookies)
       ELSE Go(r, "compare")
    /\ UNCHANGED <<time, table, history, cookies, shared, disturbed>>

Compare(r) ==
    /\ At(r, "compare")
    /\ Go(r, IF Expired(req[r].sent.access) THEN "read" ELSE "call")
    /\ UNCHANGED <<time, table, history, cookies, shared, disturbed>>

\* The endpoint: exit_user deletes the cookies and leaves the row; the others
\* answer something, or are refused by check_privilege if the token of the
\* request has expired by now.
Call(r) ==
    /\ At(r, "call")
    /\ Answer(r, IF req[r].op = "exit" THEN "clear" ELSE "plain", NoCookies)
    /\ UNCHANGED <<time, table, history, cookies, shared, disturbed>>

-----------------------------------------------------------------------------
Next ==
    \/ Tick
    \/ \E r \in Requests, c \in Clients, op \in Operations : Send(r, c, op)
    \/ \E c \in Clients, name \in {"access", "refresh"} : Forget(c, name)
    \/ \E r \in Requests :
          \/ Receive(r)
          \/ Abort(r)
          \/ EnterRefused(r)
          \/ EnterVerified(r)
          \/ EnterRecorded(r)
          \/ UpdateRead(r)
          \/ UpdateDelete(r)
          \/ UpdateMint(r)
          \/ Guard(r)
          \/ Compare(r)
          \/ Call(r)

Spec == Init /\ [][Next]_vars

-----------------------------------------------------------------------------
(***************************************************************************)
(* Properties                                                              *)
(***************************************************************************)
\* Every variable has its type, and the counters keep their bounds.
TypeOK ==
    /\ time \in 1..MaxTime
    /\ issued \in 0..MaxTokens
    /\ rows \subseteq 1..issued
    /\ owner \in [Tokens -> Clients \cup {Nobody}]
    /\ history \subseteq 1..issued
    /\ cookies \in [Clients -> Cookies]
    /\ req \in [Requests -> RequestStates]
    /\ origin \in [Tokens -> 0..issued]
    /\ shared \subseteq Tokens
    /\ disturbed \subseteq Clients

(***************************************************************************)
(* A refresh token buys one pair.  user_update_access reads and deletes it *)
(* in two transactions, so only requests that hold it at the same time can *)
(* each get a pair for it; one that comes after the deletion cannot,       *)
(* however many entrances, exchanges and failures lie in between.          *)
(***************************************************************************)
OnePairPerToken ==
    \A t, u \in 1..issued :
        t # u /\ origin[t] = origin[u] /\ origin[t] # 0 => origin[t] \in shared

(***************************************************************************)
(* Whoever sends one request at a time, loses no answer and meets no       *)
(* failure keeps a refresh token the database knows, unless the guard      *)
(* exchanged it: every exchange that deletes the row brings the cookie.    *)
(***************************************************************************)
SequentialClientKeepsSession ==
    \A c \in Clients :
        c \notin disturbed /\ InFlight(c) = {}
            => cookies[c].refresh \in rows \cup {0}

(***************************************************************************)
(* The service acts as AuthSessions asks.  A client is told of no token    *)
(* before its entrance is in the history, although token and entry are     *)
(* committed separately, and of no other user's; whoever gets a pair for a *)
(* token had seen its row, and the row is gone by then, although reading,  *)
(* deleting and minting are transactions of their own.                     *)
(***************************************************************************)
Held(q) == IF q.at \in {"delete", "mint"} THEN q.sent.refresh ELSE 0

Sessions ==
    INSTANCE AuthSessions
        WITH Holders <- Requests, None <- 0, valid <- rows, recorded <- history,
             held <- [r \in Requests |-> Held(req[r])],
             told <- [c \in Clients |-> cookies[c].refresh]

ActsAsSessions == Sessions!Spec

(***************************************************************************)
(* What the comments of check_access_token say, lines 46 and 48: if the    *)
(* access token has expired, it is refreshed.                              *)
(***************************************************************************)
ExpiredIsRefreshed ==
    [][\A r \in Requests :
          /\ At(r, "guard")
          /\ req[r].sent.access # 0 /\ Expired(req[r].sent.access)
          /\ req[r].sent.refresh \in rows
          => ~ At(r, "reply")']_vars
=============================================================================
