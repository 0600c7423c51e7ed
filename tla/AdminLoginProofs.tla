-------------------------- MODULE AdminLoginProofs --------------------------
(***************************************************************************)
(* Proofs about AuthAccounts and AdminLogin, for any clients, logins and   *)
(* requests and any bounds.                                                *)
(***************************************************************************)
EXTENDS AdminLogin, TLAPS

USE NamesAssumption, BoundsAssumption

Changes == {"change_login", "change_password", "unlink"}

\* Of a request, when there are m accounts.
ReqOK(q, m) ==
    /\ q.account \in 0..m
    /\ q.at # "idle" =>
          /\ q.client \in Clients
          /\ q.op \in {"register", "change_login", "provider"} => q.login \in Logins
          /\ q.op \in Changes \/ q.at = "reply" => q.account # 0

ReqInv ==
    /\ \A r \in Requests : ReqOK(req[r], made)
    /\ \A c \in Clients : known[c].account \in 0..made

\* Who has to do with an account has made it or entered it by a provider.
Touches(c, i) ==
    \/ known[c].account = i
    \/ \E r \in Requests :
          ~ At(r, "idle") /\ req[r].client = c /\ req[r].account = i

VisitInv == \A c \in Clients : \A i \in 1..made : Touches(c, i) => c \in visitors[i]

\* What client c's belief b says is so in the users u, if by v nobody else
\* was ever let into the account.
Good(c, b, u, v) ==
    b.account # 0 /\ v[b.account] = {c} =>
       /\ u[b.account].login = b.login
       /\ b.password \in {0, u[b.account].password}

\* What a client that believes b believes after the answer q.
Learned(b, q) ==
    CASE q.op = "register" ->
           [account |-> q.account, login |-> q.login, password |-> q.new]
      [] q.op = "provider" ->
           [account |-> q.account, login |-> q.login,
            password |-> IF b.account = q.account THEN b.password ELSE 0]
      [] q.op = "change_login" -> [b EXCEPT !.login = q.login]
      [] q.op = "change_password" -> [b EXCEPT !.password = q.new]
      [] q.op = "unlink" -> [b EXCEPT !.login = q.login, !.password = q.new]

\* Of the only request of client c, which believes b.
OwnOK(c, b, q, u, v) ==
    /\ q.at = "reply" => Good(c, Learned(b, q), u, v)
    /\ q.at # "reply" => Good(c, b, u, v)
    /\ q.at # "idle" /\ q.op \in Changes => q.account = b.account
    /\ q.at = "write" /\ q.op = "unlink" /\ v[q.account] = {c} =>
          q.login = u[q.account].login

SeqInv ==
    \A c \in Clients \ disturbed :
        /\ \A r, s \in InFlight(c) : r = s
        /\ \A r \in InFlight(c) : OwnOK(c, known[c], req[r], users, visitors)
        /\ InFlight(c) = {} => Good(c, known[c], users, visitors)

AInv == TypeOK /\ OneAccountPerLogin /\ ReqInv /\ VisitInv /\ SeqInv

-----------------------------------------------------------------------------
LEMMA NoRequestOK ==
    /\ NoRequest \in RequestStates /\ NoRequest.at = "idle"
    /\ \A m \in Nat : ReqOK(NoRequest, m)
    /\ \A c, b, u, v : Good(c, b, u, v) => OwnOK(c, b, NoRequest, u, v)
  BY DEF NoRequest, RequestStates, Operations, Passwords, ReqOK, OwnOK

LEMMA LearnedTyped ==
    ASSUME NEW b \in Beliefs, NEW q \in RequestStates
    PROVE  /\ Learned(b, q) \in Beliefs
           /\ Learned(b, q).account \in {b.account, q.account}
<1> USE DEF Beliefs, RequestStates, Operations, Learned, Passwords
<1>1. CASE q.op \in {"register", "provider"}
  BY <1>1
<1>2. CASE q.op \in {"change_login", "change_password", "unlink"}
  BY <1>2
<1>3. QED
  BY <1>1, <1>2

LEMMA InitAInv == Init => AInv
<1> SUFFICES ASSUME Init PROVE AInv
  OBVIOUS
<1>1. TypeOK
  BY NoRequestOK DEF Init, TypeOK, NoUser, Passwords, Beliefs, Accounts
<1>2. OneAccountPerLogin /\ VisitInv
  BY DEF Init, OneAccountPerLogin, VisitInv
<1>3. ReqInv /\ SeqInv
  BY NoRequestOK DEF Init, ReqInv, SeqInv, InFlight, At, Good
<1>4. QED
  BY <1>1, <1>2, <1>3 DEF AInv

-----------------------------------------------------------------------------
(***************************************************************************)
(* The handlers: request r of client c becomes q, and the account of q may *)
(* have been written.                                                      *)
(***************************************************************************)
LEMMA HandlerStep ==
    ASSUME AInv, NEW r \in Requests, NEW c \in Clients,
           ~ At(r, "idle"), req[r].client = c,
           NEW q \in RequestStates, req' = [req EXCEPT ![r] = q],
           q.at # "idle" => q.client = c,
           ReqOK(q, made'),
           visitors' \in [Accounts -> SUBSET Clients],
           \A j \in 1..made : visitors[j] \subseteq visitors'[j],
           q.at # "idle" /\ q.account # 0 => c \in visitors'[q.account],
           c \notin disturbed => OwnOK(c, known[c], q, users', visitors'),
           users' \in [Accounts -> [login : Logins \cup {None},
                                    password : Passwords]],
           \A j \in Accounts : users'[j].login = None <=> j > made',
           OneAccountPerLogin',
           \A j \in Accounts : users'[j] # users[j] =>
              j = q.account /\ q.at # "idle",
           \/ made' = made
           \/ made' = made + 1 /\ q.account = made + 1 /\ q.at # "idle",
           made' \in 0..MaxAccounts,
           UNCHANGED <<passwords, known, disturbed>>
    PROVE  AInv'
<1> USE DEF AInv
<1>1. \A s \in Requests : req'[s] = IF s = r THEN q ELSE req[s]
  BY DEF TypeOK
<1>2. TypeOK'
  BY DEF TypeOK
<1>3. made \in Nat /\ made' \in Nat /\ made <= made' /\ made' <= MaxAccounts
  BY DEF TypeOK
<1>4. ReqInv'
  <2>1. \A s \in Requests : ReqOK(req'[s], made')
    <3> SUFFICES ASSUME NEW s \in Requests, s # r PROVE ReqOK(req[s], made')
      BY <1>1
    <3>1. ReqOK(req[s], made)
      BY DEF ReqInv
    <3>2. QED
      BY <1>3, <3>1 DEF ReqOK
  <2>2. \A d \in Clients : known'[d].account \in 0..made'
    BY <1>3 DEF ReqInv
  <2>3. QED
    BY <2>1, <2>2 DEF ReqInv
<1>5. \A d \in Clients, i \in 1..made' :
         Touches(d, i)' => Touches(d, i) \/ (d = c /\ i = q.account /\ q.at # "idle")
  BY <1>1 DEF Touches, At
<1>6. \A d \in Clients, i \in 1..made' : Touches(d, i) => i <= made
  BY <1>3 DEF Touches, ReqInv, ReqOK
<1>7. VisitInv'
  <2> SUFFICES ASSUME NEW d \in Clients, NEW i \in 1..made', Touches(d, i)'
               PROVE  d \in visitors'[i]
    BY DEF VisitInv
  <2>1. i # 0
    BY <1>3
  <2>2. CASE Touches(d, i)
    <3>1. i \in 1..made
      BY <1>3, <1>6, <2>2
    <3>2. QED
      BY <2>2, <3>1 DEF VisitInv
  <2>3. QED
    BY <1>5, <2>1, <2>2
<1>8. SeqInv'
  <2> SUFFICES ASSUME NEW d \in Clients \ disturbed
               PROVE  /\ \A t, s \in InFlight(d)' : t = s
                      /\ \A s \in InFlight(d)' : OwnOK(d, known[d], req'[s], users', visitors')
                      /\ InFlight(d)' = {} => Good(d, known[d], users', visitors')
    BY DEF SeqInv
  <2>1. InFlight(d)' \subseteq InFlight(d)
    BY <1>1 DEF InFlight, At
  <2>2. /\ \A t, s \in InFlight(d) : t = s
        /\ \A s \in InFlight(d) : OwnOK(d, known[d], req[s], users, visitors)
        /\ InFlight(d) = {} => Good(d, known[d], users, visitors)
    BY DEF SeqInv
  <2>3. CASE d = c
    <3>1. InFlight(d) = {r}
      BY <2>2, <2>3 DEF InFlight
    <3>2. OwnOK(c, known[c], q, users', visitors')
      BY <2>3
    <3>3. InFlight(d)' = {} => q.at = "idle"
      BY <1>1, <2>3 DEF InFlight, At
    <3>4. q.at = "idle" => Good(c, known[c], users', visitors')
      BY <3>2 DEF OwnOK
    <3>5. QED
      BY <1>1, <2>1, <2>3, <3>1, <3>2, <3>3, <3>4
  <2>4. CASE d # c
    <3>1. InFlight(d)' = InFlight(d) /\ \A s \in InFlight(d) : req'[s] = req[s]
      BY <1>1, <2>4 DEF InFlight, At
    <3>2. ASSUME NEW i \in 1..made, Touches(d, i), visitors'[i] = {d}
          PROVE  visitors[i] = {d} /\ users'[i] = users[i]
      <4>1. visitors[i] = {d}
        BY <3>2 DEF VisitInv
      <4>2. i \in Accounts /\ i # 0
        BY <1>3 DEF Accounts
      <4>3. QED
        BY <2>4, <3>2, <4>1, <4>2
    <3>3. ASSUME NEW b \in Beliefs, Good(d, b, users, visitors),
                 b.account # 0 => b.account \in 1..made /\ Touches(d, b.account)
          PROVE  Good(d, b, users', visitors')
      BY <3>2, <3>3 DEF Good
    <3>4. known[d] \in Beliefs /\ known[d].account \in 0..made
          /\ Touches(d, known[d].account)
      BY DEF TypeOK, ReqInv, Touches
    <3>5. Good(d, known[d], users, visitors) => Good(d, known[d], users', visitors')
      BY <1>3, <3>3, <3>4
    <3>6. ASSUME NEW s \in InFlight(d) PROVE OwnOK(d, known[d], req[s], users', visitors')
      <4>1. OwnOK(d, known[d], req[s], users, visitors)
        BY <2>2
      <4>2. /\ s \in Requests /\ req[s] \in RequestStates
            /\ req[s].account \in 0..made /\ Touches(d, req[s].account)
        BY DEF InFlight, TypeOK, ReqInv, ReqOK, Touches
      <4>3. req[s].at = "reply" => Good(d, Learned(known[d], req[s]), users', visitors')
        BY <1>3, <3>3, <3>4, <4>1, <4>2, LearnedTyped DEF OwnOK
      <4>4. req[s].at = "write" /\ req[s].op = "unlink"
            /\ visitors'[req[s].account] = {d} =>
               /\ users'[req[s].account] = users[req[s].account]
               /\ visitors[req[s].account] = {d}
        <5>1. ReqOK(req[s], made)
          BY <4>2 DEF ReqInv
        <5>2. req[s].at = "write" /\ req[s].op = "unlink" => req[s].account \in 1..made
          BY <1>3, <5>1 DEF ReqOK, Changes
        <5>3. QED
          BY <3>2, <4>2, <5>2
      <4>5. QED
        BY <3>5, <4>1, <4>3, <4>4 DEF OwnOK
    <3>7. QED
      BY <2>2, <3>1, <3>5, <3>6
  <2>5. QED
    BY <2>3, <2>4
<1>9. QED
  BY <1>2, <1>4, <1>7, <1>8

\* What is known of a request in a handler.
LEMMA Handled ==
    ASSUME AInv, NEW r \in Requests, ~ At(r, "idle")
    PROVE  /\ req[r] \in RequestStates /\ req[r].client \in Clients
           /\ ReqOK(req[r], made)
           /\ req[r].client \notin disturbed =>
                 OwnOK(req[r].client, known[req[r].client], req[r], users, visitors)
           /\ known[req[r].client] \in Beliefs
           /\ known[req[r].client].account \in 0..made
           /\ made \in Nat /\ made <= MaxAccounts
           /\ \A i \in 1..made : i \in Accounts /\ users[i].login \in Logins
           /\ visitors \in [Accounts -> SUBSET Clients]
           /\ req[r].account # 0 => req[r].client \in visitors[req[r].account]
<1> USE DEF AInv
<1>1. req[r] \in RequestStates /\ ReqOK(req[r], made) /\ req[r].client \in Clients
  BY DEF TypeOK, ReqInv, ReqOK, At
<1>2. req[r].client \notin disturbed =>
         OwnOK(req[r].client, known[req[r].client], req[r], users, visitors)
  BY <1>1 DEF SeqInv, InFlight
<1>3. known[req[r].client] \in Beliefs /\ known[req[r].client].account \in 0..made
  BY <1>1 DEF TypeOK, ReqInv
<1>4. made \in Nat /\ made <= MaxAccounts
  BY DEF TypeOK
<1>5. \A i \in 1..made : i \in Accounts /\ users[i].login \in Logins
  BY <1>4 DEF TypeOK, Accounts
<1>6. req[r].account # 0 => req[r].client \in visitors[req[r].account]
  <2>1. req[r].account # 0 => req[r].account \in 1..made
    BY <1>1, <1>4 DEF ReqOK
  <2>2. Touches(req[r].client, req[r].account)
    BY DEF Touches
  <2>3. QED
    BY <1>1, <2>1, <2>2 DEF VisitInv
<1>7. visitors \in [Accounts -> SUBSET Clients]
  BY DEF TypeOK
<1>8. QED
  BY <1>1, <1>2, <1>3, <1>4, <1>5, <1>6, <1>7

\* The account that a change is about.
LEMMA AccountOfChange ==
    ASSUME AInv, NEW r \in Requests, ~ At(r, "idle"), req[r].op \in Changes
    PROVE  /\ req[r].account \in 1..made /\ req[r].account # 0
           /\ req[r].account \in Accounts
           /\ users[req[r].account] \in [login : Logins \cup {None},
                                         password : Passwords]
           /\ users[req[r].account].login \in Logins
<1>1. req[r].account \in 0..made /\ req[r].account # 0
  BY Handled DEF ReqOK, At
<1>2. made \in Nat /\ made <= MaxAccounts
  BY Handled
<1>3. req[r].account \in 1..made
  BY <1>1, <1>2
<1>4. req[r].account \in Accounts
  BY <1>2, <1>3 DEF Accounts
<1>5. users[req[r].account].login \in Logins
  BY <1>3, Handled
<1>6. QED
  BY <1>1, <1>3, <1>4, <1>5 DEF AInv, TypeOK

\* A handler refuses: nothing is left of the request.
LEMMA RefuseStep ==
    ASSUME AInv, NEW r \in Requests, req[r].at \in {"check", "write"},
           Refuse(r), UNCHANGED <<users, made, passwords, known, disturbed, visitors>>
    PROVE  AInv'
<1>1. ~ At(r, "idle")
  BY DEF At
<1> PICK c \in Clients : c = req[r].client
  BY <1>1, Handled
<1>2. c \notin disturbed => OwnOK(c, known[c], NoRequest, users', visitors')
  BY <1>1, Handled, NoRequestOK DEF OwnOK
<1>3. ReqOK(NoRequest, made')
  BY <1>1, Handled, NoRequestOK
<1>4. OneAccountPerLogin' /\ made' \in 0..MaxAccounts
      /\ users' \in [Accounts -> [login : Logins \cup {None}, password : Passwords]]
      /\ \A j \in Accounts : users'[j].login = None <=> j > made'
  BY DEF AInv, TypeOK, OneAccountPerLogin
<1>5. req' = [req EXCEPT ![r] = NoRequest]
  BY DEF Refuse
<1>6. visitors' \in [Accounts -> SUBSET Clients] /\ visitors' = visitors
  BY DEF AInv, TypeOK
<1>7. QED
  BY <1>1, <1>2, <1>3, <1>4, <1>5, <1>6, NoRequestOK, HandlerStep

\* A handler goes on without having written.
LEMMA ProceedStep ==
    ASSUME AInv, NEW r \in Requests, At(r, "check"),
           NEW q \in RequestStates, req' = [req EXCEPT ![r] = q],
           q.at \in {"write", "reply"}, q.client = req[r].client,
           ReqOK(q, made),
           q.account = req[r].account,
           q.client \notin disturbed =>
              OwnOK(q.client, known[q.client], q, users, visitors),
           UNCHANGED <<users, made, passwords, known, disturbed, visitors>>
    PROVE  AInv'
<1>1. ~ At(r, "idle")
  BY DEF At
<1> PICK c \in Clients : c = req[r].client
  BY <1>1, Handled
<1>2. OneAccountPerLogin' /\ made' \in 0..MaxAccounts
      /\ users' \in [Accounts -> [login : Logins \cup {None}, password : Passwords]]
      /\ \A j \in Accounts : users'[j].login = None <=> j > made'
  BY DEF AInv, TypeOK, OneAccountPerLogin
<1>3. /\ visitors' \in [Accounts -> SUBSET Clients] /\ visitors' = visitors
      /\ q.account # 0 => c \in visitors'[q.account]
  BY <1>1, Handled
<1>4. QED
  BY <1>1, <1>2, <1>3, HandlerStep

LEMMA WriteStep ==
    ASSUME AInv, NEW r \in Requests, req[r].at = "check", Proceed(r),
           req[r].op # "unlink",
           UNCHANGED <<users, made, passwords, known, disturbed, visitors>>
    PROVE  AInv'
<1> PICK q : q = [req[r] EXCEPT !.at = "write"]
  OBVIOUS
<1>1. At(r, "check") /\ ~ At(r, "idle")
  BY DEF At
<1>2. /\ q \in RequestStates /\ q.at = "write" /\ q.client = req[r].client
      /\ q.account = req[r].account /\ q.op = req[r].op /\ q.login = req[r].login
  BY <1>1, Handled DEF RequestStates
<1>3. ReqOK(q, made)
  BY <1>1, <1>2, Handled DEF ReqOK
<1>4. q.client \notin disturbed =>
         OwnOK(q.client, known[q.client], q, users, visitors)
  BY <1>1, <1>2, Handled DEF OwnOK
<1>5. req' = [req EXCEPT ![r] = q]
  BY DEF Proceed, AInv, TypeOK
<1>6. QED
  BY <1>1, <1>2, <1>3, <1>4, <1>5, ProceedStep

LEMMA CheckLoginStep == ASSUME AInv, NEW r \in Requests, CheckLogin(r) PROVE AInv'
  BY WriteStep, RefuseStep DEF CheckLogin, At

LEMMA VerifyPasswordStep ==
    ASSUME AInv, NEW r \in Requests, VerifyPassword(r) PROVE AInv'
  BY WriteStep, RefuseStep DEF VerifyPassword, At

LEMMA FindProviderUserStep ==
    ASSUME AInv, NEW r \in Requests, FindProviderUser(r) PROVE AInv'
<1>1. At(r, "check") /\ req[r].at = "check" /\ ~ At(r, "idle")
      /\ req[r].op = "provider"
      /\ UNCHANGED <<users, made, passwords, known, disturbed>>
  BY DEF FindProviderUser, At
<1>2. CASE Proceed(r) /\ UNCHANGED visitors
  BY <1>1, <1>2, WriteStep
<1>3. ASSUME NEW i \in Holder(req[r].login),
             req' = [req EXCEPT ![r].at = "reply", ![r].account = i],
             visitors' = [visitors EXCEPT ![i] = @ \cup {req[r].client}]
      PROVE  AInv'
  <2> PICK q : q = [req[r] EXCEPT !.at = "reply", !.account = i]
    OBVIOUS
  <2> PICK c \in Clients : c = req[r].client
    BY <1>1, Handled
  <2> PICK l : l = req[r].login
    OBVIOUS
  <2>1. i \in 1..made /\ i \in 0..MaxAccounts /\ i # 0 /\ i \in Accounts
        /\ users[i].login = l /\ l \in Logins
    <3>1. i \in 1..made /\ users[i].login = l
      BY DEF Holder
    <3>2. made \in Nat /\ made <= MaxAccounts /\ l \in Logins
      BY <1>1, Handled DEF ReqOK
    <3>3. i \in Accounts
      BY <1>1, <3>1, Handled
    <3>4. QED
      BY <3>1, <3>2, <3>3
  <2>2. /\ q \in RequestStates /\ q.at = "reply" /\ q.client = c
        /\ q.account = i /\ q.op = "provider" /\ q.login = l
    BY <1>1, <2>1, Handled DEF RequestStates
  <2>3. ReqOK(q, made)
    BY <1>1, <2>1, <2>2, Handled DEF ReqOK
  <2>4. /\ visitors' \in [Accounts -> SUBSET Clients]
        /\ \A j \in Accounts : visitors[j] \subseteq visitors'[j]
        /\ visitors'[i] = visitors[i] \cup {c}
        /\ \A j \in Accounts \ {i} : visitors'[j] = visitors[j]
    BY <1>1, <1>3, <2>1, Handled
  <2>5. c \notin disturbed => OwnOK(c, known[c], q, users, visitors')
    <3> SUFFICES ASSUME c \notin disturbed
                 PROVE  Good(c, Learned(known[c], q), users, visitors')
      BY <2>2 DEF OwnOK, Changes
    <3>1. Good(c, known[c], users, visitors)
      BY <1>1, Handled DEF OwnOK
    <3>2. Learned(known[c], q) =
             [account |-> i, login |-> l,
              password |-> IF known[c].account = i THEN known[c].password ELSE 0]
      BY <2>2 DEF Learned
    <3>3. CASE known[c].account # i
      BY <2>1, <3>2, <3>3 DEF Good
    <3>4. CASE known[c].account = i
      <4>1. c \in visitors[i]
        BY <2>1, <3>4 DEF Touches, AInv, VisitInv
      <4>2. visitors'[i] = {c} => visitors[i] = {c}
        BY <2>4, <4>1
      <4>3. QED
        BY <2>1, <3>1, <3>2, <3>4, <4>2 DEF Good
    <3>5. QED
      BY <3>3, <3>4
  <2>6. req' = [req EXCEPT ![r] = q]
    BY <1>3 DEF AInv, TypeOK
  <2>7. OneAccountPerLogin' /\ made' \in 0..MaxAccounts
        /\ users' \in [Accounts -> [login : Logins \cup {None}, password : Passwords]]
        /\ \A j \in Accounts : users'[j].login = None <=> j > made'
    BY <1>1 DEF AInv, TypeOK, OneAccountPerLogin
  <2>8. \A j \in 1..made : visitors[j] \subseteq visitors'[j]
    BY <1>1, <2>4, Handled
  <2>9. QED
    BY <1>1, <2>2, <2>3, <2>4, <2>5, <2>6, <2>7, <2>8, HandlerStep
<1>4. QED
  BY <1>2, <1>3 DEF FindProviderUser

LEMMA ReadProfileStep ==
    ASSUME AInv, NEW r \in Requests, ReadProfile(r) PROVE AInv'
<1>1. At(r, "check") /\ ~ At(r, "idle") /\ req[r].op = "unlink"
      /\ UNCHANGED <<users, made, passwords, known, disturbed, visitors>>
  BY DEF ReadProfile, At
<1> PICK l : l = users[req[r].account].login
  OBVIOUS
<1> PICK q : q = [req[r] EXCEPT !.at = "write", !.login = l]
  OBVIOUS
<1>2. req[r].account \in 1..made /\ req[r].account # 0
  BY <1>1, AccountOfChange DEF Changes
<1>3. l \in Logins
  BY <1>1, <1>2, Handled
<1>4. /\ q \in RequestStates /\ q.at = "write" /\ q.client = req[r].client
      /\ q.account = req[r].account /\ q.op = "unlink" /\ q.login = l
  BY <1>1, <1>3, Handled DEF RequestStates
<1>5. ReqOK(q, made)
  BY <1>1, <1>2, <1>4, Handled DEF ReqOK
<1>6. q.client \notin disturbed =>
         OwnOK(q.client, known[q.client], q, users, visitors)
  BY <1>1, <1>4, Handled DEF OwnOK, At
<1>7. req' = [req EXCEPT ![r] = q]
  BY DEF ReadProfile, AInv, TypeOK
<1>8. QED
  BY <1>1, <1>4, <1>5, <1>6, <1>7, ProceedStep

\* A new account, whose login nobody had.
LEMMA InsertUserStep ==
    ASSUME AInv, NEW r \in Requests, InsertUser(r) PROVE AInv'
<1>1. At(r, "write") /\ req[r].at = "write" /\ ~ At(r, "idle")
      /\ req[r].op \in {"register", "provider"}
      /\ UNCHANGED <<passwords, known, disturbed>>
  BY DEF InsertUser, At
<1>2. CASE Taken(req[r].login)
  BY <1>1, <1>2, RefuseStep DEF InsertUser
<1>3. CASE ~ Taken(req[r].login)
  <2> PICK c \in Clients : c = req[r].client
    BY <1>1, Handled
  <2> PICK i, l, w : i = made + 1 /\ l = req[r].login /\ w = req[r].new
    OBVIOUS
  <2> PICK q : q = [req[r] EXCEPT !.at = "reply", !.account = i]
    OBVIOUS
  <2>1. /\ made < MaxAccounts /\ made' = i
        /\ users' = [users EXCEPT ![i] = [login |-> l, password |-> w]]
        /\ visitors' = [visitors EXCEPT ![i] = {c}]
        /\ req' = [req EXCEPT ![r].at = "reply", ![r].account = i]
    BY <1>3 DEF InsertUser
  <2>2. /\ made \in Nat /\ i \in Accounts /\ i \in 0..MaxAccounts /\ i # 0
        /\ \A j \in 1..made : j \in Accounts /\ j # i
    BY <1>1, <2>1, Handled DEF Accounts
  <2>3. l \in Logins /\ l # None /\ w \in Passwords
    BY <1>1, Handled DEF ReqOK, Logins, RequestStates
  <2>4. /\ q \in RequestStates /\ q.at = "reply" /\ q.client = c
        /\ q.account = i /\ q.op = req[r].op /\ q.login = l /\ q.new = w
    BY <1>1, <2>2, Handled DEF RequestStates
  <2>5. \A j \in Accounts : users'[j] = IF j = i THEN [login |-> l, password |-> w]
                                        ELSE users[j]
    BY <2>1 DEF AInv, TypeOK
  <2>6. users' \in [Accounts -> [login : Logins \cup {None}, password : Passwords]]
    BY <2>1, <2>3 DEF AInv, TypeOK
  <2>7. \A j \in Accounts : users'[j].login = None <=> j > made'
    BY <2>1, <2>2, <2>3, <2>5 DEF AInv, TypeOK, Accounts
  <2>8. \A j \in 1..made : users[j].login # l
    BY <1>3 DEF Taken, Holder
  <2>9. OneAccountPerLogin'
    <3>1. \A j \in 1..made' : j = i \/ j \in 1..made
      BY <2>1, <2>2
    <3>2. QED
      BY <2>2, <2>5, <2>8, <3>1 DEF AInv, OneAccountPerLogin
  <2>10. ReqOK(q, made')
    BY <1>1, <2>1, <2>2, <2>4, Handled DEF ReqOK, Changes
  <2>11. /\ visitors' \in [Accounts -> SUBSET Clients]
         /\ \A j \in 1..made : visitors[j] \subseteq visitors'[j]
         /\ c \in visitors'[i]
    BY <1>1, <2>1, <2>2, Handled
  <2>12. c \notin disturbed => OwnOK(c, known[c], q, users', visitors')
    <3>1. known[c].account \in 0..made /\ known[c].account # i
      BY <1>1, <2>2, Handled
    <3>2. Learned(known[c], q).account = i /\ Learned(known[c], q).login = l
          /\ Learned(known[c], q).password \in {0, w}
      BY <1>1, <2>4, <3>1 DEF Learned
    <3>3. Good(c, Learned(known[c], q), users', visitors')
      BY <2>2, <2>5, <3>2 DEF Good
    <3>4. QED
      BY <1>1, <2>4, <3>3 DEF OwnOK, Changes
  <2>13. req' = [req EXCEPT ![r] = q]
    BY <2>1 DEF AInv, TypeOK
  <2>14. \A j \in Accounts : users'[j] # users[j] => j = q.account /\ q.at # "idle"
    BY <2>4, <2>5
  <2>15. made' \in 0..MaxAccounts /\ made' = made + 1 /\ q.account = made + 1
    BY <2>1, <2>2, <2>4
  <2>16. q.at # "idle" /\ q.account # 0 => c \in visitors'[q.account]
    BY <2>4, <2>11
  <2>17. made' = made + 1 /\ q.account = made + 1 /\ q.at # "idle"
    BY <2>4, <2>15
  <2>18. q.client = c /\ req[r].client = c
    BY <2>4
  <2>19. QED
    BY <1>1, <2>4, <2>6, <2>7, <2>9, <2>10, <2>11, <2>12, <2>13, <2>14, <2>15,
       <2>16, <2>17, <2>18, HandlerStep, Zenon
<1>4. QED
  BY <1>2, <1>3

\* A change of an account by the request that is about it.
LEMMA ChangeStep ==
    ASSUME AInv, NEW r \in Requests, At(r, "write"), req[r].op \in Changes,
           NEW l \in Logins, NEW w \in Passwords,
           users' = [users EXCEPT ![req[r].account] = [login |-> l, password |-> w]],
           req' = [req EXCEPT ![r].at = "reply"],
           \/ ~ Taken(l) /\ req[r].op = "change_login"
                 /\ l = req[r].login /\ w = users[req[r].account].password
           \/ l = users[req[r].account].login /\ w = req[r].new
                 /\ req[r].op # "change_login",
           UNCHANGED <<made, passwords, known, disturbed, visitors>>
    PROVE  AInv'
<1>1. ~ At(r, "idle")
  BY DEF At
<1> PICK c \in Clients : c = req[r].client
  BY <1>1, Handled
<1> PICK i : i = req[r].account
  OBVIOUS
<1> PICK q : q = [req[r] EXCEPT !.at = "reply"]
  OBVIOUS
<1>2. i \in 1..made /\ i # 0 /\ i \in Accounts /\ made \in Nat /\ i <= made
  BY <1>1, Handled, AccountOfChange
<1>3. /\ q \in RequestStates /\ q.at = "reply" /\ q.client = c /\ q.account = i
      /\ q.op = req[r].op /\ q.login = req[r].login /\ q.new = req[r].new
  BY <1>1, Handled DEF RequestStates
<1>4. \A j \in Accounts : users'[j] = IF j = i THEN [login |-> l, password |-> w]
                                      ELSE users[j]
  BY DEF AInv, TypeOK
<1>5. users' \in [Accounts -> [login : Logins \cup {None}, password : Passwords]]
  BY DEF AInv, TypeOK
<1>6. \A j \in Accounts : users'[j].login = None <=> j > made'
  <2>1. l # None /\ ~ (i > made)
    BY <1>2 DEF Logins
  <2>2. QED
    BY <1>4, <2>1 DEF AInv, TypeOK
<1>7. OneAccountPerLogin'
  <2>1. \A j \in 1..made : j \in Accounts
    BY <1>1, Handled
  <2>2. \A j \in 1..made : j # i => users[j].login # l
    <3>1. CASE ~ Taken(l)
      BY <3>1 DEF Taken, Holder
    <3>2. CASE l = users[i].login
      BY <1>2, <3>2 DEF AInv, OneAccountPerLogin
    <3>3. QED
      BY <3>1, <3>2
  <2>3. QED
    BY <1>2, <1>4, <2>1, <2>2 DEF AInv, OneAccountPerLogin
<1>8. ReqOK(q, made')
  <2>1. ReqOK(req[r], made)
    BY <1>1, Handled
  <2>2. QED
    BY <1>1, <1>3, <1>2, <2>1 DEF ReqOK, At
<1>9. /\ visitors' \in [Accounts -> SUBSET Clients] /\ visitors' = visitors
      /\ c \in visitors'[i]
  BY <1>1, <1>2, Handled
<1>10. c \notin disturbed => OwnOK(c, known[c], q, users', visitors')
  <2> SUFFICES ASSUME c \notin disturbed
               PROVE  OwnOK(c, known[c], q, users', visitors')
    OBVIOUS
  <2> PICK b \in Beliefs : b = known[c]
    BY <1>1, Handled
  <2>1. OwnOK(c, b, req[r], users, visitors)
    BY <1>1, Handled
  <2>2. /\ b.account = i
        /\ visitors[i] = {c} => /\ users[i].login = b.login
                                /\ b.password \in {0, users[i].password}
                                /\ req[r].op = "unlink" =>
                                      req[r].login = users[i].login
    BY <1>2, <2>1 DEF OwnOK, Good, At
  <2>3. users'[i].login = l /\ users'[i].password = w /\ visitors' = visitors
    BY <1>2, <1>4, <1>9
  <2>4. CASE req[r].op = "change_login"
    <3>1. Learned(b, q) = [b EXCEPT !.login = l] /\ w = users[i].password
      BY <1>3, <2>4 DEF Learned
    <3>2. Good(c, Learned(b, q), users', visitors')
      BY <2>2, <2>3, <3>1 DEF Good, Beliefs
    <3>3. QED
      BY <1>3, <2>2, <3>2 DEF OwnOK
  <2>5. CASE req[r].op = "change_password"
    <3>1. Learned(b, q) = [b EXCEPT !.password = w] /\ l = users[i].login
      BY <1>3, <2>5 DEF Learned
    <3>2. Good(c, Learned(b, q), users', visitors')
      BY <2>2, <2>3, <3>1 DEF Good, Beliefs
    <3>3. QED
      BY <1>3, <2>2, <3>2 DEF OwnOK
  <2>6. CASE req[r].op = "unlink"
    <3>1. /\ Learned(b, q) = [b EXCEPT !.login = req[r].login, !.password = w]
          /\ visitors[i] = {c} => req[r].login = l
      BY <1>3, <2>2, <2>6 DEF Learned
    <3>2. Good(c, Learned(b, q), users', visitors')
      BY <2>2, <2>3, <3>1 DEF Good, Beliefs
    <3>3. QED
      BY <1>3, <2>2, <3>2 DEF OwnOK
  <2>7. QED
    BY <2>4, <2>5, <2>6 DEF Changes
<1>11. req' = [req EXCEPT ![r] = q]
  BY DEF AInv, TypeOK
<1>12. \A j \in Accounts : users'[j] # users[j] => j = q.account /\ q.at # "idle"
  BY <1>3, <1>4
<1>13. made' \in 0..MaxAccounts
  BY DEF AInv, TypeOK
<1>14. q.at # "idle" /\ q.account # 0 => c \in visitors'[q.account]
  BY <1>3, <1>9
<1>15. q.client = c /\ req[r].client = c /\ made' = made
       /\ UNCHANGED <<passwords, known, disturbed>>
  BY <1>3
<1>16. \A j \in 1..made : visitors[j] \subseteq visitors'[j]
  BY <1>9
<1>17. QED
  BY <1>1, <1>3, <1>5, <1>6, <1>7, <1>8, <1>9, <1>10, <1>11, <1>12, <1>13,
     <1>14, <1>15, <1>16, HandlerStep, Zenon

LEMMA ChangeLoginStep ==
    ASSUME AInv, NEW r \in Requests, ChangeLogin(r) PROVE AInv'
<1>1. At(r, "write") /\ req[r].at = "write" /\ ~ At(r, "idle")
      /\ req[r].op = "change_login"
      /\ UNCHANGED <<made, passwords, known, disturbed, visitors>>
  BY DEF ChangeLogin, At
<1>2. CASE Taken(req[r].login)
  BY <1>1, <1>2, RefuseStep DEF ChangeLogin
<1>3. CASE ~ Taken(req[r].login)
  <2> PICK i, l, w : i = req[r].account /\ l = req[r].login /\ w = users[i].password
    OBVIOUS
  <2>1. i \in Accounts /\ users[i] \in [login : Logins \cup {None},
                                        password : Passwords]
    BY <1>1, Handled DEF ReqOK, Changes, AInv, TypeOK
  <2>2. l \in Logins
    BY <1>1, Handled DEF ReqOK
  <2>3. users' = [users EXCEPT ![i] = [login |-> l, password |-> w]]
    <3>1. users' = [users EXCEPT ![i].login = l]
      BY <1>3 DEF ChangeLogin
    <3>2. [users[i] EXCEPT !.login = l] = [login |-> l, password |-> w]
      BY <2>1
    <3>3. QED
      BY <2>1, <3>1, <3>2 DEF AInv, TypeOK
  <2>4. QED
    BY <1>1, <1>3, <2>1, <2>2, <2>3, ChangeStep DEF ChangeLogin, Changes
<1>4. QED
  BY <1>2, <1>3

LEMMA ChangePasswordStep ==
    ASSUME AInv, NEW r \in Requests, ChangePassword(r) PROVE AInv'
<1>1. At(r, "write") /\ ~ At(r, "idle") /\ req[r].op \in Changes
      /\ req[r].op # "change_login"
      /\ UNCHANGED <<made, passwords, known, disturbed, visitors>>
  BY DEF ChangePassword, At, Changes
<1> PICK i, l, w : i = req[r].account /\ w = req[r].new /\ l = users[i].login
  OBVIOUS
<1>2. i \in Accounts /\ l \in Logins /\ users[i] \in [login : Logins \cup {None},
                                                      password : Passwords]
  BY <1>1, AccountOfChange
<1>3. w \in Passwords
  BY <1>1, Handled DEF RequestStates
<1>4. users' = [users EXCEPT ![i] = [login |-> l, password |-> w]]
  <2>1. users' = [users EXCEPT ![i].password = w]
    BY DEF ChangePassword
  <2>2. [users[i] EXCEPT !.password = w] = [login |-> l, password |-> w]
    BY <1>2
  <2>3. QED
    BY <1>2, <2>1, <2>2 DEF AInv, TypeOK
<1>5. QED
  BY <1>1, <1>2, <1>3, <1>4, ChangeStep DEF ChangePassword

-----------------------------------------------------------------------------
(***************************************************************************)
(* The clients: request r of client c becomes q, and the client believes b *)
(* from now on.                                                            *)
(***************************************************************************)
LEMMA ClientStep ==
    ASSUME AInv, NEW r \in Requests, NEW c \in Clients,
           ~ At(r, "idle") => req[r].client = c,
           NEW q \in RequestStates, req' = [req EXCEPT ![r] = q],
           q.at # "idle" => q.client = c,
           q.at # "idle" /\ q.account # 0 => Touches(c, q.account),
           ReqOK(q, made),
           NEW b \in Beliefs, known' = [known EXCEPT ![c] = b],
           b.account \in 0..made,
           b.account # 0 => Touches(c, b.account),
           disturbed \subseteq disturbed', disturbed' \subseteq disturbed \cup {c},
           passwords' \in Passwords,
           c \notin disturbed' =>
              /\ \A t, s \in InFlight(c)' : t = s
              /\ \A s \in InFlight(c)' : OwnOK(c, b, req'[s], users, visitors)
              /\ InFlight(c)' = {} => Good(c, b, users, visitors),
           UNCHANGED <<users, made, visitors>>
    PROVE  AInv'
<1> USE DEF AInv
<1>1. \A s \in Requests : req'[s] = IF s = r THEN q ELSE req[s]
  BY DEF TypeOK
<1>2. \A d \in Clients : known'[d] = IF d = c THEN b ELSE known[d]
  BY DEF TypeOK
<1>3. TypeOK'
  BY DEF TypeOK
<1>4. OneAccountPerLogin'
  BY DEF OneAccountPerLogin
<1>5. ReqInv'
  BY <1>1, <1>2 DEF ReqInv
<1>6. ASSUME NEW d \in Clients, NEW i \in 1..made, Touches(d, i)'
      PROVE  Touches(d, i)
  <2>1. made \in Nat
    BY DEF TypeOK
  <2>2. i # 0
    BY <2>1
  <2>3. CASE known'[d].account = i
    BY <1>2, <2>2, <2>3 DEF Touches
  <2>4. ASSUME NEW s \in Requests,
               req'[s].at # "idle", req'[s].client = d, req'[s].account = i
        PROVE  Touches(d, i)
    BY <1>1, <2>2, <2>4 DEF Touches, At
  <2>5. QED
    BY <1>6, <2>3, <2>4 DEF Touches, At
<1>7. VisitInv'
  BY <1>6 DEF VisitInv
<1>8. SeqInv'
  <2> SUFFICES ASSUME NEW d \in Clients \ disturbed'
               PROVE  /\ \A t, s \in InFlight(d)' : t = s
                      /\ \A s \in InFlight(d)' : OwnOK(d, known'[d], req'[s], users', visitors')
                      /\ InFlight(d)' = {} => Good(d, known'[d], users', visitors')
    BY DEF SeqInv
  <2>1. CASE d = c
    BY <1>2, <2>1
  <2>2. CASE d # c
    <3>1. InFlight(d)' = InFlight(d) /\ \A s \in InFlight(d) : req'[s] = req[s]
      BY <1>1, <2>2 DEF InFlight, At
    <3>2. QED
      BY <1>2, <2>2, <3>1 DEF SeqInv
  <2>3. QED
    BY <2>1, <2>2
<1>9. QED
  BY <1>3, <1>4, <1>5, <1>7, <1>8

LEMMA SendStep ==
    ASSUME AInv, NEW r \in Requests, NEW c \in Clients, NEW op \in Operations,
           NEW login \in Logins \cup {None}, Send(r, c, op, login)
    PROVE  AInv'
<1> PICK n : n = passwords'
  OBVIOUS
<1> PICK b \in Beliefs : b = known[c]
  BY DEF AInv, TypeOK
<1> PICK a : a = IF op \in {"register", "provider"} THEN 0 ELSE b.account
  OBVIOUS
<1> PICK o : o = IF op = "change_password" THEN b.password ELSE 0
  OBVIOUS
<1>0. PICK q : q = [at |-> "check", op |-> op, client |-> c, account |-> a,
                  login |-> login, old |-> o, new |-> n]
  OBVIOUS
<1>1. /\ At(r, "idle") /\ req' = [req EXCEPT ![r] = q]
      /\ disturbed' = IF InFlight(c) = {} THEN disturbed ELSE disturbed \cup {c}
      /\ UNCHANGED <<users, made, known, visitors>>
  BY <1>0 DEF Send
<1>2. n \in Passwords
  BY DEF Send, AInv, TypeOK, Passwords
<1>3. b.account \in 0..made /\ made \in Nat /\ made <= MaxAccounts
  BY DEF AInv, TypeOK, ReqInv
<1>4. a \in 0..made /\ a \in 0..MaxAccounts /\ o \in Passwords
      /\ (a # 0 => a = b.account)
  BY <1>3 DEF Beliefs, Passwords
<1>5. q \in RequestStates
  BY <1>0, <1>2, <1>4 DEF RequestStates
<1>6. ReqOK(q, made)
  <2>1. op \in {"register", "change_login"} => login \in Logins
    BY DEF Send
  <2>2. op = "provider" => login \in Logins
    BY DEF Send, Logins
  <2>3. op \in Changes => a # 0
    <3>1. op \in Changes => b.account # 0 /\ a = b.account
      BY DEF Send, Changes
    <3>2. QED
      BY <3>1
  <2>4. QED
    BY <1>0, <1>4, <2>1, <2>2, <2>3 DEF ReqOK
<1>7. b.account # 0 => Touches(c, b.account)
  BY DEF Touches
<1>8. known' = [known EXCEPT ![c] = b]
  BY <1>1 DEF AInv, TypeOK
<1>9. ASSUME c \notin disturbed'
      PROVE  /\ \A t, s \in InFlight(c)' : t = s
             /\ \A s \in InFlight(c)' : OwnOK(c, b, req'[s], users, visitors)
             /\ InFlight(c)' = {} => Good(c, b, users, visitors)
  <2>1. InFlight(c) = {} /\ c \notin disturbed
    BY <1>1, <1>9
  <2>2. Good(c, b, users, visitors)
    BY <2>1 DEF AInv, SeqInv
  <2>3. \A s \in Requests : req'[s] = IF s = r THEN q ELSE req[s]
    BY <1>1 DEF AInv, TypeOK
  <2>4. InFlight(c)' \subseteq {r}
    BY <2>1, <2>3 DEF InFlight, At
  <2>5. OwnOK(c, b, q, users, visitors)
    BY <1>0, <2>2 DEF OwnOK, Changes
  <2>6. QED
    BY <2>2, <2>3, <2>4, <2>5
<1>10. disturbed \subseteq disturbed' /\ disturbed' \subseteq disturbed \cup {c}
  BY <1>1
<1>11. q.client = c /\ (q.at # "idle" /\ q.account # 0 => Touches(c, q.account))
  BY <1>0, <1>4, <1>7
<1>12. passwords' \in Passwords /\ b.account \in 0..made
  BY <1>2, <1>3
<1>13. /\ ~ At(r, "idle") => req[r].client = c
       /\ req' = [req EXCEPT ![r] = q]
       /\ UNCHANGED <<users, made, visitors>>
  BY <1>1
<1>14. c \notin disturbed' =>
         /\ \A t, s \in InFlight(c)' : t = s
         /\ \A s \in InFlight(c)' : OwnOK(c, b, req'[s], users, visitors)
         /\ InFlight(c)' = {} => Good(c, b, users, visitors)
  BY <1>9
<1>15. QED
  BY <1>5, <1>6, <1>7, <1>8, <1>10, <1>11, <1>12, <1>13, <1>14, ClientStep

\* The request of client c is gone, with or without its answer.
LEMMA ReceiveStep == ASSUME AInv, NEW r \in Requests, Receive(r) PROVE AInv'
<1>1. At(r, "reply") /\ ~ At(r, "idle") /\ req' = [req EXCEPT ![r] = NoRequest]
      /\ UNCHANGED <<users, made, passwords, disturbed, visitors>>
  BY DEF Receive, At, Refuse
<1> PICK c \in Clients : c = req[r].client
  BY <1>1, Handled
<1> PICK a \in RequestStates : a = req[r]
  BY <1>1, Handled
<1> PICK k \in Beliefs : k = known[c]
  BY <1>1, Handled
<1> PICK b : b = Learned(k, a)
  OBVIOUS
<1>2. b \in Beliefs /\ b.account \in {k.account, a.account}
  BY LearnedTyped
<1>3. known' = [known EXCEPT ![c] = b]
  BY DEF Receive, Learned
<1>4. k.account \in 0..made /\ a.account \in 0..made
  BY <1>1, Handled DEF ReqOK
<1>5. b.account # 0 => Touches(c, b.account)
  BY <1>1, <1>2 DEF Touches
<1>6. ASSUME c \notin disturbed'
      PROVE  /\ \A t, s \in InFlight(c)' : t = s
             /\ \A s \in InFlight(c)' : OwnOK(c, b, req'[s], users, visitors)
             /\ InFlight(c)' = {} => Good(c, b, users, visitors)
  <2>1. r \in InFlight(c) /\ \A t, s \in InFlight(c) : t = s
    BY <1>1, <1>6 DEF AInv, SeqInv, InFlight
  <2>2. \A s \in Requests : req'[s] = IF s = r THEN NoRequest ELSE req[s]
    BY <1>1 DEF AInv, TypeOK
  <2>3. InFlight(c)' = {}
    BY <2>1, <2>2, NoRequestOK DEF InFlight, At
  <2>4. Good(c, b, users, visitors)
    BY <1>1, <1>6, Handled DEF OwnOK, At
  <2>5. QED
    BY <2>3, <2>4
<1>7. ReqOK(NoRequest, made)
  BY <1>1, Handled, NoRequestOK
<1>8. passwords' \in Passwords /\ b.account \in 0..made
  BY <1>1, <1>2, <1>4 DEF AInv, TypeOK
<1>9. QED
  BY <1>1, <1>2, <1>3, <1>5, <1>6, <1>7, <1>8, NoRequestOK, ClientStep

LEMMA AbortStep == ASSUME AInv, NEW r \in Requests, Abort(r) PROVE AInv'
<1>1. ~ At(r, "idle") /\ req' = [req EXCEPT ![r] = NoRequest]
      /\ disturbed' = disturbed \cup {req[r].client}
      /\ UNCHANGED <<users, made, passwords, known, visitors>>
  BY DEF Abort, Refuse
<1> PICK c \in Clients : c = req[r].client
  BY <1>1, Handled
<1> PICK b \in Beliefs : b = known[c]
  BY <1>1, Handled
<1>2. known' = [known EXCEPT ![c] = b]
  BY <1>1 DEF AInv, TypeOK
<1>3. b.account \in 0..made /\ (b.account # 0 => Touches(c, b.account))
  BY <1>1, Handled DEF Touches
<1>4. ReqOK(NoRequest, made) /\ passwords' \in Passwords
  BY <1>1, Handled, NoRequestOK DEF AInv, TypeOK
<1>5. QED
  BY <1>1, <1>2, <1>3, <1>4, NoRequestOK, ClientStep

LEMMA StutterStep == ASSUME AInv, UNCHANGED accountVars PROVE AInv'
  BY DEF AInv, TypeOK, OneAccountPerLogin, ReqInv, VisitInv, Touches, At, SeqInv,
         InFlight, accountVars

LEMMA AccountsStep == ASSUME AInv, AccountNext PROVE AInv'
<1> PICK r \in Requests :
        \/ \E c \in Clients, op \in Operations, login \in Logins \cup {None} :
              Send(r, c, op, login)
        \/ Receive(r)
        \/ Abort(r)
        \/ CheckLogin(r)
        \/ FindProviderUser(r)
        \/ InsertUser(r)
        \/ ChangeLogin(r)
        \/ VerifyPassword(r)
        \/ ReadProfile(r)
        \/ ChangePassword(r)
  BY DEF AccountNext
<1>1. CASE \E c \in Clients, op \in Operations, login \in Logins \cup {None} :
              Send(r, c, op, login)
  BY <1>1, SendStep
<1>2. CASE Receive(r)
  BY <1>2, ReceiveStep
<1>3. CASE Abort(r)
  BY <1>3, AbortStep
<1>4. CASE CheckLogin(r)
  BY <1>4, CheckLoginStep
<1>5. CASE FindProviderUser(r)
  BY <1>5, FindProviderUserStep
<1>6. CASE InsertUser(r)
  BY <1>6, InsertUserStep
<1>7. CASE ChangeLogin(r)
  BY <1>7, ChangeLoginStep
<1>8. CASE VerifyPassword(r)
  BY <1>8, VerifyPasswordStep
<1>9. CASE ReadProfile(r)
  BY <1>9, ReadProfileStep
<1>10. CASE ChangePassword(r)
  BY <1>10, ChangePasswordStep
<1>11. QED
  BY <1>1, <1>2, <1>3, <1>4, <1>5, <1>6, <1>7, <1>8, <1>9, <1>10

-----------------------------------------------------------------------------
(***************************************************************************)
(* The admin site on top.                                                  *)
(***************************************************************************)
EntryInv ==
    /\ mirror \in [Rows -> Logins \cup {None, Blank}]
    /\ mirror[Local] \in {None, Superuser}
    /\ entry \in [Clients -> EntryStates]
    /\ \A c \in Clients : entry[c].at \in {"create", "save"} =>
          entry[c].account \in Accounts /\ entry[c].login \in Logins

IInv == AInv /\ EntryInv

LEMMA NoEntryTyped ==
    \A place \in {"idle", "out"} : [NoEntry EXCEPT !.at = place] \in EntryStates
  BY BoundsAssumption DEF NoEntry, EntryStates

LEMMA InitIInv == AdminInit => IInv
<1> SUFFICES ASSUME AdminInit PROVE IInv
  OBVIOUS
<1>1. AInv
  BY InitAInv DEF AdminInit
<1>2. NoEntry \in EntryStates /\ NoEntry.at = "idle"
  BY DEF NoEntry, EntryStates
<1>3. EntryInv
  BY <1>2 DEF AdminInit, EntryInv, Rows
<1>4. QED
  BY <1>1, <1>3 DEF IInv

LEMMA EndsStep ==
    ASSUME EntryInv, NEW c \in Clients, NEW place \in {"idle", "out"},
           EntryEnds(c, place)
    PROVE  /\ entry' \in [Clients -> EntryStates]
           /\ \A d \in Clients : entry'[d].at \in {"create", "save"} =>
                 entry'[d].account \in Accounts /\ entry'[d].login \in Logins
           /\ entry'[c].at = place
           /\ \A d \in Clients \ {c} : entry'[d] = entry[d]
<1> PICK e : e = [NoEntry EXCEPT !.at = place]
  OBVIOUS
<1>1. e \in EntryStates /\ e.at = place
  BY NoEntryTyped DEF NoEntry
<1>2. entry' = [entry EXCEPT ![c] = e]
  BY DEF EntryEnds
<1>3. \A d \in Clients : entry'[d] = IF d = c THEN e ELSE entry[d]
  BY <1>2 DEF EntryInv
<1>4. entry' \in [Clients -> EntryStates]
  BY <1>1, <1>2 DEF EntryInv
<1>5. QED
  BY <1>1, <1>3, <1>4 DEF EntryInv

LEMMA SaveNext ==
    ASSUME EntryInv, NEW c \in Clients, EntryAt(c, "create"), EntryGo(c, "save")
    PROVE  /\ entry' \in [Clients -> EntryStates]
           /\ \A d \in Clients : entry'[d].at \in {"create", "save"} =>
                 entry'[d].account \in Accounts /\ entry'[d].login \in Logins
           /\ \A d \in Clients : entry'[d].at = "out" => entry[d].at = "out"
<1> PICK e : e = [entry[c] EXCEPT !.at = "save"]
  OBVIOUS
<1>1. e \in EntryStates /\ e.at = "save" /\ e.account = entry[c].account
      /\ e.login = entry[c].login
  BY DEF EntryInv, EntryStates
<1>2. entry' = [entry EXCEPT ![c] = e]
  BY DEF EntryGo, EntryInv
<1>3. \A d \in Clients : entry'[d] = IF d = c THEN e ELSE entry[d]
  BY <1>2 DEF EntryInv
<1>4. entry' \in [Clients -> EntryStates]
  BY <1>1, <1>2 DEF EntryInv
<1>5. QED
  BY <1>1, <1>3, <1>4 DEF EntryInv, EntryAt

LEMMA NextIInv == IInv /\ [Next]_vars => IInv'
<1> SUFFICES ASSUME IInv, [Next]_vars PROVE IInv'
  OBVIOUS
<1> USE DEF IInv
<1>1. CASE AccountNext /\ UNCHANGED <<mirror, entry>>
  BY <1>1, AccountsStep DEF EntryInv
<1>2. ASSUME NEW c \in Clients, Authenticate(c) PROVE IInv'
  <2>1. AInv' /\ UNCHANGED mirror
    BY <1>2, StutterStep DEF Authenticate
  <2>2. CASE UNCHANGED entry
    BY <2>1, <2>2 DEF EntryInv
  <2>3. ASSUME NEW t \in Typed(c), NEW i \in 1..made, users[i] = t,
               entry' = [entry EXCEPT ![c] = [at |-> "create", account |-> i,
                                              login |-> t.login]]
        PROVE  IInv'
    <3> PICK e : e = [at |-> "create", account |-> i, login |-> t.login]
      OBVIOUS
    <3>1. i \in Accounts /\ i \in 0..MaxAccounts /\ users[i].login \in Logins
      <4>1. made \in Nat /\ made <= MaxAccounts
        BY DEF AInv, TypeOK
      <4>2. i \in Accounts /\ i \in 0..MaxAccounts /\ ~ (i > made)
        BY <4>1 DEF Accounts
      <4>3. QED
        BY <4>2 DEF AInv, TypeOK
    <3>2. e \in EntryStates /\ e.account \in Accounts /\ e.login \in Logins
      BY <2>3, <3>1 DEF EntryStates
    <3>3. \A d \in Clients : entry'[d] = IF d = c THEN e ELSE entry[d]
      BY <2>3 DEF EntryInv
    <3>4. entry' \in [Clients -> EntryStates]
      BY <2>3, <3>2 DEF EntryInv
    <3>5. QED
      BY <2>1, <3>2, <3>3, <3>4 DEF EntryInv
  <2>4. QED
    BY <1>2, <2>2, <2>3 DEF Authenticate
<1>3. ASSUME NEW c \in Clients, GetOrCreate(c) PROVE IInv'
  <2>1. AInv'
    BY <1>3, StutterStep DEF GetOrCreate
  <2>2. /\ mirror' \in [Rows -> Logins \cup {None, Blank}]
        /\ mirror'[Local] = mirror[Local]
    <3>1. entry[c].account \in Accounts /\ entry[c].account # Local
      BY <1>3 DEF GetOrCreate, EntryInv, EntryAt, Accounts, Local
    <3>2. QED
      BY <1>3, <3>1 DEF GetOrCreate, EntryInv, Rows
  <2>3. EntryEnds(c, "out") \/ (EntryAt(c, "create") /\ EntryGo(c, "save"))
    BY <1>3 DEF GetOrCreate
  <2>4. QED
    BY <2>1, <2>2, <2>3, EndsStep, SaveNext DEF EntryInv
<1>4. ASSUME NEW c \in Clients, SaveUser(c) PROVE IInv'
  <2>1. AInv'
    BY <1>4, StutterStep DEF SaveUser
  <2>2. /\ mirror' \in [Rows -> Logins \cup {None, Blank}]
        /\ mirror'[Local] = mirror[Local]
    <3>1. entry[c].account \in Accounts /\ entry[c].account # Local
          /\ entry[c].login \in Logins
      BY <1>4 DEF SaveUser, EntryInv, EntryAt, Accounts, Local
    <3>2. QED
      BY <1>4, <3>1 DEF SaveUser, EntryInv, Rows
  <2>3. EntryEnds(c, "out") \/ EntryEnds(c, "idle")
    BY <1>4 DEF SaveUser
  <2>4. QED
    BY <2>1, <2>2, <2>3, EndsStep DEF EntryInv
<1>5. ASSUME NEW c \in Clients, EndEntry(c) PROVE IInv'
  <2>1. AInv' /\ UNCHANGED mirror
    BY <1>5, StutterStep DEF EndEntry
  <2>2. EntryEnds(c, "idle")
    BY <1>5 DEF EndEntry, EntryEnds, NoEntry
  <2>3. QED
    BY <2>1, <2>2, EndsStep DEF EntryInv
<1>6. CASE CreateSuperuser
  <2>1. AInv' /\ UNCHANGED entry /\ mirror' = [mirror EXCEPT ![Local] = Superuser]
    BY <1>6, StutterStep DEF CreateSuperuser
  <2>2. Superuser \in Logins /\ Local \in Rows
    BY SuperuserAssumption DEF Logins, Rows
  <2>3. QED
    BY <2>1, <2>2 DEF EntryInv
<1>7. CASE UNCHANGED vars
  BY <1>7, StutterStep DEF vars, EntryInv
<1>8. QED
  BY <1>1, <1>2, <1>3, <1>4, <1>5, <1>6, <1>7 DEF Next

LEMMA SpecIInv == Spec => []IInv
  BY InitIInv, NextIInv, PTL DEF Spec

-----------------------------------------------------------------------------
\* Every variable of the accounts and of the admin site has its type.
THEOREM AdminTypeOKHolds == Spec => []AdminTypeOK
<1>1. IInv => AdminTypeOK
  BY DEF IInv, AInv, EntryInv, AdminTypeOK
<1>2. QED
  BY SpecIInv, <1>1, PTL

(***************************************************************************)
(* However registrations, entrances by a provider and changes of login     *)
(* interleave, no login has two accounts.                                  *)
(***************************************************************************)
THEOREM OneAccountPerLoginHolds == Spec => []OneAccountPerLogin
<1>1. IInv => OneAccountPerLogin
  BY DEF IInv, AInv
<1>2. QED
  BY SpecIInv, <1>1, PTL

(***************************************************************************)
(* A client that sends one request at a time, gets every answer and has    *)
(* an account into which no provider ever let anybody else knows its       *)
(* login, and its password if that was ever told, whatever the others do   *)
(* with the same logins.                                                   *)
(***************************************************************************)
THEOREM SequentialOwnerKnowsCredentialsHolds ==
    Spec => []SequentialOwnerKnowsCredentials
<1>1. IInv => SequentialOwnerKnowsCredentials
  BY DEF IInv, AInv, SeqInv, Good, SequentialOwnerKnowsCredentials
<1>2. QED
  BY SpecIInv, <1>1, PTL

(***************************************************************************)
(* Who has given the credentials of an account is kept out of the admin    *)
(* site only by the row of the site's superuser, whose login the account   *)
(* has, by a row that is out of date, or because the login has changed     *)
(* hands on the way.                                                       *)
(***************************************************************************)
THEOREM KeptOutOnlyByAnotherRowHolds == Spec => KeptOutOnlyByAnotherRow
<1> DEFINE Why(c) == \/ mirror[Local] = entry[c].login
                     \/ \E j \in Accounts \ {entry[c].account} : OutOfDate(j)
                     \/ users[entry[c].account].login # entry[c].login
<1>1. ASSUME IInv, [Next]_vars, NEW c \in Clients, ~ EntryAt(c, "out"),
             EntryAt(c, "out")'
      PROVE  Why(c)
  <2>1. entry[c].at # "out" /\ entry'[c].at = "out"
    BY <1>1 DEF EntryAt
  <2>2. PICK d \in Clients : GetOrCreate(d) \/ SaveUser(d)
    <3>1. ~ UNCHANGED entry
      BY <2>1
    <3>2. ASSUME NEW d \in Clients, Authenticate(d) PROVE FALSE
      <4> PICK t, i : entry' = [entry EXCEPT ![d] = [at |-> "create", account |-> i,
                                                     login |-> t.login]]
        BY <3>1, <3>2 DEF Authenticate
      <4>1. entry'[c].at \in {"create", entry[c].at}
        BY <1>1 DEF IInv, EntryInv
      <4>2. QED
        BY <2>1, <4>1
    <3>3. ASSUME NEW d \in Clients, EndEntry(d) PROVE FALSE
      <4>1. EntryEnds(d, "idle")
        BY <3>3 DEF EndEntry, EntryEnds, NoEntry
      <4>2. entry'[c].at \in {"idle", entry[c].at}
        BY <1>1, <4>1, EndsStep DEF IInv
      <4>3. QED
        BY <2>1, <4>2
    <3>4. QED
      BY <1>1, <3>1, <3>2, <3>3 DEF Next, vars, CreateSuperuser
  <2>3. c = d /\ EntryEnds(c, "out")
    <3>1. CASE EntryAt(d, "create") /\ EntryGo(d, "save")
      BY <1>1, <2>1, <3>1, SaveNext DEF IInv
    <3>2. CASE EntryEnds(d, "idle")
      <4>1. entry'[c].at \in {"idle", entry[c].at}
        BY <1>1, <3>2, EndsStep DEF IInv
      <4>2. QED
        BY <2>1, <4>1
    <3>3. CASE EntryEnds(d, "out")
      BY <1>1, <2>1, <3>3, EndsStep DEF IInv
    <3>4. QED
      BY <2>2, <3>1, <3>2, <3>3 DEF GetOrCreate, SaveUser
  <2> PICK i, l : i = entry[c].account /\ l = entry[c].login
    OBVIOUS
  <2>4. i \in Accounts /\ l \in Logins /\ l # None
    BY <1>1, <2>2, <2>3 DEF IInv, EntryInv, GetOrCreate, SaveUser, EntryAt, Logins
  <2>5. \A j \in Accounts : users[j].login \in Logins \cup {None}
    BY <1>1 DEF IInv, AInv, TypeOK
  <2>6. CASE GetOrCreate(c)
    <3>1. Clash(i, Blank)
      <4>1. ~ EntryGo(c, "save")
        BY <1>1, <2>1, <2>6, SaveNext DEF IInv, GetOrCreate
      <4>2. QED
        BY <2>6, <4>1 DEF GetOrCreate
    <3>2. PICK j \in Rows \ {i} : mirror[j] = Blank
      BY <3>1 DEF Clash
    <3>3. j # Local
      <4>1. mirror[Local] \in {None, Superuser} /\ Superuser \in Logins
        BY <1>1, SuperuserAssumption DEF IInv, EntryInv, Logins
      <4>2. QED
        BY <3>2, <4>1, BlankAssumption
    <3>4. j \in Accounts \ {i} /\ OutOfDate(j)
      BY <2>5, <3>2, <3>3, BlankAssumption DEF OutOfDate, Rows
    <3>5. QED
      BY <3>4
  <2>7. CASE SaveUser(c)
    <3>1. Clash(i, l)
      <4>1. ~ EntryEnds(c, "idle")
        BY <1>1, <2>1, EndsStep DEF IInv
      <4>2. QED
        BY <2>7, <4>1 DEF SaveUser
    <3>2. PICK j \in Rows \ {i} : mirror[j] = l
      BY <3>1 DEF Clash
    <3>3. CASE j = Local
      BY <3>2, <3>3
    <3>4. CASE j # Local
      <4>1. j \in Accounts \ {i}
        BY <3>2, <3>4 DEF Rows
      <4>2. ASSUME users[i].login = l, users[j].login = l PROVE FALSE
        <5>1. made \in Nat /\ ~ (i > made) /\ ~ (j > made)
          BY <1>1, <2>4, <4>1, <4>2 DEF IInv, AInv, TypeOK
        <5>2. i \in 1..made /\ j \in 1..made
          BY <2>4, <4>1, <5>1, BoundsAssumption DEF Accounts
        <5>3. QED
          BY <1>1, <4>1, <4>2, <5>2 DEF IInv, AInv, OneAccountPerLogin
      <4>3. QED
        BY <2>4, <3>2, <4>1, <4>2 DEF OutOfDate
    <3>5. QED
      BY <3>3, <3>4
  <2>8. QED
    BY <2>2, <2>3, <2>6, <2>7
<1>2. IInv /\ [Next]_vars =>
         \A c \in Clients : ~ EntryAt(c, "out") /\ EntryAt(c, "out")' => Why(c)
  BY <1>1
<1>3. QED
  BY SpecIInv, <1>2, PTL DEF Spec, KeptOutOnlyByAnotherRow
=============================================================================
