-------------------------- MODULE AuthTokensProofs --------------------------
(***************************************************************************)
(* Proofs about AuthTokens, for any clients, any number of requests in     *)
(* flight and any number of tokens.                                        *)
(***************************************************************************)
EXTENDS AuthTokens, TLAPS

USE ClientsAssumption, LifeAssumption, BoundsAssumption

Issued == 1..issued

\* A request in flight belongs to a client; what it holds was issued, and to
\* the user of that client.
RequestOK(q) ==
    /\ q.sent.refresh \in Issued \cup {0}
    /\ q.at # "idle" => q.client \in Clients
    /\ q.at # "idle" /\ q.sent.refresh # 0 => owner[q.sent.refresh] = q.client
    /\ q.at \in {"delete", "mint"} => q.sent.refresh # 0
    /\ q.at = "record" \/ (q.at = "reply" /\ q.reply = "tokens")
          => q.made.refresh \in Issued /\ owner[q.made.refresh] = q.client

ReqInv == \A r \in Requests : RequestOK(req[r])

\* A client's cookies hold tokens of its own user.
JarInv ==
    \A c \in Clients :
        cookies[c].refresh # 0 => /\ cookies[c].refresh \in Issued
                                  /\ owner[cookies[c].refresh] = c

Typed == TypeOK /\ ReqInv /\ JarInv

\* The constant records have their types.
LEMMA RecordsTyped ==
    /\ NoCookies \in Cookies
    /\ NoRequest \in RequestStates
    /\ NoRequest.at = "idle" /\ NoRequest.sent.refresh = 0
  BY DEF NoCookies, Cookies, NoRequest, RequestStates, Expiries, Places, Operations

\* The strengthened type invariant holds at first ...
LEMMA TypedInit == Init => Typed
<1> SUFFICES ASSUME Init PROVE Typed
  OBVIOUS
<1>1. TypeOK
  BY RecordsTyped DEF Init, TypeOK, Tokens
<1>2. ReqInv
  BY RecordsTyped DEF Init, ReqInv, RequestOK
<1>3. JarInv
  BY DEF Init, JarInv, NoCookies
<1>4. QED
  BY <1>1, <1>2, <1>3 DEF Typed

\* The parts of a request's state.
LEMMA RequestTyped ==
    ASSUME TypeOK, NEW r \in Requests
    PROVE  /\ req[r].at \in Places /\ req[r].op \in Operations
           /\ req[r].client \in Clients \cup {Nobody}
           /\ req[r].sent \in Cookies /\ req[r].made \in Cookies
           /\ req[r].reply \in {"plain", "tokens", "clear"}
           /\ req[r].sent.refresh \in Tokens \cup {0}
           /\ req[r].made.refresh \in Tokens \cup {0}
  BY DEF TypeOK, RequestStates, Cookies

\* Of the cookies sent the endpoint looks at all, some or none.
LEMMA LookedTyped ==
    ASSUME NEW op \in Operations, NEW jar \in Cookies
    PROVE  Looked(op, jar) \in Cookies /\ Looked(op, jar).refresh \in {0, jar.refresh}
  BY DEF Operations, Cookies, Looked, NoCookies, Expiries

\* A new pair has the next token.
LEMMA NewPairTyped ==
    ASSUME TypeOK, issued < MaxTokens
    PROVE  NewPair \in Cookies /\ NewPair.refresh = issued + 1 /\ issued + 1 \in Tokens
  BY DEF TypeOK, NewPair, Cookies, FreshAccess, Expiries, Tokens

\* A request that has made a pair and is to record it.
LEMMA MadeTyped ==
    ASSUME NEW q \in RequestStates, NEW pair \in Cookies
    PROVE  LET p == [q EXCEPT !.at = "record", !.made = pair]
           IN  /\ p \in RequestStates /\ p.at = "record" /\ p.client = q.client
               /\ p.sent = q.sent /\ p.made = pair
  BY DEF RequestStates, Places

\* What an answer is.
LEMMA ReplyTyped ==
    ASSUME TypeOK, NEW r \in Requests, NEW kind \in {"plain", "tokens", "clear"},
           NEW pair \in Cookies
    PROVE  /\ Reply(r, kind, pair) \in RequestStates
           /\ Reply(r, kind, pair).at = "reply"
           /\ Reply(r, kind, pair).client = req[r].client
           /\ Reply(r, kind, pair).sent.refresh = 0
           /\ Reply(r, kind, pair).made = pair
           /\ Reply(r, kind, pair).reply = kind
  BY RequestTyped, RecordsTyped
  DEF Reply, NoRequest, RequestStates, Places, NoCookies, Operations

\* A move of one request from place to place.
LEMMA GoTyped ==
    ASSUME TypeOK, NEW r \in Requests, NEW place \in Places, Go(r, place)
    PROVE  /\ req' \in [Requests -> RequestStates]
           /\ req'[r].at = place
           /\ req'[r].op = req[r].op /\ req'[r].client = req[r].client
           /\ req'[r].sent = req[r].sent /\ req'[r].made = req[r].made
           /\ req'[r].reply = req[r].reply
           /\ \A s \in Requests \ {r} : req'[s] = req[s]
  BY DEF TypeOK, Go, RequestStates

\* An answer by one request.
LEMMA AnswerTyped ==
    ASSUME TypeOK, NEW r \in Requests, NEW kind \in {"plain", "tokens", "clear"},
           NEW pair \in Cookies, Answer(r, kind, pair)
    PROVE  /\ req' \in [Requests -> RequestStates]
           /\ req'[r].at = "reply" /\ req'[r].client = req[r].client
           /\ req'[r].sent.refresh = 0 /\ req'[r].made = pair
           /\ req'[r].reply = kind
           /\ \A s \in Requests \ {r} : req'[s] = req[s]
<1>1. Reply(r, kind, pair) \in RequestStates
  BY ReplyTyped
<1>2. req' = [req EXCEPT ![r] = Reply(r, kind, pair)]
  BY DEF Answer
<1>3. req'[r] = Reply(r, kind, pair)
  BY <1>2 DEF TypeOK
<1>4. QED
  BY <1>1, <1>2, <1>3, ReplyTyped DEF TypeOK

\* A step that moves one request and neither issues a token nor changes the
\* cookies keeps the invariant if it leaves that request as it should be.
LEMMA OneRequest ==
    ASSUME Typed, NEW r \in Requests,
           UNCHANGED <<issued, owner, cookies>>,
           \A s \in Requests \ {r} : req'[s] = req[s],
           RequestOK(req[r])'
    PROVE  ReqInv' /\ JarInv'
<1>1. ASSUME NEW s \in Requests PROVE RequestOK(req[s])'
  BY DEF Typed, ReqInv, RequestOK, Issued
<1>2. JarInv'
  BY DEF Typed, JarInv, Issued
<1>3. QED
  BY <1>1, <1>2 DEF ReqInv

\* So does a step that issues a token.
LEMMA OneIssued ==
    ASSUME Typed, NEW r \in Requests, NEW user \in Clients, NEW old \in Issued \cup {0},
           IssueToken(user, old),
           UNCHANGED cookies,
           \A s \in Requests \ {r} : req'[s] = req[s],
           RequestOK(req[r])'
    PROVE  ReqInv' /\ JarInv'
<1>1. issued' = issued + 1 /\ issued \in Nat /\ Issued \subseteq Tokens
  BY DEF Typed, TypeOK, IssueToken, Issued, Tokens
<1>2. Issued \subseteq Issued' /\ \A t \in Issued : owner'[t] = owner[t]
  BY <1>1 DEF Typed, TypeOK, IssueToken, Issued
<1>3. ASSUME NEW s \in Requests PROVE RequestOK(req[s])'
  <2>1. CASE s = r
    BY <2>1
  <2>2. CASE s # r
    <3>1. req'[s] = req[s] /\ RequestOK(req[s])
      BY <2>2 DEF Typed, ReqInv
    <3>2. QED
      BY <3>1, <1>2 DEF RequestOK
  <2>3. QED
    BY <2>1, <2>2
<1>4. JarInv'
  BY <1>2 DEF Typed, JarInv
<1>5. QED
  BY <1>3, <1>4 DEF ReqInv

\* What issuing a token does to the table.
LEMMA IssueTyped ==
    ASSUME TypeOK, NEW user \in Clients, NEW old \in Issued \cup {0},
           IssueToken(user, old)
    PROVE  /\ issued' \in 0..MaxTokens /\ issued' = issued + 1
           /\ rows' \subseteq 1..issued'
           /\ owner' \in [Tokens -> Clients \cup {Nobody}]
           /\ owner'[issued + 1] = user
           /\ origin' \in [Tokens -> 0..issued']
  BY DEF TypeOK, IssueToken, Issued, Tokens

\* ... and every step keeps it.
LEMMA TypedStep == Typed /\ [Next]_vars => Typed'
<1> SUFFICES ASSUME Typed, [Next]_vars PROVE Typed'
  OBVIOUS
<1> USE DEF Typed
<1>1. CASE Tick
  BY <1>1 DEF Tick, table, TypeOK, ReqInv, JarInv, RequestOK, Issued
<1>2. ASSUME NEW r \in Requests, NEW c \in Clients, NEW op \in Operations,
             Send(r, c, op)
      PROVE  Typed'
  <2> DEFINE q == [NoRequest EXCEPT !.at = FirstPlace(op), !.op = op,
                                    !.client = c, !.sent = Looked(op, cookies[c])]
  <2>1. cookies[c] \in Cookies
    BY DEF TypeOK
  <2>2. FirstPlace(op) \in {"verify", "read", "guard"}
    BY DEF FirstPlace, Operations
  <2>3. Looked(op, cookies[c]) \in Cookies
        /\ Looked(op, cookies[c]).refresh \in {0, cookies[c].refresh}
    BY <2>1, LookedTyped
  <2>4. q \in RequestStates /\ q.at = FirstPlace(op) /\ q.client = c
        /\ q.sent = Looked(op, cookies[c])
    BY <2>2, <2>3, RecordsTyped DEF NoRequest, RequestStates, Places
  <2>5. req'[r] = q /\ \A s \in Requests \ {r} : req'[s] = req[s]
    BY <1>2 DEF Send, TypeOK
  <2>6. req' \in [Requests -> RequestStates]
    BY <1>2, <2>4 DEF Send, TypeOK
  <2>7. TypeOK'
    BY <1>2, <2>6 DEF Send, TypeOK, table
  <2>8. UNCHANGED <<issued, owner, cookies>>
    BY <1>2 DEF Send, table
  <2>9. RequestOK(req[r])'
    BY <2>2, <2>3, <2>4, <2>5, <2>8 DEF RequestOK, JarInv, Issued
  <2>10. QED
    BY <2>5, <2>7, <2>8, <2>9, OneRequest
<1>3. ASSUME NEW c \in Clients, NEW name \in {"access", "refresh"}, Forget(c, name)
      PROVE  Typed'
  <2>1. ASSUME NEW d \in Clients
        PROVE  /\ cookies'[d] \in Cookies
               /\ cookies'[d].refresh \in {0, cookies[d].refresh}
    BY <1>3 DEF Forget, TypeOK, Cookies, Expiries
  <2>2. cookies' \in [Clients -> Cookies]
    BY <1>3, <2>1 DEF Forget, TypeOK
  <2>3. TypeOK'
    BY <1>3, <2>2 DEF Forget, TypeOK, table
  <2>4. JarInv'
    BY <1>3, <2>1 DEF Forget, JarInv, table, Issued
  <2>5. ReqInv'
    BY <1>3 DEF Forget, ReqInv, RequestOK, table, Issued
  <2>6. QED
    BY <2>3, <2>4, <2>5
<1>4. ASSUME NEW r \in Requests, Receive(r) PROVE Typed'
  <2> DEFINE c == req[r].client
  <2>1. c \in Clients /\ req[r].made \in Cookies
    BY <1>4, RequestTyped DEF Receive, At, ReqInv, RequestOK
  <2>2. req'[r] = NoRequest /\ \A s \in Requests \ {r} : req'[s] = req[s]
    BY <1>4 DEF Receive, TypeOK
  <2>3. req' \in [Requests -> RequestStates]
    BY <1>4, RecordsTyped DEF Receive, TypeOK
  <2>4. UNCHANGED <<issued, owner>>
    BY <1>4 DEF Receive, table
  <2>5. /\ cookies' \in [Clients -> Cookies]
        /\ \A d \in Clients \ {c} : cookies'[d] = cookies[d]
        /\ \/ cookies'[c] = cookies[c]
           \/ cookies'[c] = NoCookies
           \/ req[r].reply = "tokens" /\ cookies'[c] = req[r].made
    BY <1>4, <2>1, RequestTyped, RecordsTyped DEF Receive, TypeOK
  <2>6. TypeOK'
    BY <1>4, <2>3, <2>5 DEF Receive, TypeOK, table
  <2>7. ASSUME NEW d \in Clients, cookies'[d].refresh # 0
        PROVE  cookies'[d].refresh \in Issued /\ owner[cookies'[d].refresh] = d
    <3>1. RequestOK(req[r]) /\ req[r].at = "reply"
      BY <1>4 DEF Receive, At, ReqInv
    <3>2. CASE cookies'[d] = cookies[d]
      BY <2>7, <3>2 DEF JarInv
    <3>3. CASE d = c /\ req[r].reply = "tokens" /\ cookies'[d] = req[r].made
      BY <3>1, <3>3 DEF RequestOK
    <3>4. QED
      BY <2>5, <2>7, <3>2, <3>3 DEF NoCookies
  <2>8. ReqInv'
    BY <2>2, <2>4, RecordsTyped DEF ReqInv, RequestOK, Issued
  <2>9. JarInv'
    BY <2>4, <2>7 DEF JarInv, Issued
  <2>10. QED
    BY <2>6, <2>8, <2>9
<1>5. ASSUME NEW r \in Requests, Abort(r) PROVE Typed'
  <2>1. req'[r] = NoRequest /\ \A s \in Requests \ {r} : req'[s] = req[s]
    BY <1>5 DEF Abort, TypeOK
  <2>2. req' \in [Requests -> RequestStates] /\ req[r].client \in Clients
    BY <1>5, RecordsTyped DEF Abort, TypeOK, ReqInv, RequestOK, At
  <2>3. TypeOK'
    BY <1>5, <2>2 DEF Abort, TypeOK, table
  <2>4. RequestOK(req[r])'
    BY <2>1, RecordsTyped DEF RequestOK
  <2>5. QED
    BY <1>5, <2>1, <2>3, <2>4, OneRequest DEF Abort, table
<1>6. ASSUME NEW r \in Requests, NEW kind \in {"plain", "clear"},
             Answer(r, kind, NoCookies),
             UNCHANGED <<time, table, history, cookies, disturbed>>,
             shared' \subseteq Tokens, ~ At(r, "idle")
      PROVE  Typed'
  <2>1. /\ req' \in [Requests -> RequestStates]
        /\ req'[r].at = "reply" /\ req'[r].client = req[r].client
        /\ req'[r].sent.refresh = 0 /\ req'[r].reply = kind
        /\ \A s \in Requests \ {r} : req'[s] = req[s]
    BY <1>6, AnswerTyped, RecordsTyped
  <2>2. TypeOK'
    BY <1>6, <2>1 DEF TypeOK, table
  <2>3. RequestOK(req[r])'
    BY <1>6, <2>1 DEF RequestOK, ReqInv, At
  <2>4. QED
    BY <1>6, <2>1, <2>2, <2>3, OneRequest DEF table
<1>7. ASSUME NEW r \in Requests, NEW place \in Places \ {"idle", "reply", "record"},
             Go(r, place), ~ At(r, "idle"),
             place \in {"delete", "mint"} => req[r].sent.refresh # 0,
             rows' \subseteq rows, shared' \subseteq Tokens,
             UNCHANGED <<time, owner, issued, origin, history, cookies, disturbed>>
      PROVE  Typed'
  <2>1. /\ req' \in [Requests -> RequestStates]
        /\ req'[r].at = place /\ req'[r].client = req[r].client
        /\ req'[r].sent = req[r].sent
        /\ \A s \in Requests \ {r} : req'[s] = req[s]
    BY <1>7, GoTyped
  <2>2. TypeOK'
    BY <1>7, <2>1 DEF TypeOK
  <2>3. RequestOK(req[r])'
    BY <1>7, <2>1 DEF RequestOK, ReqInv, At, Issued
  <2>4. QED
    BY <1>7, <2>1, <2>2, <2>3, OneRequest
<1>8. ASSUME NEW r \in Requests, EnterVerified(r) PROVE Typed'
  <2>1. issued < MaxTokens /\ req[r].client \in Clients /\ req[r].sent.refresh \in Issued \cup {0}
    BY <1>8 DEF EnterVerified, IssueToken, At, ReqInv, RequestOK
  <2>2. NewPair \in Cookies /\ NewPair.refresh = issued + 1
    BY <2>1, NewPairTyped
  <2>3. req' = [req EXCEPT ![r].at = "record", ![r].made = NewPair]
    BY <1>8 DEF EnterVerified
  <2>4. /\ req' \in [Requests -> RequestStates]
        /\ req'[r].at = "record" /\ req'[r].client = req[r].client
        /\ req'[r].sent = req[r].sent /\ req'[r].made = NewPair
        /\ \A s \in Requests \ {r} : req'[s] = req[s]
    <3> DEFINE q == [req[r] EXCEPT !.at = "record", !.made = NewPair]
    <3>1. /\ q \in RequestStates /\ q.at = "record" /\ q.client = req[r].client
          /\ q.sent = req[r].sent /\ q.made = NewPair
      BY <2>2, MadeTyped DEF TypeOK
    <3>2. req' = [req EXCEPT ![r] = q]
      BY <2>3 DEF TypeOK
    <3>3. QED
      BY <3>1, <3>2 DEF TypeOK
  <2>5. IssueToken(req[r].client, 0) /\ UNCHANGED <<time, history, cookies, shared, disturbed>>
    BY <1>8 DEF EnterVerified
  <2>6. /\ issued' = issued + 1 /\ issued' \in 0..MaxTokens /\ rows' \subseteq 1..issued'
        /\ owner' \in [Tokens -> Clients \cup {Nobody}]
        /\ owner'[issued + 1] = req[r].client /\ origin' \in [Tokens -> 0..issued']
    BY <2>1, <2>5, IssueTyped
  <2>7. TypeOK'
    BY <2>4, <2>5, <2>6 DEF TypeOK
  <2>8. /\ req[r].sent.refresh # 0 =>
             owner'[req[r].sent.refresh] = req[r].client
        /\ Issued' = 1..(issued + 1) /\ issued \in Nat
    BY <1>8, <2>1, <2>5, <2>6 DEF EnterVerified, At, ReqInv, RequestOK, IssueToken, TypeOK, Issued, Tokens
  <2>9. RequestOK(req[r])'
    BY <2>1, <2>2, <2>4, <2>6, <2>8 DEF RequestOK, Issued
  <2>10. QED
    BY <2>1, <2>4, <2>5, <2>7, <2>9, OneIssued
<1>9. ASSUME NEW r \in Requests, EnterRecorded(r) PROVE Typed'
  <2>1. req[r].made \in Cookies /\ RequestOK(req[r]) /\ req[r].at = "record"
    BY <1>9, RequestTyped DEF EnterRecorded, At, ReqInv
  <2>2. /\ req' \in [Requests -> RequestStates]
        /\ req'[r].at = "reply" /\ req'[r].client = req[r].client
        /\ req'[r].sent.refresh = 0 /\ req'[r].made = req[r].made
        /\ \A s \in Requests \ {r} : req'[s] = req[s]
    BY <1>9, <2>1, AnswerTyped DEF EnterRecorded
  <2>3. history' \subseteq 1..issued
    BY <1>9, <2>1 DEF EnterRecorded, RequestOK, TypeOK, Issued
  <2>4. TypeOK'
    BY <1>9, <2>2, <2>3 DEF EnterRecorded, TypeOK, table
  <2>5. RequestOK(req[r])'
    BY <1>9, <2>1, <2>2 DEF EnterRecorded, RequestOK, Issued, table
  <2>6. QED
    BY <1>9, <2>2, <2>4, <2>5, OneRequest DEF EnterRecorded, table
<1>10. ASSUME NEW r \in Requests, UpdateMint(r) PROVE Typed'
  <2> DEFINE t == req[r].sent.refresh
  <2>1. /\ issued < MaxTokens /\ t \in Issued /\ req[r].client \in Clients
        /\ owner[t] = req[r].client /\ req[r].at = "mint"
    BY <1>10 DEF UpdateMint, IssueToken, At, ReqInv, RequestOK
  <2>2. NewPair \in Cookies /\ NewPair.refresh = issued + 1
    BY <2>1, NewPairTyped
  <2>3. IssueToken(req[r].client, t) /\ UNCHANGED <<time, history, cookies, shared>>
    BY <1>10, <2>1 DEF UpdateMint
  <2>4. /\ issued' = issued + 1 /\ issued' \in 0..MaxTokens /\ rows' \subseteq 1..issued'
        /\ owner' \in [Tokens -> Clients \cup {Nobody}]
        /\ owner'[issued + 1] = req[r].client /\ origin' \in [Tokens -> 0..issued']
    BY <2>1, <2>3, IssueTyped
  <2>5. owner'[t] = req[r].client /\ Issued' = 1..(issued + 1) /\ issued \in Nat
    BY <2>1, <2>3, <2>4 DEF IssueToken, TypeOK, Issued, Tokens
  <2>6. CASE req[r].op = "update_access"
    <3>1. /\ req' \in [Requests -> RequestStates]
          /\ req'[r].at = "reply" /\ req'[r].client = req[r].client
          /\ req'[r].sent.refresh = 0 /\ req'[r].made = NewPair
          /\ \A s \in Requests \ {r} : req'[s] = req[s]
      BY <1>10, <2>2, <2>6, AnswerTyped DEF UpdateMint
    <3>2. TypeOK'
      BY <1>10, <2>3, <2>4, <2>6, <3>1 DEF UpdateMint, TypeOK
    <3>3. RequestOK(req[r])'
      BY <2>1, <2>2, <2>4, <2>5, <3>1 DEF RequestOK, Issued
    <3>4. QED
      BY <2>1, <2>3, <3>1, <3>2, <3>3, OneIssued
  <2>7. CASE req[r].op # "update_access"
    <3>1. /\ req' \in [Requests -> RequestStates]
          /\ req'[r].at = "call" /\ req'[r].client = req[r].client
          /\ req'[r].sent = req[r].sent
          /\ \A s \in Requests \ {r} : req'[s] = req[s]
      BY <1>10, <2>7, GoTyped DEF UpdateMint, Places
    <3>2. TypeOK'
      BY <1>10, <2>1, <2>3, <2>4, <2>7, <3>1 DEF UpdateMint, TypeOK
    <3>3. RequestOK(req[r])'
      BY <2>1, <2>4, <2>5, <3>1 DEF RequestOK, Issued
    <3>4. QED
      BY <2>1, <2>3, <3>1, <3>2, <3>3, OneIssued
  <2>8. QED
    BY <2>6, <2>7
<1>11. ASSUME NEW r \in Requests, EnterRefused(r) PROVE Typed'
  BY <1>11, <1>6 DEF EnterRefused, At, TypeOK
<1>12. ASSUME NEW r \in Requests, UpdateRead(r) PROVE Typed'
  <2>1. At(r, "read") /\ ~ At(r, "idle") /\ req[r].sent.refresh \in Tokens \cup {0}
    BY <1>12, RequestTyped DEF UpdateRead, At
  <2>2. CASE req[r].sent.refresh \in rows
    <3>1. req[r].sent.refresh \in Tokens /\ req[r].sent.refresh # 0
      BY <2>1, <2>2 DEF TypeOK
    <3>2. shared' \subseteq Tokens /\ Go(r, "delete")
      BY <1>12, <2>2, <3>1 DEF UpdateRead, TypeOK
    <3>3. QED
      BY <1>12, <1>7, <2>1, <3>1, <3>2 DEF UpdateRead, table, Places
  <2>3. CASE req[r].sent.refresh \notin rows
    BY <1>12, <1>6, <2>1, <2>3 DEF UpdateRead, TypeOK
  <2>4. QED
    BY <2>2, <2>3
<1>13. ASSUME NEW r \in Requests, UpdateDelete(r) PROVE Typed'
  <2>1. req[r].sent.refresh # 0 /\ ~ At(r, "idle")
    BY <1>13 DEF UpdateDelete, At, ReqInv, RequestOK
  <2>2. shared' \subseteq Tokens /\ rows' \subseteq rows
    BY <1>13 DEF UpdateDelete, TypeOK
  <2>3. QED
    BY <1>13, <1>7, <2>1, <2>2 DEF UpdateDelete, Places
<1>14. ASSUME NEW r \in Requests, Guard(r) PROVE Typed'
  <2>1. ~ At(r, "idle") /\ shared' \subseteq Tokens
    BY <1>14 DEF Guard, At, TypeOK
  <2>2. Answer(r, "plain", NoCookies) \/ Go(r, "compare")
    BY <1>14 DEF Guard
  <2>3. QED
    BY <1>14, <1>6, <1>7, <2>1, <2>2 DEF Guard, table, Places
<1>15. ASSUME NEW r \in Requests, Compare(r) PROVE Typed'
  <2>1. ~ At(r, "idle") /\ shared' \subseteq Tokens
    BY <1>15 DEF Compare, At, TypeOK
  <2>2. Go(r, "read") \/ Go(r, "call")
    BY <1>15 DEF Compare
  <2>3. QED
    BY <1>15, <1>7, <2>1, <2>2 DEF Compare, table, Places
<1>16. ASSUME NEW r \in Requests, Call(r) PROVE Typed'
  <2>1. ~ At(r, "idle") /\ shared' \subseteq Tokens
    BY <1>16 DEF Call, At, TypeOK
  <2>2. Answer(r, "clear", NoCookies) \/ Answer(r, "plain", NoCookies)
    BY <1>16 DEF Call
  <2>3. QED
    BY <1>16, <1>6, <2>1, <2>2 DEF Call
<1>17. CASE UNCHANGED vars
  BY <1>17 DEF vars, TypeOK, ReqInv, JarInv, RequestOK, Issued
<1>18. QED
  BY <1>1, <1>2, <1>3, <1>4, <1>5, <1>8, <1>9, <1>10, <1>11, <1>12, <1>13,
     <1>14, <1>15, <1>16, <1>17 DEF Next

\* Every token a request or a cookie holds was issued, to the user it belongs to.
THEOREM TypeCorrect == Spec => []Typed
  BY TypedInit, TypedStep, PTL DEF Spec

\* Every variable has its type and its bound.
THEOREM TypeOKHolds == Spec => []TypeOK
<1>1. Typed => TypeOK
  BY DEF Typed
<1>2. QED
  BY <1>1, TypeCorrect, PTL

-----------------------------------------------------------------------------
(***************************************************************************)
(* One pair per token.                                                     *)
(***************************************************************************)
\* A token that never had two holders at once has one at most; once the
\* holder has deleted it the row is gone, and once there is a token in
\* exchange for it so is the holder.
SpentInv ==
    \A t \in Tokens \ shared :
        /\ \A r, s \in Requests : Holds(r, t) /\ Holds(s, t) => r = s
        /\ \A r \in Requests : Holds(r, t) /\ At(r, "mint") => t \notin rows
        /\ \A u \in Issued : origin[u] = t =>
              /\ t \notin rows
              /\ \A r \in Requests : ~ Holds(r, t)
              /\ \A v \in Issued : origin[v] = t => u = v

\* Steps that leave the table, the moments of holding and the shared tokens.
LEMMA SpentFrame ==
    ASSUME SpentInv, UNCHANGED <<rows, issued, origin, shared>>,
           \A r \in Requests, t \in Tokens :
              /\ Holds(r, t)' => Holds(r, t)
              /\ Holds(r, t)' /\ At(r, "mint")' => At(r, "mint")
    PROVE  SpentInv'
  BY DEF SpentInv, Issued

\* A request that ends up nowhere near a token, the others staying put.
LEMMA SpentElsewhere ==
    ASSUME SpentInv, UNCHANGED <<rows, issued, origin, shared>>,
           NEW r \in Requests, \A s \in Requests \ {r} : req'[s] = req[s],
           req'[r].at \notin {"delete", "mint"}
    PROVE  SpentInv'
<1>1. ASSUME NEW s \in Requests, NEW t \in Tokens
      PROVE  /\ Holds(s, t)' => Holds(s, t)
             /\ Holds(s, t)' /\ At(s, "mint")' => At(s, "mint")
  <2>1. CASE s = r
    BY <2>1 DEF Holds
  <2>2. CASE s # r
    BY <2>2 DEF Holds, At
  <2>3. QED
    BY <2>1, <2>2
<1>2. QED
  BY <1>1, SpentFrame

\* Every step keeps the invariant about holders and rows.
LEMMA SpentStep == Typed /\ SpentInv /\ [Next]_vars => SpentInv'
<1> SUFFICES ASSUME Typed, SpentInv, [Next]_vars PROVE SpentInv'
  OBVIOUS
<1> USE DEF Typed
<1>1. ASSUME NEW r \in Requests, NEW kind \in {"plain", "clear", "tokens"},
             NEW pair \in Cookies, Answer(r, kind, pair),
             UNCHANGED <<rows, issued, origin, shared>>
      PROVE  SpentInv'
  BY <1>1, AnswerTyped, SpentElsewhere
<1>2. ASSUME NEW r \in Requests, NEW place \in Places \ {"delete", "mint"},
             Go(r, place), UNCHANGED <<rows, issued, origin, shared>>
      PROVE  SpentInv'
  BY <1>2, GoTyped, SpentElsewhere
<1>3. ASSUME NEW r \in Requests, req' = [req EXCEPT ![r] = NoRequest],
             UNCHANGED <<rows, issued, origin, shared>>
      PROVE  SpentInv'
  <2>1. req'[r].at = "idle" /\ \A s \in Requests \ {r} : req'[s] = req[s]
    BY <1>3, RecordsTyped DEF TypeOK
  <2>2. QED
    BY <1>3, <2>1, SpentElsewhere
<1>4. CASE UNCHANGED <<req, rows, issued, origin, shared>>
  BY <1>4 DEF SpentInv, Holds, At, Issued
<1>5. ASSUME NEW r \in Requests, NEW c \in Clients, NEW op \in Operations,
             Send(r, c, op)
      PROVE  SpentInv'
  <2>1. FirstPlace(op) \in {"verify", "read", "guard"}
    BY DEF FirstPlace, Operations
  <2>2. req'[r].at = FirstPlace(op) /\ \A s \in Requests \ {r} : req'[s] = req[s]
    BY <1>5 DEF Send, TypeOK, NoRequest
  <2>3. QED
    BY <1>5, <2>1, <2>2, SpentElsewhere DEF Send, table
\* A new token: nobody holds it and nothing was made of it.
<1>6. ASSUME NEW r \in Requests, EnterVerified(r) PROVE SpentInv'
  <2>1. /\ req'[r].at = "record"
        /\ \A s \in Requests \ {r} : req'[s] = req[s]
    BY <1>6 DEF EnterVerified, TypeOK, RequestStates
  <2>2. /\ issued' = issued + 1 /\ rows' = rows \cup {issued + 1}
        /\ origin' = [origin EXCEPT ![issued + 1] = 0]
        /\ issued + 1 \in Tokens /\ issued \in Nat /\ UNCHANGED shared
    BY <1>6 DEF EnterVerified, IssueToken, TypeOK, Tokens
  <2> SUFFICES ASSUME NEW t \in Tokens, t \notin shared
               PROVE  /\ \A x, y \in Requests : Holds(x, t)' /\ Holds(y, t)' => x = y
                      /\ \A x \in Requests : Holds(x, t)' /\ At(x, "mint")' => t \notin rows'
                      /\ \A u \in Issued' : origin'[u] = t =>
                            /\ t \notin rows'
                            /\ \A x \in Requests : ~ Holds(x, t)'
                            /\ \A v \in Issued' : origin'[v] = t => u = v
    BY <2>2 DEF SpentInv
  <2>3. ASSUME NEW x \in Requests, Holds(x, t)'
        PROVE  Holds(x, t) /\ At(x, "mint")' = At(x, "mint") /\ t # issued + 1
    <3>1. x # r /\ req'[x] = req[x]
      BY <2>1, <2>3 DEF Holds
    <3>2. Holds(x, t)
      BY <2>3, <3>1 DEF Holds
    <3>3. t \in Issued
      BY <3>2 DEF Holds, ReqInv, RequestOK
    <3>4. QED
      BY <2>2, <3>1, <3>2, <3>3 DEF At, Issued
  <2>4. ASSUME NEW u \in Issued', origin'[u] = t
        PROVE  u \in Issued /\ origin[u] = t /\ t # issued + 1
    <3>1. u \in Tokens /\ u \in 1..(issued + 1)
      BY <2>2 DEF Issued, TypeOK, Tokens
    <3>2. u # issued + 1 /\ origin[u] = t
      BY <2>2, <2>4, <3>1 DEF TypeOK, Tokens
    <3>3. u \in Issued /\ origin[u] \in 0..issued
      BY <2>2, <3>1, <3>2 DEF TypeOK, Issued
    <3>4. QED
      BY <2>2, <3>2, <3>3
  <2>5. QED
    BY <2>2, <2>3, <2>4 DEF SpentInv
<1>7. ASSUME NEW r \in Requests, UpdateRead(r), req[r].sent.refresh \in rows
      PROVE  SpentInv'
  <2> DEFINE t == req[r].sent.refresh
  <2>0. t \in Tokens
    <3>1. t \in Tokens \cup {0} /\ t \in 1..issued
      BY <1>7, RequestTyped DEF TypeOK
    <3>2. QED
      BY <3>1
  <2>1. /\ At(r, "read") /\ Go(r, "delete")
        /\ UNCHANGED <<rows, issued, origin>>
    BY <1>7 DEF UpdateRead, table
  <2>2. /\ req'[r].at = "delete" /\ req'[r].sent = req[r].sent
        /\ \A s \in Requests \ {r} : req'[s] = req[s]
    BY <2>1, GoTyped DEF Places
  <2>3. shared' = IF \E s \in Requests : Holds(s, t) THEN shared \cup {t} ELSE shared
    BY <1>7 DEF UpdateRead
  <2>4. ASSUME NEW s \in Requests, NEW u \in Tokens, Holds(s, u)'
        PROVE  /\ (s = r /\ u = t) \/ (s # r /\ Holds(s, u))
               /\ At(s, "mint")' => s # r /\ At(s, "mint")
    BY <2>2, <2>4 DEF Holds, At
  <2>5. ASSUME NEW u \in Issued, t \notin shared PROVE origin[u] # t
    BY <1>7, <2>5, <2>0 DEF SpentInv
  <2>6. QED
    BY <1>7, <2>1, <2>3, <2>4, <2>5, <2>0 DEF SpentInv, Issued
<1>8. ASSUME NEW r \in Requests, UpdateDelete(r) PROVE SpentInv'
  <2> DEFINE t == req[r].sent.refresh
  <2>1. /\ At(r, "delete") /\ Go(r, "mint") /\ rows' = rows \ {t}
        /\ UNCHANGED <<issued, origin, shared>>
    BY <1>8 DEF UpdateDelete
  <2>2. /\ req'[r].at = "mint" /\ req'[r].sent = req[r].sent
        /\ \A s \in Requests \ {r} : req'[s] = req[s]
    BY <2>1, GoTyped DEF Places
  <2>3. ASSUME NEW s \in Requests, NEW u \in Tokens
        PROVE  /\ Holds(s, u)' = Holds(s, u)
               /\ At(s, "mint")' => s = r \/ At(s, "mint")
    <3>1. CASE s = r
      BY <2>1, <2>2, <3>1 DEF Holds, At
    <3>2. CASE s # r
      BY <2>2, <3>2 DEF Holds, At
    <3>3. QED
      BY <3>1, <3>2
  <2>4. ASSUME NEW u \in Tokens, Holds(r, u) PROVE u = t
    BY <2>4 DEF Holds
  <2>5. QED
    BY <2>1, <2>3, <2>4 DEF SpentInv, Issued
<1>9. ASSUME NEW r \in Requests, UpdateMint(r) PROVE SpentInv'
  <2> DEFINE t == req[r].sent.refresh
  <2>1. /\ At(r, "mint") /\ t \in Issued /\ Holds(r, t)
    BY <1>9 DEF UpdateMint, At, ReqInv, RequestOK, Holds
  <2>2. /\ issued' = issued + 1 /\ rows' = rows \cup {issued + 1}
        /\ origin' = [origin EXCEPT ![issued + 1] = t]
        /\ issued + 1 \in Tokens /\ issued \in Nat /\ UNCHANGED shared
    BY <1>9 DEF UpdateMint, IssueToken, TypeOK, Tokens
  <2>3. req'[r].at \notin {"delete", "mint"} /\ \A s \in Requests \ {r} : req'[s] = req[s]
    <3>1. CASE req[r].op = "update_access"
      <4>1. NewPair \in Cookies
        BY <1>9, NewPairTyped DEF UpdateMint, IssueToken
      <4>2. QED
        BY <1>9, <3>1, <4>1, AnswerTyped DEF UpdateMint
    <3>2. CASE req[r].op # "update_access"
      BY <1>9, <3>2, GoTyped DEF UpdateMint, Places
    <3>3. QED
      BY <3>1, <3>2
  <2> SUFFICES ASSUME NEW w \in Tokens, w \notin shared
               PROVE  /\ \A x, y \in Requests : Holds(x, w)' /\ Holds(y, w)' => x = y
                      /\ \A x \in Requests : Holds(x, w)' /\ At(x, "mint")' => w \notin rows'
                      /\ \A u \in Issued' : origin'[u] = w =>
                            /\ w \notin rows'
                            /\ \A x \in Requests : ~ Holds(x, w)'
                            /\ \A v \in Issued' : origin'[v] = w => u = v
    BY <2>2 DEF SpentInv
  <2>4. ASSUME NEW x \in Requests, Holds(x, w)'
        PROVE  x # r /\ Holds(x, w) /\ At(x, "mint")' = At(x, "mint") /\ w # issued + 1
    <3>1. x # r /\ req'[x] = req[x]
      BY <2>3, <2>4 DEF Holds
    <3>2. Holds(x, w)
      BY <2>4, <3>1 DEF Holds
    <3>3. w \in Issued
      BY <3>2 DEF Holds, ReqInv, RequestOK
    <3>4. QED
      BY <2>2, <3>1, <3>2, <3>3 DEF At, Issued
  <2>5. ASSUME NEW u \in Issued', origin'[u] = w
        PROVE  /\ (u \in Issued /\ origin[u] = w) \/ (u = issued + 1 /\ w = t)
               /\ w # issued + 1
    <3>1. u \in Tokens /\ u \in 1..(issued + 1)
      BY <2>2 DEF Issued, TypeOK, Tokens
    <3>2. CASE u = issued + 1
      BY <2>1, <2>2, <2>5, <3>2 DEF TypeOK, Issued
    <3>3. CASE u # issued + 1
      <4>1. origin[u] = w /\ u \in Issued
        BY <2>2, <2>5, <3>1, <3>3 DEF TypeOK, Issued
      <4>2. origin[u] \in 0..issued
        BY <3>1 DEF TypeOK
      <4>3. QED
        BY <2>2, <4>1, <4>2
    <3>4. QED
      BY <3>2, <3>3
  <2>6. /\ \A x, y \in Requests : Holds(x, w) /\ Holds(y, w) => x = y
        /\ \A x \in Requests : Holds(x, w) /\ At(x, "mint") => w \notin rows
        /\ \A u \in Issued : origin[u] = w =>
              /\ w \notin rows
              /\ \A x \in Requests : ~ Holds(x, w)
              /\ \A v \in Issued : origin[v] = w => u = v
    BY DEF SpentInv
  <2>7. \A x, y \in Requests : Holds(x, w)' /\ Holds(y, w)' => x = y
    BY <2>4, <2>6
  <2>8. \A x \in Requests : Holds(x, w)' /\ At(x, "mint")' => w \notin rows'
    BY <2>2, <2>4, <2>6
  <2>9. ASSUME NEW u \in Issued', origin'[u] = w
        PROVE  /\ w \notin rows'
               /\ \A x \in Requests : ~ Holds(x, w)'
               /\ \A v \in Issued' : origin'[v] = w => u = v
    <3>1. CASE u \in Issued /\ origin[u] = w
      <4>1. w # t
        BY <2>1, <2>6, <3>1
      <4>2. QED
        BY <2>2, <2>4, <2>5, <2>6, <2>9, <3>1, <4>1
    <3>2. CASE u = issued + 1 /\ w = t
      <4>1. \A v \in Issued : origin[v] # w
        BY <2>1, <2>6, <3>2
      <4>2. w \notin rows'
        BY <1>9, <2>1, <2>2, <2>6, <2>5, <2>9, <3>2 DEF UpdateMint
      <4>3. \A x \in Requests : ~ Holds(x, w)'
        BY <2>1, <2>4, <2>6, <3>2
      <4>4. \A v \in Issued' : origin'[v] = w => u = v
        BY <2>5, <3>2, <4>1
      <4>5. QED
        BY <4>2, <4>3, <4>4
    <3>3. QED
      BY <2>5, <2>9, <3>1, <3>2
  <2>10. QED
    BY <2>7, <2>8, <2>9
<1>10. ASSUME NEW r \in Requests, Guard(r) \/ Compare(r) PROVE SpentInv'
  BY <1>10, <1>1, <1>2, RecordsTyped DEF Guard, Compare, Places, table
<1>11. ASSUME NEW r \in Requests,
              EnterRefused(r) \/ Call(r) \/ (UpdateRead(r) /\ req[r].sent.refresh \notin rows)
       PROVE  SpentInv'
  BY <1>11, <1>1, RecordsTyped DEF EnterRefused, Call, UpdateRead, table
<1>12. ASSUME NEW r \in Requests, EnterRecorded(r) PROVE SpentInv'
  BY <1>12, <1>1, RequestTyped DEF EnterRecorded, table
<1>13. QED
  BY <1>3, <1>4, <1>5, <1>6, <1>7, <1>8, <1>9, <1>10, <1>11, <1>12
  DEF Next, vars, Tick, Forget, Receive, Abort, table

\* Two tokens made of one were made by requests that held it at once: the
\* deletion of the row ends every later exchange.
THEOREM OnePairPerTokenHolds == Spec => []OnePairPerToken
<1>1. Init => SpentInv
  BY RecordsTyped DEF Init, SpentInv, Holds, Issued, Tokens
<1>2. Typed /\ SpentInv => OnePairPerToken
  <2> SUFFICES ASSUME Typed, SpentInv, NEW t \in 1..issued, NEW u \in 1..issued,
                      t # u, origin[t] = origin[u], origin[t] # 0
               PROVE  origin[t] \in shared
    BY DEF OnePairPerToken
  <2>1. origin[t] \in Tokens
    BY DEF Typed, TypeOK, Tokens
  <2>2. QED
    BY <2>1 DEF SpentInv, Issued
<1>3. QED
  BY <1>1, <1>2, SpentStep, TypeCorrect, PTL DEF Spec

-----------------------------------------------------------------------------
(***************************************************************************)
(* The entrances are recorded.                                             *)
(***************************************************************************)
Recorded(t) == origin[t] # 0 \/ t \in history

\* A token that a client was told of or that was exchanged goes back to an
\* entrance in the history.
EntrancesRecorded ==
    /\ \A c \in Clients :
          cookies[c].refresh # 0 => Recorded(cookies[c].refresh)
    /\ \A t \in 1..issued : origin[t] # 0 => Recorded(origin[t])

\* What a request came with is recorded, and what it answers with.
RequestRecorded(q) ==
    /\ q.sent.refresh # 0 => Recorded(q.sent.refresh)
    /\ q.at = "reply" /\ q.reply = "tokens" => Recorded(q.made.refresh)

RecordedInv ==
    /\ EntrancesRecorded
    /\ \A r \in Requests : RequestRecorded(req[r])

\* A token that was recorded stays so in a step that issues none ...
LEMMA RecordedFrame ==
    ASSUME Typed, RecordedInv, NEW r \in Requests,
           UNCHANGED <<issued, origin, cookies>>, history \subseteq history',
           \A s \in Requests \ {r} : req'[s] = req[s],
           RequestRecorded(req[r])'
    PROVE  RecordedInv'
<1>1. \A t \in Issued : Recorded(t) => Recorded(t)'
  BY DEF Recorded
<1>2. ASSUME NEW s \in Requests PROVE RequestRecorded(req[s])'
  <2>1. CASE s # r
    <3>1. req'[s] = req[s] /\ RequestRecorded(req[s]) /\ RequestOK(req[s])
      BY <2>1 DEF RecordedInv, Typed, ReqInv
    <3>2. QED
      BY <3>1, <1>1 DEF RequestRecorded, RequestOK
  <2>2. QED
    BY <2>1
<1>3. EntrancesRecorded'
  BY <1>1 DEF EntrancesRecorded, RecordedInv, Typed, JarInv, Recorded
<1>4. QED
  BY <1>2, <1>3 DEF RecordedInv

\* ... and in one that issues a token for a password or for a recorded token.
LEMMA RecordedIssue ==
    ASSUME Typed, RecordedInv, NEW r \in Requests,
           NEW user \in Clients, NEW old \in Issued \cup {0},
           old # 0 => Recorded(old),
           IssueToken(user, old), UNCHANGED <<cookies, history>>,
           \A s \in Requests \ {r} : req'[s] = req[s],
           RequestRecorded(req[r])'
    PROVE  RecordedInv'
<1>1. /\ issued' = issued + 1 /\ issued \in Nat /\ issued + 1 \in Tokens
      /\ origin' = [origin EXCEPT ![issued + 1] = old]
      /\ Issued \subseteq Tokens /\ issued + 1 \notin Issued
  BY DEF IssueToken, Typed, TypeOK, Tokens, Issued
<1>2. ASSUME NEW t \in Issued PROVE origin'[t] = origin[t]
  BY <1>1 DEF Typed, TypeOK
<1>3. \A t \in Issued : Recorded(t) => Recorded(t)'
  BY <1>2 DEF Recorded
<1>4. ASSUME NEW s \in Requests PROVE RequestRecorded(req[s])'
  <2>1. CASE s # r
    <3>1. req'[s] = req[s] /\ RequestRecorded(req[s]) /\ RequestOK(req[s])
      BY <2>1 DEF RecordedInv, Typed, ReqInv
    <3>2. QED
      BY <3>1, <1>3 DEF RequestRecorded, RequestOK
  <2>2. QED
    BY <2>1
<1>5. ASSUME NEW c \in Clients, cookies'[c].refresh # 0
      PROVE  Recorded(cookies[c].refresh)'
  <2>1. cookies[c].refresh \in Issued /\ Recorded(cookies[c].refresh)
    BY <1>5 DEF Typed, JarInv, RecordedInv, EntrancesRecorded
  <2>2. QED
    BY <2>1, <1>3
<1>6. ASSUME NEW t \in 1..issued', origin'[t] # 0 PROVE Recorded(origin[t])'
  <2>1. CASE t = issued + 1
    <3>1. origin'[t] = old /\ old # 0
      BY <1>1, <1>6, <2>1 DEF Typed, TypeOK
    <3>2. QED
      BY <1>3, <3>1
  <2>2. CASE t # issued + 1
    <3>1. t \in Issued
      BY <1>1, <2>2 DEF Issued
    <3>2. origin[t] = origin'[t] /\ origin[t] \in 1..issued
      BY <1>1, <1>2, <1>6, <3>1 DEF Typed, TypeOK
    <3>3. Recorded(origin[t]) /\ origin[t] \in Issued
      BY <1>6, <3>1, <3>2 DEF RecordedInv, EntrancesRecorded, Issued
    <3>4. QED
      BY <1>3, <3>2, <3>3
  <2>3. QED
    BY <2>1, <2>2
<1>7. EntrancesRecorded'
  BY <1>5, <1>6 DEF EntrancesRecorded
<1>8. QED
  BY <1>4, <1>7 DEF RecordedInv

\* Every step keeps the tokens of requests and cookies recorded.
LEMMA RecordedStep == Typed /\ RecordedInv /\ [Next]_vars => RecordedInv'
<1> SUFFICES ASSUME Typed, RecordedInv, [Next]_vars PROVE RecordedInv'
  OBVIOUS
<1>1. ASSUME NEW r \in Requests, NEW kind \in {"plain", "clear"},
             Answer(r, kind, NoCookies),
             UNCHANGED <<issued, origin, cookies, history>>
      PROVE  RecordedInv'
  <2>1. /\ req'[r].at = "reply" /\ req'[r].sent.refresh = 0 /\ req'[r].reply = kind
        /\ \A s \in Requests \ {r} : req'[s] = req[s]
    BY <1>1, AnswerTyped, RecordsTyped DEF Typed
  <2>2. RequestRecorded(req[r])'
    BY <2>1 DEF RequestRecorded
  <2>3. QED
    BY <1>1, <2>1, <2>2, RecordedFrame
<1>2. ASSUME NEW r \in Requests, NEW place \in Places \ {"reply"}, Go(r, place),
             UNCHANGED <<issued, origin, cookies, history>>
      PROVE  RecordedInv'
  <2>1. /\ req'[r].at = place /\ req'[r].sent = req[r].sent
        /\ \A s \in Requests \ {r} : req'[s] = req[s]
    BY <1>2, GoTyped DEF Typed
  <2>2. RequestRecorded(req[r])'
    BY <1>2, <2>1 DEF RequestRecorded, RecordedInv, Recorded
  <2>3. QED
    BY <1>2, <2>1, <2>2, RecordedFrame
<1>3. CASE UNCHANGED <<req, issued, origin, cookies, history>>
  BY <1>3 DEF RecordedInv, EntrancesRecorded, RequestRecorded, Recorded
<1>4. ASSUME NEW r \in Requests, NEW c \in Clients, NEW op \in Operations,
             Send(r, c, op)
      PROVE  RecordedInv'
  <2>1. cookies[c] \in Cookies
    BY DEF Typed, TypeOK
  <2>2. Looked(op, cookies[c]).refresh \in {0, cookies[c].refresh}
    BY <2>1, LookedTyped
  <2>3. /\ req'[r].at = FirstPlace(op) /\ req'[r].sent = Looked(op, cookies[c])
        /\ \A s \in Requests \ {r} : req'[s] = req[s]
    BY <1>4 DEF Send, Typed, TypeOK, NoRequest
  <2>4. FirstPlace(op) # "reply"
    BY DEF FirstPlace, Operations
  <2>5. UNCHANGED <<issued, origin, cookies, history>>
    BY <1>4 DEF Send, table
  <2>6. RequestRecorded(req[r])'
    BY <2>2, <2>3, <2>4, <2>5
    DEF RequestRecorded, RecordedInv, EntrancesRecorded, Recorded
  <2>7. QED
    BY <2>3, <2>5, <2>6, RecordedFrame
<1>5. ASSUME NEW c \in Clients, NEW name \in {"access", "refresh"}, Forget(c, name)
      PROVE  RecordedInv'
  <2>1. \A d \in Clients : cookies'[d].refresh \in {0, cookies[d].refresh}
    BY <1>5 DEF Forget, Typed, TypeOK, Cookies, Expiries
  <2>2. UNCHANGED <<issued, origin, history, req>>
    BY <1>5 DEF Forget, table
  <2>3. QED
    BY <2>1, <2>2 DEF RecordedInv, EntrancesRecorded, RequestRecorded, Recorded
<1>6. ASSUME NEW r \in Requests, Receive(r) PROVE RecordedInv'
  <2> DEFINE c == req[r].client
  <2>1. c \in Clients /\ RequestRecorded(req[r]) /\ At(r, "reply")
    BY <1>6 DEF Receive, At, Typed, ReqInv, RequestOK, RecordedInv
  <2>2. req'[r] = NoRequest /\ \A s \in Requests \ {r} : req'[s] = req[s]
    BY <1>6 DEF Receive, Typed, TypeOK
  <2>3. UNCHANGED <<issued, origin, history>>
    BY <1>6 DEF Receive, table
  <2>4. /\ \A d \in Clients \ {c} : cookies'[d] = cookies[d]
        /\ \/ cookies'[c] = cookies[c]
           \/ cookies'[c] = NoCookies
           \/ req[r].reply = "tokens" /\ cookies'[c] = req[r].made
    BY <1>6, <2>1, RequestTyped DEF Receive, Typed, TypeOK
  <2>5. ASSUME NEW d \in Clients, cookies'[d].refresh # 0
        PROVE  Recorded(cookies'[d].refresh)
    BY <2>1, <2>4, <2>5
    DEF RecordedInv, EntrancesRecorded, RequestRecorded, At, NoCookies
  <2>6. EntrancesRecorded'
    BY <2>3, <2>5 DEF RecordedInv, EntrancesRecorded, Recorded
  <2>7. ASSUME NEW s \in Requests PROVE RequestRecorded(req[s])'
    BY <2>2, <2>3, RecordsTyped DEF RecordedInv, RequestRecorded, Recorded
  <2>8. QED
    BY <2>6, <2>7 DEF RecordedInv
<1>7. ASSUME NEW r \in Requests, Abort(r) PROVE RecordedInv'
  <2>1. req'[r] = NoRequest /\ \A s \in Requests \ {r} : req'[s] = req[s]
    BY <1>7 DEF Abort, Typed, TypeOK
  <2>2. RequestRecorded(req[r])'
    BY <2>1, RecordsTyped DEF RequestRecorded
  <2>3. QED
    BY <1>7, <2>1, <2>2, RecordedFrame DEF Abort, table
<1>8. ASSUME NEW r \in Requests, EnterVerified(r) PROVE RecordedInv'
  <2>1. /\ req'[r].at = "record" /\ req'[r].sent = req[r].sent
        /\ \A s \in Requests \ {r} : req'[s] = req[s]
        /\ req[r].client \in Clients
    BY <1>8 DEF EnterVerified, Typed, TypeOK, RequestStates, ReqInv, RequestOK, At
  <2>2. IssueToken(req[r].client, 0) /\ UNCHANGED <<cookies, history>>
    BY <1>8 DEF EnterVerified
  <2>3. req[r].sent.refresh # 0 =>
            Recorded(req[r].sent.refresh) /\ req[r].sent.refresh \in Issued
    BY DEF RecordedInv, RequestRecorded, Typed, ReqInv, RequestOK
  <2>4. \A t \in Issued : origin'[t] = origin[t]
    BY <2>2 DEF IssueToken, Typed, TypeOK, Issued, Tokens
  <2>5. RequestRecorded(req[r])'
    BY <2>1, <2>2, <2>3, <2>4 DEF RequestRecorded, Recorded
  <2>6. QED
    BY <2>1, <2>2, <2>5, RecordedIssue
\* The entry is committed before the answer goes out.
<1>9. ASSUME NEW r \in Requests, EnterRecorded(r) PROVE RecordedInv'
  <2>1. req[r].made \in Cookies
    BY RequestTyped DEF Typed
  <2>2. /\ req'[r].sent.refresh = 0 /\ req'[r].made = req[r].made
        /\ \A s \in Requests \ {r} : req'[s] = req[s]
    BY <1>9, <2>1, AnswerTyped DEF EnterRecorded, Typed
  <2>3. RequestRecorded(req[r])'
    BY <1>9, <2>2 DEF RequestRecorded, Recorded, EnterRecorded
  <2>4. QED
    BY <1>9, <2>2, <2>3, RecordedFrame DEF EnterRecorded, table
<1>10. ASSUME NEW r \in Requests, UpdateMint(r) PROVE RecordedInv'
  <2> DEFINE t == req[r].sent.refresh
  <2>1. /\ issued < MaxTokens /\ t \in Issued /\ t # 0 /\ req[r].client \in Clients
        /\ owner[t] = req[r].client /\ Recorded(t)
    BY <1>10 DEF UpdateMint, IssueToken, At, Typed, ReqInv, RequestOK,
                 RecordedInv, RequestRecorded
  <2>2. IssueToken(req[r].client, t) /\ UNCHANGED <<cookies, history>>
    BY <1>10, <2>1 DEF UpdateMint
  <2>3. /\ \A u \in Issued : origin'[u] = origin[u]
        /\ origin'[issued + 1] = t
    BY <2>2 DEF IssueToken, Typed, TypeOK, Issued, Tokens
  <2>4. CASE req[r].op = "update_access"
    <3>1. NewPair \in Cookies /\ NewPair.refresh = issued + 1
      BY <2>1, NewPairTyped DEF Typed
    <3>2. /\ req'[r].sent.refresh = 0 /\ req'[r].made.refresh = issued + 1
          /\ \A s \in Requests \ {r} : req'[s] = req[s]
      BY <1>10, <2>4, <3>1, AnswerTyped DEF UpdateMint, Typed
    <3>3. RequestRecorded(req[r])'
      BY <2>1, <2>3, <3>2 DEF RequestRecorded, Recorded
    <3>4. QED
      BY <2>1, <2>2, <3>2, <3>3, RecordedIssue
  <2>5. CASE req[r].op # "update_access"
    <3>1. /\ req'[r].at = "call" /\ req'[r].sent = req[r].sent
          /\ \A s \in Requests \ {r} : req'[s] = req[s]
      BY <1>10, <2>5, GoTyped DEF UpdateMint, Places, Typed
    <3>2. RequestRecorded(req[r])'
      BY <2>1, <2>2, <2>3, <3>1 DEF RequestRecorded, Recorded
    <3>3. QED
      BY <2>1, <2>2, <3>1, <3>2, RecordedIssue
  <2>6. QED
    BY <2>4, <2>5
<1>11. ASSUME NEW r \in Requests,
              EnterRefused(r) \/ UpdateRead(r) \/ Guard(r) \/ Call(r)
       PROVE  RecordedInv'
  <2>1. UNCHANGED <<issued, origin, cookies, history>>
    BY <1>11 DEF EnterRefused, UpdateRead, Guard, Call, table
  <2>2. \/ Answer(r, "plain", NoCookies) \/ Answer(r, "clear", NoCookies)
        \/ Go(r, "delete") \/ Go(r, "compare")
    BY <1>11 DEF EnterRefused, UpdateRead, Guard, Call
  <2>3. QED
    BY <1>1, <1>2, <2>1, <2>2 DEF Places
<1>12. ASSUME NEW r \in Requests, UpdateDelete(r) \/ Compare(r) PROVE RecordedInv'
  <2>1. UNCHANGED <<issued, origin, cookies, history>>
    BY <1>12 DEF UpdateDelete, Compare, table
  <2>2. Go(r, "mint") \/ Go(r, "read") \/ Go(r, "call")
    BY <1>12 DEF UpdateDelete, Compare
  <2>3. QED
    BY <1>2, <2>1, <2>2 DEF Places
<1>13. QED
  BY <1>3, <1>4, <1>5, <1>6, <1>7, <1>8, <1>9, <1>10, <1>11, <1>12
  DEF Next, vars, Tick, table

\* Whatever token a client was told of or exchanged is recorded.
LEMMA RecordedHolds == Spec => []RecordedInv
<1>1. Init => RecordedInv
  BY RecordsTyped DEF Init, RecordedInv, EntrancesRecorded, RequestRecorded, NoCookies
<1>2. QED
  BY <1>1, RecordedStep, TypeCorrect, PTL DEF Spec

-----------------------------------------------------------------------------
(***************************************************************************)
(* A client that sends one request at a time keeps its session.            *)
(***************************************************************************)
Renewing(q) == q.at = "mint" \/ (q.at = "reply" /\ q.reply = "tokens")

\* One request at most is in flight; the token in the cookies is known unless
\* that request is about to replace it; the token it has made is known.
SessionOK(c) ==
    /\ \A r, s \in InFlight(c) : r = s
    /\ \/ cookies[c].refresh \in rows \cup {0}
       \/ \E r \in InFlight(c) : Renewing(req[r])
    /\ \A r \in InFlight(c) :
          At(r, "record") \/ (At(r, "reply") /\ req[r].reply = "tokens")
              => req[r].made.refresh \in rows

SessionInv == \A c \in Clients \ disturbed : SessionOK(c)

\* A client none of whose requests takes part in the step.
LEMMA SessionOther ==
    ASSUME Typed, NEW c \in Clients, SessionOK(c),
           NEW r \in Requests, r \notin InFlight(c), r \notin InFlight(c)',
           \A s \in Requests \ {r} : req'[s] = req[s],
           cookies'[c] = cookies[c],
           \A t \in rows \ rows' : owner[t] # c
    PROVE  SessionOK(c)'
<1>1. InFlight(c)' = InFlight(c) /\ \A s \in InFlight(c) : req'[s] = req[s]
  BY DEF InFlight, At
<1>2. cookies[c].refresh \in rows \cup {0} => cookies[c].refresh \in rows' \cup {0}
  BY DEF Typed, JarInv
<1>3. ASSUME NEW s \in InFlight(c),
             req[s].at = "record" \/ (req[s].at = "reply" /\ req[s].reply = "tokens"),
             req[s].made.refresh \in rows
      PROVE  req[s].made.refresh \in rows'
  <2>1. RequestOK(req[s]) /\ req[s].client = c
    BY DEF InFlight, Typed, ReqInv
  <2>2. QED
    BY <1>3, <2>1 DEF RequestOK
<1>4. QED
  BY <1>1, <1>2, <1>3 DEF SessionOK, Renewing, At

\* The one request of a client moves: either it is about to renew the token
\* when it has moved, or it was not before and the table has lost nothing.
LEMMA SessionMove ==
    ASSUME Typed, SessionInv, NEW r \in Requests, req[r].at # "idle",
           \A s \in Requests \ {r} : req'[s] = req[s],
           req'[r].at # "idle", req'[r].client = req[r].client,
           UNCHANGED cookies, disturbed \subseteq disturbed',
           \A t \in rows \ rows' : owner[t] = req[r].client,
           req[r].client \notin disturbed' =>
              /\ \/ Renewing(req'[r])
                 \/ ~ Renewing(req[r]) /\ rows \subseteq rows'
              /\ req'[r].at = "record" \/ (req'[r].at = "reply" /\ req'[r].reply = "tokens")
                    => req'[r].made.refresh \in rows'
    PROVE  SessionInv'
<1> SUFFICES ASSUME NEW c \in Clients, c \notin disturbed' PROVE SessionOK(c)'
  BY DEF SessionInv
<1>1. SessionOK(c)
  BY DEF SessionInv
<1>2. CASE c # req[r].client
  <2>1. r \notin InFlight(c) /\ r \notin InFlight(c)'
    BY <1>2 DEF InFlight
  <2>2. QED
    BY <1>1, <1>2, <2>1, SessionOther
<1>3. CASE c = req[r].client
  <2>1. InFlight(c) = {r}
    BY <1>1, <1>3 DEF SessionOK, InFlight, At
  <2>2. InFlight(c)' = {r}
    BY <1>3, <2>1 DEF InFlight, At
  <2>3. \/ cookies'[c].refresh \in rows' \cup {0}
        \/ Renewing(req'[r])
    BY <1>1, <1>3, <2>1 DEF SessionOK
  <2>4. QED
    BY <1>3, <2>2, <2>3 DEF SessionOK, At
<1>4. QED
  BY <1>2, <1>3

\* Every step keeps the sessions of the undisturbed clients.
LEMMA SessionStep == Typed /\ SessionInv /\ [Next]_vars => SessionInv'
<1> SUFFICES ASSUME Typed, SessionInv, [Next]_vars PROVE SessionInv'
  OBVIOUS
<1> USE DEF Typed
\* An answer without tokens, by a request that was not to renew any.
<1>1. ASSUME NEW r \in Requests, NEW kind \in {"plain", "clear"},
             Answer(r, kind, NoCookies), req[r].at \notin {"idle", "mint", "reply"},
             UNCHANGED <<rows, cookies, disturbed>>
      PROVE  SessionInv'
  <2>1. /\ req'[r].at = "reply" /\ req'[r].client = req[r].client
        /\ req'[r].reply = kind
        /\ \A s \in Requests \ {r} : req'[s] = req[s]
    BY <1>1, AnswerTyped, RecordsTyped
  <2>2. QED
    BY <1>1, <2>1, SessionMove DEF Renewing
<1>2. ASSUME NEW r \in Requests, NEW place \in Places \ {"idle", "record", "reply"},
             Go(r, place), req[r].at \notin {"idle", "mint", "reply"},
             UNCHANGED <<rows, cookies, disturbed>>
      PROVE  SessionInv'
  <2>1. /\ req'[r].at = place /\ req'[r].client = req[r].client
        /\ \A s \in Requests \ {r} : req'[s] = req[s]
    BY <1>2, GoTyped
  <2>2. QED
    BY <1>2, <2>1, SessionMove DEF Renewing
<1>3. CASE UNCHANGED <<req, rows, cookies, disturbed>>
  BY <1>3 DEF SessionInv, SessionOK, InFlight, At, Renewing
\* A second request of a client disturbs it.
<1>4. ASSUME NEW r \in Requests, NEW d \in Clients, NEW op \in Operations,
             Send(r, d, op)
      PROVE  SessionInv'
  <2>1. /\ req'[r].at = FirstPlace(op) /\ req'[r].client = d
        /\ \A s \in Requests \ {r} : req'[s] = req[s]
        /\ req[r].at = "idle" /\ UNCHANGED <<rows, cookies>>
    BY <1>4 DEF Send, TypeOK, NoRequest, At, table
  <2>2. FirstPlace(op) \in {"verify", "read", "guard"}
    BY DEF FirstPlace, Operations
  <2> SUFFICES ASSUME NEW c \in Clients, c \notin disturbed' PROVE SessionOK(c)'
    BY DEF SessionInv
  <2>3. SessionOK(c)
    BY <1>4 DEF Send, SessionInv
  <2>4. CASE c # d
    <3>1. r \notin InFlight(c) /\ r \notin InFlight(c)'
      BY <2>1, <2>4 DEF InFlight, At
    <3>2. QED
      BY <2>1, <2>3, <3>1, SessionOther
  <2>5. CASE c = d
    <3>1. InFlight(c) = {}
      BY <1>4, <2>5 DEF Send
    <3>2. InFlight(c)' = {r}
      BY <2>1, <2>2, <2>5, <3>1 DEF InFlight, At
    <3>3. QED
      BY <2>1, <2>2, <2>3, <3>1, <3>2 DEF SessionOK, At
  <2>6. QED
    BY <2>4, <2>5
<1>5. ASSUME NEW d \in Clients, NEW name \in {"access", "refresh"}, Forget(d, name)
      PROVE  SessionInv'
  <2>1. \A c \in Clients : cookies'[c].refresh \in {0, cookies[c].refresh}
    BY <1>5 DEF Forget, TypeOK, Cookies, Expiries
  <2>2. UNCHANGED <<rows, req, disturbed>>
    BY <1>5 DEF Forget, table
  <2>3. QED
    BY <2>1, <2>2 DEF SessionInv, SessionOK, InFlight, At, Renewing
<1>6. ASSUME NEW r \in Requests, Receive(r) PROVE SessionInv'
  <2> DEFINE d == req[r].client
  <2>1. d \in Clients /\ At(r, "reply")
    BY <1>6 DEF Receive, At, ReqInv, RequestOK
  <2>2. req'[r].at = "idle" /\ \A s \in Requests \ {r} : req'[s] = req[s]
    BY <1>6, RecordsTyped DEF Receive, TypeOK
  <2>3. UNCHANGED <<rows, disturbed>>
    BY <1>6 DEF Receive, table
  <2>4. /\ \A c \in Clients \ {d} : cookies'[c] = cookies[c]
        /\ \/ req[r].reply = "plain" /\ cookies'[d] = cookies[d]
           \/ cookies'[d] = NoCookies
           \/ req[r].reply = "tokens" /\ cookies'[d] = req[r].made
    BY <1>6, <2>1, RequestTyped DEF Receive, TypeOK
  <2> SUFFICES ASSUME NEW c \in Clients, c \notin disturbed' PROVE SessionOK(c)'
    BY DEF SessionInv
  <2>5. SessionOK(c)
    BY <2>3 DEF SessionInv
  <2>6. CASE c # d
    <3>1. r \notin InFlight(c) /\ r \notin InFlight(c)'
      BY <2>2, <2>6 DEF InFlight, At
    <3>2. QED
      BY <2>2, <2>3, <2>4, <2>5, <2>6, <3>1, SessionOther
  <2>7. CASE c = d
    <3>1. InFlight(c) = {r}
      BY <2>1, <2>5, <2>7 DEF SessionOK, InFlight, At
    <3>2. InFlight(c)' = {}
      BY <2>2, <3>1 DEF InFlight, At
    <3>3. cookies'[c].refresh \in rows \cup {0}
      <4>1. CASE req[r].reply = "plain" /\ cookies'[c] = cookies[c]
        BY <2>1, <2>5, <3>1, <4>1 DEF SessionOK, Renewing, At
      <4>2. CASE cookies'[c] = NoCookies
        BY <4>2 DEF NoCookies
      <4>3. CASE req[r].reply = "tokens" /\ cookies'[c] = req[r].made
        BY <2>1, <2>5, <3>1, <4>3 DEF SessionOK, At
      <4>4. QED
        BY <2>4, <2>7, <4>1, <4>2, <4>3
    <3>4. QED
      BY <2>3, <3>2, <3>3 DEF SessionOK
  <2>8. QED
    BY <2>6, <2>7
<1>7. ASSUME NEW r \in Requests, Abort(r) PROVE SessionInv'
  <2>1. /\ req'[r].at = "idle" /\ \A s \in Requests \ {r} : req'[s] = req[s]
        /\ UNCHANGED <<rows, cookies>> /\ disturbed' = disturbed \cup {req[r].client}
    BY <1>7, RecordsTyped DEF Abort, TypeOK, table
  <2> SUFFICES ASSUME NEW c \in Clients, c \notin disturbed' PROVE SessionOK(c)'
    BY DEF SessionInv
  <2>2. SessionOK(c) /\ r \notin InFlight(c) /\ r \notin InFlight(c)'
    BY <2>1 DEF SessionInv, InFlight, At
  <2>3. QED
    BY <2>1, <2>2, SessionOther
<1>8. ASSUME NEW r \in Requests, EnterVerified(r) PROVE SessionInv'
  <2>1. issued < MaxTokens /\ rows' = rows \cup {issued + 1}
    BY <1>8 DEF EnterVerified, IssueToken
  <2>2. NewPair \in Cookies /\ NewPair.refresh = issued + 1
    BY <2>1, NewPairTyped
  <2>3. /\ req[r].at = "verify"
        /\ req'[r].at = "record" /\ req'[r].client = req[r].client
        /\ req'[r].made.refresh = issued + 1
        /\ \A s \in Requests \ {r} : req'[s] = req[s]
        /\ UNCHANGED <<cookies, disturbed>>
    BY <1>8, <2>2 DEF EnterVerified, At, TypeOK, RequestStates
  <2>4. QED
    BY <2>1, <2>3, SessionMove DEF Renewing
<1>9. ASSUME NEW r \in Requests, EnterRecorded(r) PROVE SessionInv'
  <2>1. req[r].made \in Cookies
    BY RequestTyped
  <2>2. /\ req[r].at = "record" /\ req'[r].at = "reply"
        /\ req'[r].client = req[r].client /\ req[r].client \in Clients
        /\ req'[r].made = req[r].made /\ req'[r].reply = "tokens"
        /\ \A s \in Requests \ {r} : req'[s] = req[s]
        /\ UNCHANGED <<rows, cookies, disturbed>>
    BY <1>9, <2>1, AnswerTyped DEF EnterRecorded, At, table, ReqInv, RequestOK
  <2>3. req[r].client \notin disturbed => req[r].made.refresh \in rows
    BY <2>2 DEF SessionInv, SessionOK, InFlight, At
  <2>4. QED
    BY <2>2, <2>3, SessionMove DEF Renewing
\* The row goes, and the request that deleted it is about to make another.
<1>10. ASSUME NEW r \in Requests, UpdateDelete(r) PROVE SessionInv'
  <2>1. /\ req[r].at = "delete" /\ req'[r].at = "mint"
        /\ req'[r].client = req[r].client
        /\ \A s \in Requests \ {r} : req'[s] = req[s]
        /\ rows' = rows \ {req[r].sent.refresh}
        /\ UNCHANGED <<cookies, disturbed>>
    BY <1>10, GoTyped DEF UpdateDelete, At, Places
  <2>2. \A t \in rows \ rows' : owner[t] = req[r].client
    BY <2>1 DEF ReqInv, RequestOK
  <2>3. QED
    BY <2>1, <2>2, SessionMove DEF Renewing
<1>11. ASSUME NEW r \in Requests, UpdateMint(r) PROVE SessionInv'
  <2>1. issued < MaxTokens /\ rows' = rows \cup {issued + 1} /\ req[r].at = "mint"
        /\ UNCHANGED cookies
    BY <1>11 DEF UpdateMint, IssueToken, At
  <2>2. CASE req[r].op = "update_access"
    <3>1. NewPair \in Cookies /\ NewPair.refresh = issued + 1
      BY <2>1, NewPairTyped
    <3>2. /\ req'[r].at = "reply" /\ req'[r].client = req[r].client
          /\ req'[r].reply = "tokens" /\ req'[r].made.refresh = issued + 1
          /\ \A s \in Requests \ {r} : req'[s] = req[s]
          /\ UNCHANGED disturbed
      BY <1>11, <2>2, <3>1, AnswerTyped DEF UpdateMint
    <3>3. QED
      BY <2>1, <3>2, SessionMove DEF Renewing
  <2>3. CASE req[r].op # "update_access"
    <3>1. /\ req'[r].at = "call" /\ req'[r].client = req[r].client
          /\ \A s \in Requests \ {r} : req'[s] = req[s]
          /\ disturbed' = disturbed \cup {req[r].client}
      BY <1>11, <2>3, GoTyped DEF UpdateMint, Places
    <3>2. QED
      BY <2>1, <3>1, SessionMove
  <2>4. QED
    BY <2>2, <2>3
<1>12. ASSUME NEW r \in Requests,
              EnterRefused(r) \/ UpdateRead(r) \/ Guard(r) \/ Compare(r) \/ Call(r)
       PROVE  SessionInv'
  <2>1. /\ UNCHANGED <<rows, cookies, disturbed>>
        /\ req[r].at \notin {"idle", "mint", "reply"}
    BY <1>12 DEF EnterRefused, UpdateRead, Guard, Compare, Call, table, At
  <2>2. \/ Answer(r, "plain", NoCookies) \/ Answer(r, "clear", NoCookies)
        \/ Go(r, "delete") \/ Go(r, "compare") \/ Go(r, "read") \/ Go(r, "call")
    BY <1>12 DEF EnterRefused, UpdateRead, Guard, Compare, Call
  <2>3. QED
    BY <1>1, <1>2, <2>1, <2>2 DEF Places
<1>13. QED
  BY <1>3, <1>4, <1>5, <1>6, <1>7, <1>8, <1>9, <1>10, <1>11, <1>12
  DEF Next, vars, Tick, table

\* A client that sends one request at a time, meets no failure and has no
\* token exchanged by the guard holds a refresh token the table knows.
THEOREM SequentialClientKeepsSessionHolds == Spec => []SequentialClientKeepsSession
<1>1. Init => SessionInv
  BY RecordsTyped DEF Init, SessionInv, SessionOK, InFlight, At, NoCookies
<1>2. SessionInv => SequentialClientKeepsSession
  BY DEF SessionInv, SessionOK, SequentialClientKeepsSession
<1>3. QED
  BY <1>1, <1>2, SessionStep, TypeCorrect, PTL DEF Spec
-----------------------------------------------------------------------------
(***************************************************************************)
(* AuthTokens implements AuthSessions.                                     *)
(***************************************************************************)
\* A token nobody issued is nobody's; a request that is about to mint has seen
\* its row deleted; what is recorded is an entrance.
PlaceOK(q) ==
    /\ q.at = "mint" => q.sent.refresh \notin rows
    /\ q.at = "record" => origin[q.made.refresh] = 0

ExchangeInv ==
    /\ \A t \in Tokens \ Issued : owner[t] = Nobody
    /\ \A r \in Requests : PlaceOK(req[r])

\* A step of one request that issues no token.
LEMMA ExchangeFrame ==
    ASSUME ExchangeInv, NEW r \in Requests,
           UNCHANGED <<issued, owner, origin>>, rows' \subseteq rows,
           \A s \in Requests \ {r} : req'[s] = req[s],
           PlaceOK(req[r])'
    PROVE  ExchangeInv'
<1>1. ASSUME NEW s \in Requests PROVE PlaceOK(req[s])'
  BY DEF ExchangeInv, PlaceOK
<1>2. \A t \in Tokens \ Issued' : owner'[t] = Nobody
  BY DEF ExchangeInv, Issued
<1>3. QED
  BY <1>1, <1>2 DEF ExchangeInv

\* A step of one request that issues one.
LEMMA ExchangeIssue ==
    ASSUME Typed, ExchangeInv, NEW r \in Requests,
           NEW user \in Clients, NEW old \in Issued \cup {0},
           IssueToken(user, old),
           \A s \in Requests \ {r} : req'[s] = req[s],
           req'[r].at # "mint",
           req'[r].at = "record" => old = 0 /\ req'[r].made.refresh = issued + 1
    PROVE  ExchangeInv'
<1>1. /\ issued' = issued + 1 /\ issued \in Nat /\ issued + 1 \in Tokens
      /\ rows' = rows \cup {issued + 1}
      /\ owner' = [owner EXCEPT ![issued + 1] = user]
      /\ origin' = [origin EXCEPT ![issued + 1] = old]
      /\ Issued \subseteq Tokens /\ issued + 1 \notin Issued
      /\ Issued' = Issued \cup {issued + 1}
  BY DEF IssueToken, Typed, TypeOK, Tokens, Issued
<1>2. \A t \in Tokens \ Issued' : owner'[t] = Nobody
  BY <1>1 DEF ExchangeInv, Typed, TypeOK
<1>3. ASSUME NEW s \in Requests PROVE PlaceOK(req[s])'
  <2>1. CASE s = r
    BY <2>1, <1>1 DEF PlaceOK, Typed, TypeOK
  <2>2. CASE s # r
    <3>1. req'[s] = req[s] /\ RequestOK(req[s]) /\ PlaceOK(req[s])
      BY <2>2 DEF ExchangeInv, Typed, ReqInv
    <3>2. ASSUME req[s].at = "mint" PROVE req[s].sent.refresh \notin rows'
      BY <1>1, <3>1, <3>2 DEF PlaceOK, RequestOK
    <3>3. ASSUME req[s].at = "record" PROVE origin'[req[s].made.refresh] = 0
      BY <1>1, <3>1, <3>3 DEF PlaceOK, RequestOK, Typed, TypeOK
    <3>4. QED
      BY <3>1, <3>2, <3>3 DEF PlaceOK
  <2>3. QED
    BY <2>1, <2>2
<1>4. QED
  BY <1>2, <1>3 DEF ExchangeInv

LEMMA ExchangeStep == Typed /\ ExchangeInv /\ [Next]_vars => ExchangeInv'
<1> SUFFICES ASSUME Typed, ExchangeInv, [Next]_vars PROVE ExchangeInv'
  OBVIOUS
<1> USE DEF Typed
<1>1. ASSUME NEW r \in Requests, req'[r].at \notin {"mint", "record"},
             \A s \in Requests \ {r} : req'[s] = req[s],
             UNCHANGED table
      PROVE  ExchangeInv'
  BY <1>1, ExchangeFrame DEF PlaceOK, table
<1>2. ASSUME NEW r \in Requests, NEW kind \in {"plain", "clear", "tokens"},
             NEW pair \in Cookies, Answer(r, kind, pair), UNCHANGED table
      PROVE  ExchangeInv'
  <2>1. req'[r].at = "reply" /\ \A s \in Requests \ {r} : req'[s] = req[s]
    BY <1>2, AnswerTyped
  <2>2. QED
    BY <1>1, <1>2, <2>1
<1>3. ASSUME NEW r \in Requests, NEW place \in Places \ {"mint", "record"},
             Go(r, place), UNCHANGED table
      PROVE  ExchangeInv'
  <2>1. req'[r].at = place /\ \A s \in Requests \ {r} : req'[s] = req[s]
    BY <1>3, GoTyped
  <2>2. QED
    BY <1>1, <1>3, <2>1
<1>4. CASE UNCHANGED <<req, rows, owner, issued, origin>>
  BY <1>4 DEF ExchangeInv, PlaceOK, Issued
<1>5. ASSUME NEW r \in Requests, NEW c \in Clients, NEW op \in Operations,
             Send(r, c, op)
      PROVE  ExchangeInv'
  <2>1. FirstPlace(op) \notin {"mint", "record"}
    BY DEF FirstPlace, Operations
  <2>2. req'[r].at = FirstPlace(op) /\ \A s \in Requests \ {r} : req'[s] = req[s]
    BY <1>5 DEF Send, TypeOK, NoRequest
  <2>3. UNCHANGED table
    BY <1>5 DEF Send
  <2>4. QED
    BY <1>1, <2>1, <2>2, <2>3
<1>6. ASSUME NEW r \in Requests, Receive(r) \/ Abort(r) PROVE ExchangeInv'
  <2>1. req'[r] = NoRequest /\ \A s \in Requests \ {r} : req'[s] = req[s]
    BY <1>6 DEF Receive, Abort, TypeOK
  <2>2. UNCHANGED table
    BY <1>6 DEF Receive, Abort
  <2>3. QED
    BY <1>1, <2>1, <2>2, RecordsTyped
<1>7. ASSUME NEW r \in Requests, EnterVerified(r) PROVE ExchangeInv'
  <2>1. IssueToken(req[r].client, 0) /\ req[r].client \in Clients
    BY <1>7 DEF EnterVerified, ReqInv, RequestOK, At
  <2>2. /\ req'[r].at = "record" /\ req'[r].made = NewPair
        /\ \A s \in Requests \ {r} : req'[s] = req[s]
    BY <1>7 DEF EnterVerified, TypeOK, RequestStates
  <2>3. NewPair.refresh = issued + 1
    BY DEF NewPair
  <2>4. QED
    BY <2>1, <2>2, <2>3, ExchangeIssue
<1>8. ASSUME NEW r \in Requests, UpdateMint(r) PROVE ExchangeInv'
  <2>1. /\ issued < MaxTokens /\ req[r].sent.refresh \in Issued
        /\ req[r].client \in Clients /\ owner[req[r].sent.refresh] = req[r].client
    BY <1>8 DEF UpdateMint, IssueToken, ReqInv, RequestOK, At
  <2>2. IssueToken(req[r].client, req[r].sent.refresh)
    BY <1>8, <2>1 DEF UpdateMint
  <2>3. /\ req'[r].at \in {"reply", "call"}
        /\ \A s \in Requests \ {r} : req'[s] = req[s]
    <3>1. CASE req[r].op = "update_access"
      <4>1. NewPair \in Cookies
        BY <2>1, NewPairTyped
      <4>2. QED
        BY <1>8, <3>1, <4>1, AnswerTyped DEF UpdateMint
    <3>2. CASE req[r].op # "update_access"
      BY <1>8, <3>2, GoTyped DEF UpdateMint, Places
    <3>3. QED
      BY <3>1, <3>2
  <2>4. QED
    BY <2>1, <2>2, <2>3, ExchangeIssue
\* The deletion is committed before the request goes on to mint.
<1>9. ASSUME NEW r \in Requests, UpdateDelete(r) PROVE ExchangeInv'
  <2>1. /\ rows' = rows \ {req[r].sent.refresh}
        /\ UNCHANGED <<owner, issued, origin>>
    BY <1>9 DEF UpdateDelete
  <2>2. /\ req'[r].at = "mint" /\ req'[r].sent = req[r].sent
        /\ \A s \in Requests \ {r} : req'[s] = req[s]
    BY <1>9, GoTyped DEF UpdateDelete, Places
  <2>3. PlaceOK(req[r])'
    BY <2>1, <2>2 DEF PlaceOK
  <2>4. QED
    BY <2>1, <2>2, <2>3, ExchangeFrame
<1>10. ASSUME NEW r \in Requests, EnterRecorded(r) PROVE ExchangeInv'
  BY <1>10, <1>2, RequestTyped DEF EnterRecorded
<1>11. ASSUME NEW r \in Requests,
              EnterRefused(r) \/ UpdateRead(r) \/ Guard(r) \/ Compare(r) \/ Call(r)
       PROVE  ExchangeInv'
  <2>1. UNCHANGED table
    BY <1>11 DEF EnterRefused, UpdateRead, Guard, Compare, Call
  <2>2. \/ Answer(r, "plain", NoCookies) \/ Answer(r, "clear", NoCookies)
        \/ Go(r, "delete") \/ Go(r, "compare") \/ Go(r, "read") \/ Go(r, "call")
    BY <1>11 DEF EnterRefused, UpdateRead, Guard, Compare, Call
  <2>3. QED
    BY <1>2, <1>3, <2>1, <2>2, RecordsTyped DEF Places
<1>12. QED
  BY <1>4, <1>5, <1>6, <1>7, <1>8, <1>9, <1>10, <1>11
  DEF Next, vars, Tick, Forget, table

LEMMA ExchangeHolds == Spec => []ExchangeInv
<1>1. Init => ExchangeInv
  BY RecordsTyped DEF Init, ExchangeInv, PlaceOK
<1>2. QED
  BY <1>1, ExchangeStep, TypeCorrect, PTL DEF Spec

SessionsInv == Typed /\ RecordedInv /\ ExchangeInv

HeldBy == [r \in Requests |-> Held(req[r])]
ToldTo == [c \in Clients |-> cookies[c].refresh]

LEMMA MapsInit == Init => Sessions!Init
  BY RecordsTyped DEF Init, Sessions!Init, Held, NoCookies

\* What a request holds changes only with that request.
LEMMA HeldMoves ==
    ASSUME NEW r \in Requests, \A s \in Requests \ {r} : req'[s] = req[s]
    PROVE  HeldBy' = [HeldBy EXCEPT ![r] = Held(req'[r])]
  BY DEF HeldBy, Held

LEMMA ToldStays == ASSUME UNCHANGED cookies PROVE UNCHANGED ToldTo
  BY DEF ToldTo

\* A token that is recorded, in the words of the abstract specification.
LEMMA RecordedIsOnRecord ==
    ASSUME NEW t \in Issued, Recorded(t), owner[t] \in Clients
    PROVE  Sessions!OnRecord(t)
  BY DEF Recorded, Sessions!OnRecord, Sessions!Entrance

\* A step of a request that changes nothing a session consists of.
LEMMA QuietMaps ==
    ASSUME UNCHANGED <<table, history, cookies>>, NEW r \in Requests,
           \A s \in Requests \ {r} : req'[s] = req[s],
           Held(req'[r]) = Held(req[r])
    PROVE  UNCHANGED Sessions!vars
<1>1. HeldBy' = HeldBy
  BY DEF HeldBy, Held
<1>2. QED
  BY <1>1, ToldStays DEF table, Sessions!vars, HeldBy, ToldTo

\* A request that answers, or ends, lets go of what it holds.
LEMMA LetGoMaps ==
    ASSUME UNCHANGED <<table, history, cookies>>, NEW r \in Requests,
           \A s \in Requests \ {r} : req'[s] = req[s],
           Held(req'[r]) = 0
    PROVE  Sessions!Next
<1>1. HeldBy' = [HeldBy EXCEPT ![r] = 0]
  BY HeldMoves
<1>2. Sessions!LetGo(r)
  BY <1>1, ToldStays DEF table, Sessions!LetGo, HeldBy, ToldTo
<1>3. QED
  BY <1>2 DEF Sessions!Next

LEMMA EnterVerifiedMaps ==
    ASSUME SessionsInv, NEW r \in Requests, EnterVerified(r)
    PROVE  Sessions!Next
<1> DEFINE c == req[r].client
           t == issued + 1
<1>1. c \in Clients /\ Held(req[r]) = 0
  BY DEF SessionsInv, Typed, ReqInv, RequestOK, EnterVerified, At, Held
<1>2. /\ issued' = t /\ t \in Tokens /\ t \notin Issued
      /\ rows' = rows \cup {t}
      /\ owner' = [owner EXCEPT ![t] = c]
      /\ origin' = [origin EXCEPT ![t] = 0]
  BY DEF EnterVerified, IssueToken, SessionsInv, Typed, TypeOK, Tokens, Issued
<1>3. owner[t] = Nobody
  BY <1>2 DEF SessionsInv, ExchangeInv
<1>4. /\ req'[r].at = "record" /\ \A s \in Requests \ {r} : req'[s] = req[s]
  BY DEF EnterVerified, SessionsInv, Typed, TypeOK, RequestStates
<1>5. HeldBy' = HeldBy
  BY <1>1, <1>4 DEF HeldBy, Held
<1>6. Sessions!Issue(t, c, 0)
  BY <1>2, <1>3 DEF Sessions!Issue
<1>7. Sessions!Enter(t, c)
  BY <1>5, <1>6, ToldStays DEF EnterVerified, Sessions!Enter, HeldBy, ToldTo
<1>8. QED
  BY <1>1, <1>2, <1>7 DEF Sessions!Next

LEMMA EnterRecordedMaps ==
    ASSUME SessionsInv, NEW r \in Requests, EnterRecorded(r)
    PROVE  Sessions!Next
<1> DEFINE t == req[r].made.refresh
<1>1. /\ t \in Tokens /\ owner[t] \in Clients /\ origin[t] = 0
      /\ req[r].made \in Cookies /\ Held(req[r]) = 0
  BY RequestTyped
  DEF SessionsInv, Typed, TypeOK, Tokens, Issued, ReqInv, RequestOK, ExchangeInv,
      PlaceOK, EnterRecorded, At, Held
<1>2. /\ req'[r].at = "reply" /\ \A s \in Requests \ {r} : req'[s] = req[s]
  BY <1>1, AnswerTyped DEF SessionsInv, Typed, EnterRecorded
<1>3. HeldBy' = HeldBy
  BY <1>1, <1>2 DEF HeldBy, Held
<1>4. Sessions!Entrance(t)
  BY <1>1 DEF Sessions!Entrance
<1>5. Sessions!Record(t)
  BY <1>3, <1>4, ToldStays
  DEF EnterRecorded, table, Sessions!Record, HeldBy, ToldTo
<1>6. QED
  BY <1>1, <1>5 DEF Sessions!Next

\* A request reads a row that is there, of a token its client was told of.
LEMMA UpdateReadMaps ==
    ASSUME SessionsInv, NEW r \in Requests, UpdateRead(r)
    PROVE  [Sessions!Next]_(Sessions!vars)
<1> DEFINE t == req[r].sent.refresh
<1>1. At(r, "read") /\ Held(req[r]) = 0 /\ UNCHANGED <<table, history, cookies>>
  BY DEF UpdateRead, At, Held
<1>2. CASE t \in rows
  <2>1. /\ req'[r].at = "delete" /\ req'[r].sent = req[r].sent
        /\ \A s \in Requests \ {r} : req'[s] = req[s]
    BY <1>2, GoTyped DEF UpdateRead, Places, SessionsInv, Typed
  <2>2. HeldBy' = [HeldBy EXCEPT ![r] = t] /\ HeldBy[r] = 0
    BY <1>1, <2>1, HeldMoves DEF HeldBy, Held
  <2>3. t \in Issued /\ t \in Tokens /\ owner[t] \in Clients
    BY <1>1, <1>2
    DEF At, SessionsInv, Typed, TypeOK, ReqInv, RequestOK, Issued, Tokens
  <2>4. Recorded(t)
    BY <2>3 DEF SessionsInv, RecordedInv, RequestRecorded, Issued
  <2>5. Sessions!OnRecord(t)
    BY <2>3, <2>4, RecordedIsOnRecord
  <2>6. Sessions!Hold(r, t)
    BY <1>1, <1>2, <2>2, <2>5, ToldStays DEF table, Sessions!Hold, HeldBy, ToldTo
  <2>7. QED
    BY <2>3, <2>6 DEF Sessions!Next
<1>3. CASE t \notin rows
  <2>1. /\ req'[r].at = "reply" /\ \A s \in Requests \ {r} : req'[s] = req[s]
    BY <1>3, AnswerTyped, RecordsTyped DEF UpdateRead, SessionsInv, Typed
  <2>2. QED
    BY <1>1, <2>1, QuietMaps DEF Held
<1>4. QED
  BY <1>2, <1>3

LEMMA UpdateDeleteMaps ==
    ASSUME SessionsInv, NEW r \in Requests, UpdateDelete(r)
    PROVE  Sessions!Next
<1> DEFINE t == req[r].sent.refresh
<1>1. /\ At(r, "delete") /\ rows' = rows \ {t} /\ t # 0
      /\ UNCHANGED <<owner, origin, history, cookies>>
  BY DEF UpdateDelete, At, SessionsInv, Typed, ReqInv, RequestOK
<1>2. /\ req'[r].at = "mint" /\ req'[r].sent = req[r].sent
      /\ \A s \in Requests \ {r} : req'[s] = req[s]
  BY GoTyped DEF UpdateDelete, Places, SessionsInv, Typed
<1>3. HeldBy' = HeldBy /\ HeldBy[r] = t
  BY <1>1, <1>2 DEF HeldBy, Held, At
<1>4. Sessions!Revoke(r)
  BY <1>1, <1>3, ToldStays DEF Sessions!Revoke, HeldBy, ToldTo
<1>5. QED
  BY <1>4 DEF Sessions!Next

\* A pair is made for a token whose row is gone, for the user it was issued to.
LEMMA UpdateMintMaps ==
    ASSUME SessionsInv, NEW r \in Requests, UpdateMint(r)
    PROVE  Sessions!Next
<1> DEFINE old == req[r].sent.refresh
           t == issued + 1
<1>1. At(r, "mint") /\ old # 0 /\ old \notin rows
  BY DEF UpdateMint, At, SessionsInv, Typed, ReqInv, RequestOK, ExchangeInv, PlaceOK
<1>2. /\ issued < MaxTokens /\ t \in Tokens /\ t \notin Issued
      /\ rows' = rows \cup {t}
      /\ owner' = [owner EXCEPT ![t] = owner[old]]
      /\ origin' = [origin EXCEPT ![t] = old]
  BY DEF UpdateMint, IssueToken, SessionsInv, Typed, TypeOK, Tokens, Issued
<1>3. owner[t] = Nobody
  BY <1>2 DEF SessionsInv, ExchangeInv
<1>4. /\ req'[r].at \in {"reply", "call"}
      /\ \A s \in Requests \ {r} : req'[s] = req[s]
  <2>1. CASE req[r].op = "update_access"
    <3>1. NewPair \in Cookies
      BY <1>2, NewPairTyped DEF SessionsInv, Typed
    <3>2. QED
      BY <2>1, <3>1, AnswerTyped DEF UpdateMint, SessionsInv, Typed
  <2>2. CASE req[r].op # "update_access"
    BY <2>2, GoTyped DEF UpdateMint, Places, SessionsInv, Typed
  <2>3. QED
    BY <2>1, <2>2
<1>5. HeldBy' = [HeldBy EXCEPT ![r] = 0] /\ HeldBy[r] = old
  BY <1>1, <1>4, HeldMoves DEF HeldBy, Held, At
<1>6. Sessions!Issue(t, owner[old], old)
  BY <1>2, <1>3 DEF Sessions!Issue
<1>7. Sessions!Exchange(r, t)
  BY <1>1, <1>5, <1>6, ToldStays DEF UpdateMint, Sessions!Exchange, HeldBy, ToldTo
<1>8. QED
  BY <1>2, <1>7 DEF Sessions!Next

\* An answer tells its client of a token of its own that is recorded, or of none.
LEMMA ReceiveMaps ==
    ASSUME SessionsInv, NEW r \in Requests, Receive(r)
    PROVE  [Sessions!Next]_(Sessions!vars)
<1> PICK c, t : c = req[r].client /\ t = req[r].made.refresh
  OBVIOUS
<1>1. /\ At(r, "reply") /\ Held(req[r]) = 0 /\ c \in Clients
      /\ UNCHANGED <<table, history>>
  BY DEF Receive, At, Held, SessionsInv, Typed, ReqInv, RequestOK
<1>2. /\ req'[r] = NoRequest /\ \A s \in Requests \ {r} : req'[s] = req[s]
  BY DEF Receive, SessionsInv, Typed, TypeOK
<1>3. HeldBy' = HeldBy
  BY <1>1, <1>2, RecordsTyped DEF HeldBy, Held
<1>4. CASE req[r].reply = "plain"
  BY <1>1, <1>2, <1>4, QuietMaps, RecordsTyped DEF Receive, Held
<1>5. CASE req[r].reply = "tokens"
  <2>1. t \in Issued /\ owner[t] = c /\ Recorded(t) /\ t \in Tokens
    BY <1>1, <1>5
    DEF At, SessionsInv, Typed, TypeOK, Tokens, Issued, ReqInv, RequestOK,
        RecordedInv, RequestRecorded
  <2>2. Sessions!OnRecord(t)
    BY <1>1, <2>1, RecordedIsOnRecord
  <2>3. cookies' = [cookies EXCEPT ![c] = req[r].made]
    BY <1>5 DEF Receive
  <2>4. ToldTo' = [ToldTo EXCEPT ![c] = t]
    BY <1>1, <2>3 DEF ToldTo, SessionsInv, Typed, TypeOK
  <2>5. Sessions!Tell(c, t)
    BY <1>1, <1>3, <2>1, <2>2, <2>4 DEF table, Sessions!Tell, HeldBy, ToldTo
  <2>6. Sessions!Next
    BY <1>1, <2>1, <2>5 DEF Sessions!Next
  <2>7. QED
    BY <2>6
<1>6. CASE req[r].reply = "clear"
  <2>1. cookies' = [cookies EXCEPT ![c] = NoCookies]
    BY <1>6 DEF Receive
  <2>2. ToldTo' = [ToldTo EXCEPT ![c] = 0]
    BY <1>1, <2>1 DEF ToldTo, NoCookies, SessionsInv, Typed, TypeOK
  <2>3. Sessions!Forget(c)
    BY <1>1, <1>3, <2>2 DEF table, Sessions!Forget, HeldBy, ToldTo
  <2>4. Sessions!Next
    BY <1>1, <2>3 DEF Sessions!Next
  <2>5. QED
    BY <2>4
<1>7. QED
  BY <1>4, <1>5, <1>6, RequestTyped DEF SessionsInv, Typed

LEMMA ForgetMaps ==
    ASSUME SessionsInv, NEW c \in Clients, NEW name \in {"access", "refresh"},
           Forget(c, name)
    PROVE  [Sessions!Next]_(Sessions!vars)
<1>1. /\ cookies' = [cookies EXCEPT ![c][name] = 0]
      /\ UNCHANGED <<table, history, req>>
      /\ cookies \in [Clients -> Cookies]
  BY DEF Forget, SessionsInv, Typed, TypeOK
<1>2. HeldBy' = HeldBy
  BY <1>1 DEF HeldBy
<1>3. CASE name = "refresh"
  <2>1. ToldTo' = [ToldTo EXCEPT ![c] = 0]
    BY <1>1, <1>3 DEF ToldTo, Cookies
  <2>2. Sessions!Forget(c)
    BY <1>1, <1>2, <2>1 DEF table, Sessions!Forget, HeldBy, ToldTo
  <2>3. QED
    BY <2>2 DEF Sessions!Next
<1>4. CASE name = "access"
  <2>1. ToldTo' = ToldTo
    BY <1>1, <1>4 DEF ToldTo, Cookies
  <2>2. QED
    BY <1>1, <1>2, <2>1 DEF table, Sessions!vars, HeldBy, ToldTo
<1>5. QED
  BY <1>3, <1>4

\* Every step is one of the abstract sessions, or none.
LEMMA NextMaps ==
    ASSUME SessionsInv, [Next]_vars
    PROVE  [Sessions!Next]_(Sessions!vars)
<1>1. CASE UNCHANGED <<table, history, cookies, req>>
  <2>1. HeldBy' = HeldBy /\ ToldTo' = ToldTo
    BY <1>1 DEF HeldBy, ToldTo
  <2>2. QED
    BY <1>1, <2>1 DEF table, Sessions!vars, HeldBy, ToldTo
<1>2. ASSUME NEW r \in Requests, NEW c \in Clients, NEW op \in Operations,
             Send(r, c, op)
      PROVE  [Sessions!Next]_(Sessions!vars)
  <2>1. FirstPlace(op) \notin {"delete", "mint"}
    BY DEF FirstPlace, Operations
  <2>2. req'[r].at = FirstPlace(op) /\ \A s \in Requests \ {r} : req'[s] = req[s]
    BY <1>2 DEF Send, SessionsInv, Typed, TypeOK, NoRequest
  <2>3. UNCHANGED <<table, history, cookies>> /\ Held(req[r]) = 0
    BY <1>2 DEF Send, At, Held
  <2>4. QED
    BY <2>1, <2>2, <2>3, QuietMaps DEF Held
<1>3. ASSUME NEW r \in Requests, Abort(r) PROVE Sessions!Next
  <2>1. req'[r] = NoRequest /\ \A s \in Requests \ {r} : req'[s] = req[s]
    BY <1>3 DEF Abort, SessionsInv, Typed, TypeOK
  <2>2. QED
    BY <1>3, <2>1, LetGoMaps, RecordsTyped DEF Abort, Held
<1>4. ASSUME NEW r \in Requests, EnterRefused(r) \/ Guard(r) \/ Compare(r) \/ Call(r)
      PROVE  [Sessions!Next]_(Sessions!vars)
  <2>1. UNCHANGED <<table, history, cookies>> /\ Held(req[r]) = 0
    BY <1>4 DEF EnterRefused, Guard, Compare, Call, At, Held
  <2>2. \/ Answer(r, "plain", NoCookies) \/ Answer(r, "clear", NoCookies)
        \/ Go(r, "compare") \/ Go(r, "read") \/ Go(r, "call")
    BY <1>4 DEF EnterRefused, Guard, Compare, Call
  <2>3. /\ req'[r].at \in {"reply", "compare", "read", "call"}
        /\ \A s \in Requests \ {r} : req'[s] = req[s]
    BY <2>2, AnswerTyped, GoTyped, RecordsTyped DEF Places, SessionsInv, Typed
  <2>4. QED
    BY <2>1, <2>3, QuietMaps DEF Held
<1>5. CASE Tick \/ UNCHANGED vars
  BY <1>1, <1>5 DEF Tick, vars, table
<1>6. ASSUME NEW r \in Requests,
             \/ Receive(r) \/ EnterVerified(r) \/ EnterRecorded(r)
             \/ UpdateRead(r) \/ UpdateDelete(r) \/ UpdateMint(r)
      PROVE  [Sessions!Next]_(Sessions!vars)
  BY <1>6, EnterVerifiedMaps, EnterRecordedMaps, UpdateReadMaps,
     UpdateDeleteMaps, UpdateMintMaps, ReceiveMaps
<1>7. QED
  BY <1>2, <1>3, <1>4, <1>5, <1>6, ForgetMaps DEF Next

\* auth_service acts as the abstract sessions: whatever requests share a
\* token, at whatever commit they stop, a client is told of no other user's
\* token and of none whose entrance is not recorded, and no token is
\* exchanged that was not valid or still is.
THEOREM ActsAsSessionsHolds == Spec => ActsAsSessions
<1>1. Init => Sessions!Init
  BY MapsInit
<1>2. Typed /\ RecordedInv /\ ExchangeInv /\ [Next]_vars
         => [Sessions!Next]_(Sessions!vars)
  BY NextMaps DEF SessionsInv
<1>3. QED
  BY <1>1, <1>2, TypeCorrect, RecordedHolds, ExchangeHolds, PTL
  DEF Spec, ActsAsSessions, Sessions!Spec
=============================================================================
