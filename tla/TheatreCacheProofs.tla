-------------------------- MODULE TheatreCacheProofs ------------------------
(***************************************************************************)
(* Proofs about TheatreCache, for any questions, clients, lifetimes and    *)
(* retry times.                                                            *)
(***************************************************************************)
EXTENDS TheatreCache, TLAPS

\* What is open is open now.
OpenInv == \A f \in open : now \in was[f]

\* A film, a genre or a person is one there is and was open when it was read;
\* w is a value of was.
OpenWhenRead(v, w) ==
    v.q.kind \in {"film", "genre", "person"} =>
        v.q.of \in Subjects /\ v.read \in w[v.q.of]

\* Of a request, with the values t and w of now and was.
StoreOK(p, t, w) ==
    p.at = "store" =>
        /\ p.value.q = p.q /\ NeedCache(p.q)
        /\ p.value.read <= t /\ t <= p.value.read + Retry
        /\ OpenWhenRead(p.value, w)

AnswerOK(p, t, w) ==
    p.at = "answered" =>
        \/ p.value = Blank /\ Reads!Garbled(p.q)
        \/ /\ p.value \in Values
           /\ p.value.read <= t /\ t - p.value.read < Expire + Retry
           /\ OpenWhenRead(p.value, w)
           /\ Reads!Alike(p.q, p.value.q)

\* Of an entry: however late it was written, it ends in time.
EntryOK(k, e, t, w) ==
    e # Nothing =>
        /\ Key(e.value.q) = k /\ NeedCache(e.value.q)
        /\ e.value.read <= t /\ t < e.expires
        /\ e.expires <= t + Expire
        /\ e.expires <= e.value.read + Expire + Retry
        /\ OpenWhenRead(e.value, w)

CallsInv == \A r \in Requests : StoreOK(req[r], now, was) /\ AnswerOK(req[r], now, was)
CacheInv == \A k \in Keys : EntryOK(k, cache[k], now, was)

IInv == TypeOK /\ OpenInv /\ CallsInv /\ CacheInv

-----------------------------------------------------------------------------
LEMMA QuestionTyped ==
    ASSUME NEW q \in UNION Asked
    PROVE  /\ q \in [kind : {"film", "person", "genre"} \cup Lists,
                     of : Words, page : Nat]
           /\ q.kind \in {"film", "person"} => q.page = 1
           /\ Key(q) \in Keys
<1>1. q \in Questions
  BY AskedAssumption
<1>2. /\ q \in [kind : {"film", "person", "genre"} \cup Lists, of : Words, page : Nat]
      /\ q.kind \in {"film", "person"} => q.page = 1
  BY <1>1 DEF Questions, Lists
<1>3. QED
  BY <1>2 DEF Keys

\* Questions of one key are about one index and make one text.
LEMMA KeyParts ==
    ASSUME NEW q \in UNION Asked, NEW x \in UNION Asked, Key(x) = Key(q)
    PROVE  /\ Text[q] = Text[x]
           /\ \/ {q.kind, x.kind} \subseteq {"film", "similar", "films"}
              \/ {q.kind, x.kind} \subseteq {"genre", "genres"}
              \/ {q.kind, x.kind} \subseteq {"person", "persons"}
<1>1. Index(x.kind) = Index(q.kind) /\ Text[q] = Text[x]
  BY DEF Key
<1>2. q.kind \in {"film", "similar", "films", "genre", "genres", "person", "persons"}
  BY QuestionTyped DEF Lists
<1>3. x.kind \in {"film", "similar", "films", "genre", "genres", "person", "persons"}
  BY QuestionTyped DEF Lists
<1>4. QED
  BY <1>1, <1>2, <1>3 DEF Index

\* What the entry of a key was read for may be an answer to whoever has the
\* key, or else it has no content for him.
LEMMA SameKey ==
    ASSUME NEW q \in UNION Asked, NEW x \in UNION Asked, Key(x) = Key(q),
           NeedCache(q), NeedCache(x)
    PROVE  IF SameModel(q, x) THEN Reads!Alike(q, x) ELSE Reads!Garbled(q)
<1> USE DEF Reads!Single
<1>1. /\ q \in [kind : {"film", "person", "genre"} \cup Lists, of : Words, page : Nat]
      /\ x \in [kind : {"film", "person", "genre"} \cup Lists, of : Words, page : Nat]
      /\ q.kind \in {"film", "person"} => q.page = 1
      /\ x.kind \in {"film", "person"} => x.page = 1
  BY QuestionTyped
<1>2. Reads!Confusable(q, x)
  BY <1>1, KeyParts DEF NeedCache, Lists, Reads!Confusable
<1>3. CASE q.kind \in {"film", "person"} /\ x.kind = q.kind
  <2>1. q.of = x.of /\ q.page = x.page
    BY <1>1, <1>3, KeyParts, TextAssumption
  <2>2. q = x
    BY <1>1, <1>3, <2>1
  <2>3. QED
    BY <1>3, <2>2 DEF SameModel, Reads!Alike
<1>4. CASE "genre" \in {q.kind, x.kind}
  <2>1. {q.kind, x.kind} \subseteq {"genre", "genres"} /\ Text[q] = Text[x]
    BY <1>4, KeyParts
  <2>2. q = x
    BY <1>4, <2>1, TextAssumption
  <2>3. QED
    BY <2>2 DEF SameModel, Reads!Alike
<1>5. CASE q.kind \in Lists /\ x.kind \in Lists
  <2>1. q.kind = x.kind \/ {q.kind, x.kind} = {"similar", "films"}
    BY <1>5, KeyParts DEF Lists
  <2>2. Reads!Alike(q, x)
    BY <1>2, <1>5, <2>1 DEF Reads!Alike, Lists
  <2>3. QED
    BY <2>1, <2>2 DEF SameModel
<1>6. CASE \/ q.kind \in {"film", "person"} /\ x.kind \in Lists
           \/ x.kind \in {"film", "person"} /\ q.kind \in Lists
  <2>1. \/ {q.kind, x.kind} \subseteq {"film", "similar", "films"}
        \/ {q.kind, x.kind} \subseteq {"person", "persons"}
    BY <1>6, KeyParts DEF Lists
  <2>2. Reads!Single(q) # Reads!Single(x) /\ ~ SameModel(q, x)
    BY <1>6 DEF Lists, SameModel
  <2>3. QED
    BY <1>2, <2>1, <2>2 DEF Reads!Garbled
<1>7. q.kind \in {"film", "person", "genre"} \cup Lists
      /\ x.kind \in {"film", "person", "genre"} \cup Lists
  BY <1>1
<1>8. CASE q.kind \in {"film", "person"} /\ x.kind \in {"film", "person"} /\ x.kind # q.kind
  BY <1>8, KeyParts
<1>9. QED
  BY <1>3, <1>4, <1>5, <1>6, <1>7, <1>8

LEMMA IdleOK ==
    ASSUME NEW t, NEW w
    PROVE  Idle \in RequestStates /\ StoreOK(Idle, t, w) /\ AnswerOK(Idle, t, w)
  BY DEF Idle, RequestStates, StoreOK, AnswerOK

LEMMA InitIInv == Init => IInv
<1> SUFFICES ASSUME Init PROVE IInv
  OBVIOUS
<1>1. now = 0 /\ 0 \in Times
  BY TimesAssumption DEF Init, Times
<1>2. TypeOK
  BY <1>1, IdleOK DEF Init, TypeOK
<1>3. OpenInv /\ CacheInv
  BY DEF Init, OpenInv, CacheInv, EntryOK
<1>4. CallsInv
  BY IdleOK DEF Init, CallsInv
<1>5. QED
  BY <1>2, <1>3, <1>4 DEF IInv

-----------------------------------------------------------------------------
\* A step of one request that leaves the rest of the state alone.
LEMMA RequestStep ==
    ASSUME IInv, NEW r \in Requests, NEW p \in RequestStates,
           req' = [req EXCEPT ![r] = p],
           StoreOK(p, now, was), AnswerOK(p, now, was),
           UNCHANGED <<now, asked, open, was>>,
           cache' \in [Keys -> Entries \cup {Nothing}],
           \A k \in Keys : EntryOK(k, cache'[k], now, was)
    PROVE  IInv'
<1>1. \A s \in Requests : req'[s] = IF s = r THEN p ELSE req[s]
  BY DEF IInv, TypeOK
<1>2. CallsInv' /\ CacheInv' /\ OpenInv'
  BY <1>1 DEF IInv, CallsInv, CacheInv, OpenInv
<1>3. \A k \in Keys : cache'[k] # Nothing =>
                         cache'[k].expires \in now..(now + Expire)
  BY TimesAssumption DEF EntryOK, Entries, IInv, TypeOK, Times
<1>4. TypeOK'
  BY <1>1, <1>3 DEF IInv, TypeOK
<1>5. QED
  BY <1>2, <1>4 DEF IInv

LEMMA RefuseStep ==
    ASSUME IInv, NEW r \in Requests, Refuse(r),
           UNCHANGED <<now, asked, open, cache, was>>
    PROVE  IInv'
  BY RequestStep, IdleOK DEF Refuse, IInv, TypeOK, CacheInv

LEMMA FoundStep ==
    ASSUME IInv, NEW r \in Requests, At(r, "search"), Found(r),
           req[r].q.kind \in {"film", "genre", "person"} => req[r].q.of \in open,
           UNCHANGED <<now, asked, open, cache, was>>
    PROVE  IInv'
<1> PICK q \in UNION Asked : req[r] = [at |-> "search", q |-> q, value |-> Nothing]
  BY DEF IInv, TypeOK, RequestStates, At, Idle
<1> PICK v : v = [q |-> q, read |-> now]
  OBVIOUS
<1> PICK p : p = [at |-> IF NeedCache(q) THEN "store" ELSE "answered",
                  q |-> q, value |-> v]
  OBVIOUS
<1>1. v \in Values /\ p \in RequestStates
  BY DEF Values, RequestStates, IInv, TypeOK
<1>2. req' = [req EXCEPT ![r] = p]
  BY DEF Found, Answer, IInv, TypeOK
<1>3. now \in Nat
  BY DEF IInv, TypeOK, Times
<1>4. OpenWhenRead(v, was)
  BY <1>3 DEF OpenWhenRead, IInv, OpenInv, TypeOK
<1>5. StoreOK(p, now, was) /\ AnswerOK(p, now, was)
  BY <1>1, <1>3, <1>4, TimesAssumption DEF StoreOK, AnswerOK, Reads!Alike
<1>6. QED
  BY <1>1, <1>2, <1>5, RequestStep DEF IInv, TypeOK, CacheInv

LEMMA SearchStep ==
    ASSUME IInv, NEW r \in Requests,
           SearchList(r) \/ SearchSimilar(r) \/ SearchGenre(r)
             \/ SearchPerson(r) \/ SearchFilm(r)
    PROVE  IInv'
<1>1. At(r, "search") /\ UNCHANGED <<now, asked, open, cache, was>>
  BY DEF SearchList, SearchSimilar, SearchGenre, SearchPerson, SearchFilm
<1>2. CASE Refuse(r)
  BY <1>1, <1>2, RefuseStep
<1>3. CASE /\ Found(r)
           /\ req[r].q.kind \in {"film", "genre", "person"} => req[r].q.of \in open
  BY <1>1, <1>3, FoundStep
<1>4. QED
  BY <1>2, <1>3
  DEF SearchList, SearchSimilar, SearchGenre, SearchPerson, SearchFilm, Lists

LEMMA LookupStep ==
    ASSUME IInv, NEW r \in Requests, NEW q \in asked, Lookup(r, q)
    PROVE  IInv'
<1>1. q \in UNION Asked
  BY DEF IInv, TypeOK
<1>2. UNCHANGED <<now, asked, open, cache, was>> /\ now \in Nat
  BY DEF Lookup, IInv, TypeOK, Times
<1>3. CASE NeedCache(q) /\ cache[Key(q)] # Nothing
  <2> PICK e \in Entries : e = cache[Key(q)]
    BY <1>1, <1>3, QuestionTyped DEF IInv, TypeOK
  <2> PICK v : v = Parsed(q, e.value)
    OBVIOUS
  <2> PICK p : p = [at |-> "answered", q |-> q, value |-> v]
    OBVIOUS
  <2>1. e.value \in Values /\ e.value.q \in UNION Asked /\ e.value.read \in Nat
        /\ e.expires \in Nat
    BY TimesAssumption DEF Entries, Values, Times
  <2>2. EntryOK(Key(q), e, now, was) /\ e # Nothing
    BY <1>1, <1>3, QuestionTyped DEF IInv, CacheInv
  <2>3. e.value.read <= now /\ now - e.value.read < Expire + Retry
    BY <1>2, <2>1, <2>2, TimesAssumption DEF EntryOK
  <2>4. IF SameModel(q, e.value.q) THEN Reads!Alike(q, e.value.q) ELSE Reads!Garbled(q)
    BY <1>1, <1>3, <2>1, <2>2, SameKey DEF EntryOK
  <2>5. StoreOK(p, now, was) /\ AnswerOK(p, now, was)
    <3>1. CASE SameModel(q, e.value.q)
      BY <2>1, <2>2, <2>3, <2>4, <3>1 DEF StoreOK, AnswerOK, EntryOK, Parsed
    <3>2. CASE ~ SameModel(q, e.value.q)
      BY <2>4, <3>2 DEF StoreOK, AnswerOK, Parsed
    <3>3. QED
      BY <3>1, <3>2
  <2>6. p \in RequestStates /\ req' = [req EXCEPT ![r] = p]
    BY <1>1, <1>3, <2>1 DEF Lookup, RequestStates, Parsed
  <2>7. QED
    BY <1>2, <2>5, <2>6, RequestStep DEF IInv, TypeOK, CacheInv
<1>4. CASE ~ (NeedCache(q) /\ cache[Key(q)] # Nothing)
  <2> PICK p : p = [at |-> "search", q |-> q, value |-> Nothing]
    OBVIOUS
  <2>1. p \in RequestStates /\ req' = [req EXCEPT ![r] = p]
    BY <1>1, <1>4 DEF Lookup, RequestStates
  <2>2. StoreOK(p, now, was) /\ AnswerOK(p, now, was)
    BY DEF StoreOK, AnswerOK
  <2>3. QED
    BY <1>2, <2>1, <2>2, RequestStep DEF IInv, TypeOK, CacheInv
<1>5. QED
  BY <1>3, <1>4

LEMMA StoreStep ==
    ASSUME IInv, NEW r \in Requests, Store(r)
    PROVE  IInv'
<1> PICK q \in UNION Asked, v \in Values :
        req[r] = [at |-> "store", q |-> q, value |-> v]
  BY DEF IInv, TypeOK, RequestStates, At, Idle, Store
<1> PICK e : e = [value |-> v, expires |-> now + Expire]
  OBVIOUS
<1> PICK p : p = [at |-> "answered", q |-> q, value |-> v]
  OBVIOUS
<1>1. now \in Times /\ now \in Nat /\ v.read \in Nat
  BY DEF IInv, TypeOK, Times, Values
<1>2. /\ v.q = q /\ v.read <= now /\ now <= v.read + Retry /\ NeedCache(q)
      /\ OpenWhenRead(v, was)
  BY DEF IInv, CallsInv, StoreOK
<1>3. e \in Entries
  BY <1>1, TimesAssumption DEF Entries, Times
<1>4. EntryOK(Key(q), e, now, was)
  BY <1>1, <1>2, TimesAssumption DEF EntryOK
<1>5. \A k \in Keys : cache'[k] = IF k = Key(q) THEN e ELSE cache[k]
  BY DEF Store, IInv, TypeOK
<1>6. cache' \in [Keys -> Entries \cup {Nothing}]
  <2>1. req[r].q = q /\ req[r].value = v
    OBVIOUS
  <2>2. cache' = [cache EXCEPT ![Key(q)] = e]
    BY <2>1 DEF Store
  <2>3. QED
    BY <1>3, <2>2 DEF IInv, TypeOK
<1>7. \A k \in Keys : EntryOK(k, cache'[k], now, was)
  BY <1>4, <1>5 DEF IInv, CacheInv
<1>8. StoreOK(p, now, was) /\ AnswerOK(p, now, was)
  BY <1>1, <1>2, TimesAssumption DEF StoreOK, AnswerOK, Reads!Alike
<1>9. p \in RequestStates /\ req' = [req EXCEPT ![r] = p]
  <2>1. p \in RequestStates
    BY DEF RequestStates
  <2>2. Answer(r, v)
    BY DEF Store
  <2>3. req' = [req EXCEPT ![r] = p]
    <3>1. DOMAIN req = Requests /\ DOMAIN req' = Requests
      BY <2>2 DEF Answer, IInv, TypeOK
    <3>2. \A s \in Requests \ {r} : req'[s] = req[s]
      BY <2>2, <3>1 DEF Answer
    <3>3. req'[r] = [[req[r] EXCEPT !.at = "answered"] EXCEPT !.value = v]
      BY <2>2, <3>1 DEF Answer
    <3>4. [req[r] EXCEPT !.at = "answered"] = p
      OBVIOUS
    <3>5. [p EXCEPT !.value = v] = p
      OBVIOUS
    <3>6. QED
      BY <3>1, <3>2, <3>3, <3>4, <3>5, <2>2 DEF Answer
  <2>4. QED
    BY <2>1, <2>3
<1>10. QED
  BY <1>6, <1>7, <1>8, <1>9, RequestStep DEF Store

LEMMA ReindexStep ==
    ASSUME IInv, NEW f \in Changing, Reindex(f)
    PROVE  IInv'
<1>1. f \in Subjects
  BY SubjectsAssumption
<1>2. was' \in [Subjects -> SUBSET (0..now)] /\ now \in Nat
  BY <1>1 DEF Reindex, IInv, TypeOK, Times
<1>3. \A g \in Subjects : was[g] \subseteq was'[g]
  BY <1>1, <1>2 DEF Reindex, IInv, TypeOK, Times
<1>4. TypeOK'
  BY <1>1, <1>2 DEF Reindex, IInv, TypeOK
<1>5. OpenInv'
  BY <1>1 DEF Reindex, IInv, TypeOK, OpenInv
<1>6. ASSUME NEW v \in Values, OpenWhenRead(v, was)
      PROVE  OpenWhenRead(v, was')
  <2>1. v.q \in UNION Asked /\ v.read \in Nat
    BY DEF Values, Times
  <2>2. QED
    BY <1>3, <1>6, <2>1 DEF OpenWhenRead
<1>7. CallsInv'
  <2> SUFFICES ASSUME NEW r \in Requests
               PROVE  StoreOK(req[r], now, was') /\ AnswerOK(req[r], now, was')
    BY DEF CallsInv, Reindex
  <2>1. StoreOK(req[r], now, was) /\ AnswerOK(req[r], now, was)
    BY DEF IInv, CallsInv
  <2>2. req[r].at = "store" => req[r].value \in Values
    BY DEF IInv, TypeOK, RequestStates, Idle
  <2>3. QED
    BY <1>6, <2>1, <2>2 DEF StoreOK, AnswerOK
<1>8. CacheInv'
  <2> SUFFICES ASSUME NEW k \in Keys
               PROVE  EntryOK(k, cache[k], now, was')
    BY DEF CacheInv, Reindex
  <2>1. EntryOK(k, cache[k], now, was)
    BY DEF IInv, CacheInv
  <2>2. cache[k] # Nothing => cache[k].value \in Values
    BY DEF IInv, TypeOK, Entries
  <2>3. QED
    BY <1>6, <2>1, <2>2 DEF EntryOK
<1>9. QED
  BY <1>4, <1>5, <1>7, <1>8 DEF IInv

LEMMA TickStep == ASSUME IInv, Tick PROVE IInv'
<1>1. now \in Nat /\ now' = now + 1 /\ now' \in Times
  BY TimesAssumption DEF Tick, IInv, TypeOK, Times
<1>2. was' \in [Subjects -> SUBSET (0..now')] /\ open' = open /\ open \subseteq Subjects
  BY <1>1 DEF Tick, IInv, TypeOK
<1>3. \A g \in Subjects : was[g] \subseteq was'[g]
  BY <1>1, <1>2 DEF Tick, IInv, TypeOK
<1>4. OpenInv'
  BY <1>2 DEF Tick, OpenInv
<1>5. \A k \in Keys : \/ cache'[k] = Nothing
                      \/ cache'[k] = cache[k] /\ cache[k].expires > now'
  BY DEF Tick
<1>6. ASSUME NEW v \in Values, OpenWhenRead(v, was)
      PROVE  OpenWhenRead(v, was')
  <2>1. v.q \in UNION Asked /\ v.read \in Nat
    BY DEF Values, Times
  <2>2. QED
    BY <1>3, <1>6, <2>1 DEF OpenWhenRead
<1>7. CallsInv'
  <2> SUFFICES ASSUME NEW r \in Requests
               PROVE  StoreOK(req[r], now', was') /\ AnswerOK(req[r], now', was')
    BY DEF CallsInv, Tick
  <2>1. StoreOK(req[r], now, was) /\ req[r].at # "answered"
    BY DEF IInv, CallsInv, Tick, At
  <2>2. req[r].at = "store" =>
           req[r].value \in Values /\ now < req[r].value.read + Retry
    BY DEF IInv, TypeOK, RequestStates, Idle, Tick, At
  <2>3. req[r].at = "store" => req[r].value.read \in Nat
    BY <2>2 DEF Values, Times
  <2>4. StoreOK(req[r], now', was')
    BY <1>1, <1>6, <2>1, <2>2, <2>3, TimesAssumption DEF StoreOK
  <2>5. QED
    BY <2>1, <2>4 DEF AnswerOK
<1>8. CacheInv'
  <2> SUFFICES ASSUME NEW k \in Keys, cache'[k] # Nothing
               PROVE  EntryOK(k, cache'[k], now', was')
    BY DEF CacheInv, EntryOK
  <2> PICK e \in Entries : e = cache[k] /\ e = cache'[k] /\ e.expires > now'
    BY <1>5 DEF IInv, TypeOK
  <2>1. EntryOK(k, e, now, was) /\ e # Nothing
    BY DEF IInv, CacheInv
  <2>2. e.value \in Values /\ e.value.read \in Nat /\ e.expires \in Nat
    BY TimesAssumption DEF Entries, Values, Times
  <2>3. QED
    BY <1>1, <1>6, <2>1, <2>2, TimesAssumption DEF EntryOK
<1>9. TypeOK'
  <2>1. cache' \in [Keys -> Entries \cup {Nothing}]
    BY <1>5 DEF Tick, IInv, TypeOK
  <2>2. \A k \in Keys : cache'[k] # Nothing =>
                           cache'[k].expires \in now'..(now' + Expire)
    BY <1>1, <1>8, <2>1, TimesAssumption DEF CacheInv, EntryOK, Entries, Times
  <2>3. QED
    BY <1>1, <1>2, <2>1, <2>2 DEF Tick, IInv, TypeOK
<1>10. QED
  BY <1>4, <1>7, <1>8, <1>9 DEF IInv

LEMMA EvictStep ==
    ASSUME IInv, NEW k \in Keys, Evict(k)
    PROVE  IInv'
<1>1. \A j \in Keys : cache'[j] \in {Nothing, cache[j]}
  BY DEF Evict, IInv, TypeOK
<1>2. TypeOK'
  BY <1>1 DEF Evict, IInv, TypeOK
<1>3. CacheInv' /\ CallsInv' /\ OpenInv'
  BY <1>1 DEF Evict, IInv, CacheInv, CallsInv, OpenInv, EntryOK
<1>4. QED
  BY <1>2, <1>3 DEF IInv

LEMMA NextIInv == IInv /\ [Next]_vars => IInv'
<1> SUFFICES ASSUME IInv, [Next]_vars PROVE IInv'
  OBVIOUS
<1>1. CASE UNCHANGED vars
  BY <1>1 DEF vars, IInv, TypeOK, OpenInv, CallsInv, CacheInv
<1>2. CASE Tick
  BY <1>2, TickStep
<1>3. ASSUME NEW f \in Changing, Reindex(f) PROVE IInv'
  BY <1>3, ReindexStep
<1>4. ASSUME NEW k \in Keys, Evict(k) PROVE IInv'
  BY <1>4, EvictStep
<1>5. ASSUME NEW r \in Requests, NEW q \in asked, Lookup(r, q) PROVE IInv'
  BY <1>5, LookupStep
<1>6. ASSUME NEW r \in Requests,
             SearchList(r) \/ SearchSimilar(r) \/ SearchGenre(r)
               \/ SearchPerson(r) \/ SearchFilm(r)
      PROVE  IInv'
  BY <1>6, SearchStep
<1>7. ASSUME NEW r \in Requests, Store(r) PROVE IInv'
  BY <1>7, StoreStep
<1>8. ASSUME NEW r \in Requests, Fail(r) \/ Finish(r) PROVE IInv'
  BY <1>8, RefuseStep DEF Fail, Finish, Refuse
<1>9. QED
  BY <1>1, <1>2, <1>3, <1>4, <1>5, <1>6, <1>7, <1>8 DEF Next

LEMMA IInvHolds == Spec => []IInv
  BY InitIInv, NextIInv, PTL DEF Spec

-----------------------------------------------------------------------------
(***************************************************************************)
(* Every variable keeps its type and every entry of the cache its          *)
(* lifetime.                                                               *)
(***************************************************************************)
THEOREM TypeOKHolds == Spec => []TypeOK
<1>1. IInv => TypeOK
  BY DEF IInv
<1>2. QED
  BY <1>1, IInvHolds, PTL

(***************************************************************************)
(* A film restricted or removed for that long is out of the cache, where   *)
(* nobody's access is checked.                                             *)
(***************************************************************************)
THEOREM RestrictionTakesEffectHolds == Spec => []RestrictionTakesEffect
<1>1. ASSUME IInv PROVE RestrictionTakesEffect
  <2> SUFFICES ASSUME NEW k \in Keys, cache[k] # Nothing,
                      cache[k].value.q.kind = "film"
               PROVE  \E t \in was[cache[k].value.q.of] : now - t < Expire + Retry
    BY DEF RestrictionTakesEffect
  <2> PICK e \in Entries : e = cache[k]
    BY <1>1 DEF IInv, TypeOK
  <2>1. EntryOK(k, e, now, was) /\ e # Nothing
    BY <1>1 DEF IInv, CacheInv
  <2>2. e.value.q \in UNION Asked /\ e.value.read \in Nat /\ e.expires \in Nat
    BY TimesAssumption DEF Entries, Values, Times
  <2>3. e.value.read \in was[e.value.q.of]
    BY <2>1 DEF EntryOK, OpenWhenRead
  <2>4. now - e.value.read < Expire + Retry
    BY <1>1, <2>1, <2>2, TimesAssumption DEF EntryOK, IInv, TypeOK, Times
  <2>5. QED
    BY <2>3, <2>4
<1>2. QED
  BY <1>1, IInvHolds, PTL

-----------------------------------------------------------------------------
(***************************************************************************)
(* TheatreCache implements CatalogueReads.                                 *)
(***************************************************************************)
LEMMA MapsInit == Init => Reads!Init
<1> SUFFICES ASSUME Init PROVE Reads!Init
  OBVIOUS
<1>1. Answers = [r \in Requests |-> Nothing]
  BY DEF Init, Answers, At, Idle
<1>2. QED
  BY <1>1 DEF Init, Reads!Init

\* A request that was not answered and is not answered now.
LEMMA UnansweredMaps ==
    ASSUME IInv, NEW r \in Requests, NEW p, req' = [req EXCEPT ![r] = p],
           ~ At(r, "answered"), p.at # "answered", UNCHANGED <<now, open, was>>
    PROVE  UNCHANGED Reads!vars
<1>1. \A s \in Requests : req'[s] = IF s = r THEN p ELSE req[s]
  BY DEF IInv, TypeOK
<1>2. Answers' = Answers
  BY <1>1 DEF Answers, At
<1>3. QED
  BY <1>2 DEF Reads!vars

\* A request that is answered, from the cache or not.
LEMMA AnsweredMaps ==
    ASSUME IInv, IInv', NEW r \in Requests, NEW p \in RequestStates,
           req' = [req EXCEPT ![r] = p],
           ~ At(r, "answered"), p.at = "answered", UNCHANGED <<now, open, was>>
    PROVE  Reads!Next
<1>1. \A s \in Requests : req'[s] = IF s = r THEN p ELSE req[s]
  BY DEF IInv, TypeOK
<1> PICK a : a = [q |-> p.q, value |-> p.value]
  OBVIOUS
<1>2. a.q = p.q /\ a.value = p.value /\ p.q \in UNION Asked
  BY DEF RequestStates, Idle
<1>3. Answers[r] = Nothing /\ Answers' = [Answers EXCEPT ![r] = a]
  BY <1>1 DEF Answers, At
<1>4. Answers'[r] = a
  BY <1>3 DEF Answers
<1>5. AnswerOK(p, now, was) /\ now \in Nat
  BY <1>1 DEF IInv, CallsInv, TypeOK, Times
<1>6. ASSUME p.value = Blank, Reads!Garbled(p.q)
      PROVE  Reads!Answer(r, a)
  <2>1. a \in [q : UNION Asked, value : {Blank} \cup [q : UNION Asked, read : 0..now]]
    BY <1>2, <1>6
  <2>2. QED
    BY <1>2, <1>3, <1>6, <2>1 DEF Reads!Answer
<1>7. ASSUME p.value \in Values,
             p.value.read <= now, now - p.value.read < Expire + Retry,
             OpenWhenRead(p.value, was),
             Reads!Alike(p.q, p.value.q)
      PROVE  Reads!Answer(r, a)
  <2>1. p.value # Blank /\ p.value \in [q : UNION Asked, read : Nat]
    BY <1>7, BlankAssumption DEF Values, Times
  <2>2. p.value.read \in 0..now
    BY <1>5, <1>7, <2>1
  <2>3. a \in [q : UNION Asked, value : {Blank} \cup [q : UNION Asked, read : 0..now]]
    BY <1>2, <2>1, <2>2
  <2>4. Reads!Single(a.value.q) => a.value.read \in was[a.value.q.of]
    BY <1>2, <1>7 DEF OpenWhenRead, Reads!Single
  <2>5. QED
    BY <1>2, <1>3, <1>7, <2>1, <2>3, <2>4 DEF Reads!Answer
<1>8. Reads!Answer(r, a)
  BY <1>5, <1>6, <1>7 DEF AnswerOK
<1>9. QED
  BY <1>4, <1>8 DEF Reads!Next

\* A step of a request that has no answer yet.
LEMMA RequestMaps ==
    ASSUME IInv, IInv', NEW r \in Requests, ~ At(r, "answered"),
           req' = [req EXCEPT ![r] = req'[r]], UNCHANGED <<now, open, was>>
    PROVE  [Reads!Next]_(Reads!vars)
<1> PICK p : p = req'[r]
  OBVIOUS
<1>1. p \in RequestStates /\ req' = [req EXCEPT ![r] = p]
  BY DEF IInv, TypeOK
<1>2. CASE p.at = "answered"
  BY <1>1, <1>2, AnsweredMaps
<1>3. CASE p.at # "answered"
  BY <1>1, <1>3, UnansweredMaps
<1>4. QED
  BY <1>2, <1>3

\* Answer and Refuse change one request.
LEMMA OneRequest ==
    ASSUME IInv, NEW r \in Requests,
           \/ \E v : Answer(r, v)
           \/ Refuse(r)
           \/ \E v : req' = [req EXCEPT ![r].at = "store", ![r].value = v]
           \/ \E p : req' = [req EXCEPT ![r] = p]
    PROVE  req' = [req EXCEPT ![r] = req'[r]]
<1>1. req \in [Requests -> RequestStates]
  BY DEF IInv, TypeOK
<1>2. DOMAIN req' = Requests /\ (\A s \in Requests \ {r} : req'[s] = req[s])
        /\ req' = [s \in Requests |-> req'[s]]
  BY <1>1 DEF Answer, Refuse
<1>3. QED
  BY <1>1, <1>2

LEMMA SearchMaps ==
    ASSUME IInv, IInv', NEW r \in Requests,
           \/ SearchList(r) \/ SearchSimilar(r) \/ SearchGenre(r)
           \/ SearchPerson(r) \/ SearchFilm(r)
    PROVE  [Reads!Next]_(Reads!vars)
<1>1. At(r, "search") /\ UNCHANGED <<now, open, was>>
  BY DEF SearchList, SearchSimilar, SearchGenre, SearchPerson, SearchFilm
<1>2. Found(r) \/ Refuse(r)
  BY DEF SearchList, SearchSimilar, SearchGenre, SearchPerson, SearchFilm
<1>3. req' = [req EXCEPT ![r] = req'[r]]
  BY <1>2, OneRequest DEF Found
<1>4. QED
  BY <1>1, <1>3, RequestMaps DEF At

LEMMA LookupMaps ==
    ASSUME IInv, IInv', NEW r \in Requests, NEW q \in asked, Lookup(r, q)
    PROVE  [Reads!Next]_(Reads!vars)
<1>1. At(r, "idle") /\ UNCHANGED <<now, open, was>>
  BY DEF Lookup
<1>2. req' = [req EXCEPT ![r] = req'[r]]
  BY OneRequest DEF Lookup
<1>3. QED
  BY <1>1, <1>2, RequestMaps DEF At

LEMMA StoreMaps ==
    ASSUME IInv, IInv', NEW r \in Requests, Store(r) \/ Fail(r)
    PROVE  [Reads!Next]_(Reads!vars)
<1>1. ~ At(r, "answered") /\ UNCHANGED <<now, open, was>>
  BY DEF Store, Fail, At
<1>2. req' = [req EXCEPT ![r] = req'[r]]
  BY OneRequest DEF Store, Fail
<1>3. QED
  BY <1>1, <1>2, RequestMaps

LEMMA FinishMaps ==
    ASSUME IInv, NEW r \in Requests, Finish(r)
    PROVE  Reads!Next
<1>1. \A s \in Requests : req'[s] = IF s = r THEN Idle ELSE req[s]
  BY DEF Finish, IInv, TypeOK
<1> PICK p : p = Idle
  OBVIOUS
<1>2. Answers' = [Answers EXCEPT ![r] = Nothing]
  <2>1. p.at = "idle"
    BY DEF Idle
  <2>2. \A s \in Requests : req'[s] = IF s = r THEN p ELSE req[s]
    BY <1>1
  <2>3. QED
    BY <2>1, <2>2 DEF Answers
<1>3. Reads!Arrive(r)
  BY <1>2 DEF Finish, Reads!Arrive
<1>4. QED
  BY <1>3 DEF Reads!Next

LEMMA TickMaps == ASSUME IInv, Tick PROVE Reads!Next
<1>1. \A r \in Requests : Answers[r] = Nothing
  BY DEF Tick, Answers, At
<1>2. Answers' = Answers
  BY DEF Tick, Answers
<1>3. Reads!Tick
  BY <1>1, <1>2 DEF Tick, Reads!Tick
<1>4. QED
  BY <1>3 DEF Reads!Next

LEMMA ReindexMaps ==
    ASSUME IInv, NEW f \in Changing, Reindex(f)
    PROVE  Reads!Next
<1>1. Answers' = Answers
  BY DEF Reindex, Answers
<1>2. Reads!Change(f)
  BY <1>1 DEF Reindex, Reads!Change
<1>3. QED
  BY <1>2 DEF Reads!Next

LEMMA NextMaps ==
    ASSUME IInv, IInv', [Next]_vars
    PROVE  [Reads!Next]_(Reads!vars)
<1>1. CASE UNCHANGED vars
  BY <1>1 DEF vars, Reads!vars, Answers
<1>2. ASSUME NEW k \in Keys, Evict(k) PROVE [Reads!Next]_(Reads!vars)
  BY <1>2 DEF Evict, Reads!vars, Answers
<1>3. CASE Next
  <2>1. CASE Tick
    BY <2>1, TickMaps
  <2>2. CASE \E f \in Changing : Reindex(f)
    BY <2>2, ReindexMaps
  <2>3. CASE \E k \in Keys : Evict(k)
    BY <2>3, <1>2
  <2>4. CASE \E r \in Requests : \E q \in asked : Lookup(r, q)
    BY <2>4, LookupMaps
  <2>5. CASE \E r \in Requests : \/ SearchList(r) \/ SearchSimilar(r)
                                \/ SearchGenre(r) \/ SearchPerson(r)
                                \/ SearchFilm(r)
    BY <2>5, SearchMaps
  <2>6. CASE \E r \in Requests : Store(r) \/ Fail(r)
    BY <2>6, StoreMaps
  <2>7. CASE \E r \in Requests : Finish(r)
    BY <2>7, FinishMaps
  <2>8. QED
    BY <1>3, <2>1, <2>2, <2>3, <2>4, <2>5, <2>6, <2>7 DEF Next
<1>4. QED
  BY <1>1, <1>3

(***************************************************************************)
(* Whatever the order in which requests look into the cache, search, write *)
(* to the cache and are answered, and whatever expires or is dropped, each *)
(* gets an answer that is recent, that was given when its subject was open *)
(* and that is to the question or, for a list, to another list of the same *)
(* things that makes the same text; or one without content, if the text of *)
(* an id is that of a list.                                                *)
(***************************************************************************)
THEOREM AnswersLikeTheIndexHolds == Spec => AnswersLikeTheIndex
<1>1. Init => Reads!Init
  BY MapsInit
<1>2. IInv /\ IInv' /\ [Next]_vars => [Reads!Next]_(Reads!vars)
  BY NextMaps
<1>3. QED
  BY <1>1, <1>2, IInvHolds, PTL DEF Spec, AnswersLikeTheIndex, Reads!Spec
=============================================================================
