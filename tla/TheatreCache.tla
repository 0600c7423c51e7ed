---------------------------- MODULE TheatreCache ----------------------------
(***************************************************************************)
(* theatre_service: films, genres and persons read through a Redis cache   *)
(* from Elasticsearch.  A request gives way at every await: the look into  *)
(* the cache, the search and the writing to the cache are steps of their   *)
(* own, and requests do not know of each other.                            *)
(*                                                                         *)
(* What is read matters by what it is about and by when it was read; what  *)
(* it is about is a film, a genre or a person, here a subject.  Clients    *)
(* type words: the ids of subjects, and whatever else goes into a path or  *)
(* into a search.                                                          *)
(***************************************************************************)
EXTENDS Integers

CONSTANTS
    Words,       \* what clients may type
    Subjects,    \* the words that are ids of films, genres and persons
    Changing,    \* those removed, restricted and opened meanwhile
    Requests,    \* requests that may be in flight together
    Asked,       \* what clients may ask for: alternatives, each a set
    Text,        \* what the key of a question has after its index
    LastPage,    \* NO_CACHE_AFTER_PAGE_NUMBER
    Expire,      \* ..._CACHE_EXPIRE_IN_SECONDS
    Retry,       \* max_time of the retries of one call, in the same unit
    Nothing,     \* no question, no value
    Blank,       \* an object of a model without content
    MaxTime      \* bound: the clock

ASSUME SubjectsAssumption ==
    Subjects \subseteq Words /\ Changing \subseteq Subjects
ASSUME TimesAssumption ==
    Expire \in Nat \ {0} /\ Retry \in Nat /\ MaxTime \in Nat

Times == 0..MaxTime

Lists == {"similar", "films", "genres", "persons"}

(***************************************************************************)
(* "similar" stands for a page of the films that share a genre with a      *)
(* film, "genre" for a genre and a page of its films, the lists for a page *)
(* of what a search finds.                                                 *)
(***************************************************************************)
Questions ==
    [kind : {"film", "person"}, of : Words, page : {1}]
        \cup [kind : {"genre"} \cup Lists, of : Words, page : Nat]

ASSUME AskedAssumption ==
    Asked \subseteq SUBSET Questions /\ LastPage \in Nat

(***************************************************************************)
(* The text of a film or a person is the id.  That of a genre is an UUID   *)
(* with numbers and an order after it, which nothing else gives.  That of  *)
(* a list is made of what was typed, without escapes, so that it may be    *)
(* that of another list and, being any text, that of an id; that of        *)
(* similar films is of the size and the number of the page only.           *)
(***************************************************************************)
ASSUME TextAssumption ==
    /\ \A q \in UNION Asked : q.kind \in {"film", "person"} => Text[q] = q.of
    /\ \A p, q \in UNION Asked :
          p.kind = "genre" /\ q.kind \in {"genre", "genres"} /\ Text[p] = Text[q]
             => p = q

\* What was read for a question, and when.
Values == [q : UNION Asked, read : Times]

ASSUME BlankAssumption == Blank \notin Values

VARIABLES
    now,
    asked,      \* one of Asked
    open,       \* subjects that Elasticsearch has, without restriction
    cache,      \* [Keys -> a value and the time it expires, or Nothing]
    req,        \* [Requests -> where it is, its question, its value]
    was         \* [Subjects -> the times it was open] (history)

vars == <<now, asked, open, cache, req, was>>

-----------------------------------------------------------------------------
Index(kind) ==
    CASE kind \in {"film", "similar", "films"} -> "movies"
      [] kind \in {"genre", "genres"} -> "genres"
      [] kind \in {"person", "persons"} -> "persons"

\* make_cache_key, and the keys of single films and persons.
Key(q) == <<Index(q.kind), Text[q]>>

Keys == {Key(q) : q \in UNION Asked}

\* Read into the same model: FilmList is that of two kinds of lists.
SameModel(q, x) ==
    q.kind = x.kind \/ {q.kind, x.kind} \subseteq {"similar", "films"}

\* model_validate_json: every field of every model has a default, so that the
\* text of another model makes a film without an id or a list without films.
Parsed(q, value) == IF SameModel(q, value.q) THEN value ELSE Blank

\* Slip: the rule is forgotten.
NeedCacheAlways(q) == TRUE

\* CacheRules.need_cache, which nothing asks for a single subject.
NeedCache(q) == q.kind \in Lists => q.page <= LastPage

Entries == [value : Values, expires : 0..(MaxTime + Expire)]

Idle == [at |-> "idle", q |-> Nothing, value |-> Nothing]

RequestStates ==
    {Idle}
        \cup [at : {"search"}, q : UNION Asked, value : {Nothing}]
        \cup [at : {"store"}, q : UNION Asked, value : Values]
        \cup [at : {"answered"}, q : UNION Asked, value : Values \cup {Blank}]

At(r, place) == req[r].at = place

Answer(r, value) ==
    req' = [req EXCEPT ![r].at = "answered", ![r].value = value]

\* 404 and 500 are alike: an answer without a value, which ends the request.
Refuse(r) == req' = [req EXCEPT ![r] = Idle]

-----------------------------------------------------------------------------
Init ==
    /\ now = 0
    /\ asked \in Asked
    /\ open \in {Subjects \ some : some \in SUBSET Changing}
    /\ cache = [k \in Keys |-> Nothing]
    /\ req = [r \in Requests |-> Idle]
    /\ was = [f \in Subjects |-> IF f \in open THEN {0} ELSE {}]

(***************************************************************************)
(* The outside: clients, Elasticsearch, Redis.                             *)
(***************************************************************************)
\* The index is written by etl_service, which restricts no film, or by others.
Reindex(f) ==
    /\ open' = IF f \in open THEN open \ {f} ELSE open \cup {f}
    /\ was' = [was EXCEPT ![f] = @ \cup {now}]
    /\ UNCHANGED <<now, asked, cache, req>>

\* Time passes and entries expire.  A call that cannot connect is given up
\* after Retry; one that can, and the answer, take no time to speak of.
Tick ==
    /\ now < MaxTime
    /\ \A r \in Requests :
          /\ At(r, "store") => now < req[r].value.read + Retry
          /\ ~ At(r, "answered")
    /\ now' = now + 1
    /\ cache' = [k \in Keys |->
                    IF cache[k] # Nothing /\ cache[k].expires > now'
                    THEN cache[k] ELSE Nothing]
    /\ was' = [f \in Subjects |->
                  IF f \in open THEN was[f] \cup {now'} ELSE was[f]]
    /\ UNCHANGED <<asked, open, req>>

\* Redis drops an entry, in want of memory or in a restart.
Evict(k) ==
    /\ cache[k] # Nothing
    /\ cache' = [cache EXCEPT ![k] = Nothing]
    /\ UNCHANGED <<now, asked, open, req, was>>

(***************************************************************************)
(* FilmService.get_by_id, get_by_parameters, get_similar_films_by_id and   *)
(* their like for genres and persons.                                      *)
(***************************************************************************)
\* A request comes in and looks into the cache; if it cannot, it ends.  Blank
\* is 200 for a single subject and 404 for a list.
Lookup(r, q) ==
    /\ At(r, "idle")
    /\ q \in asked
    /\ req' = [req EXCEPT ![r] =
                  IF NeedCache(q) /\ cache[Key(q)] # Nothing
                  THEN [at |-> "answered", q |-> q,
                        value |-> Parsed(q, cache[Key(q)].value)]
                  ELSE [at |-> "search", q |-> q, value |-> Nothing]]
    /\ UNCHANGED <<now, asked, open, cache, was>>

\* put_..._to_cache leaves a page after the last one alone.
Found(r) ==
    LET value == [q |-> req[r].q, read |-> now] IN
    IF NeedCache(req[r].q)
    THEN req' = [req EXCEPT ![r].at = "store", ![r].value = value]
    ELSE Answer(r, value)

\* A list may be found empty, and is a value then; it is cached and makes 404.
SearchList(r) ==
    /\ At(r, "search")
    /\ req[r].q.kind \in Lists \ {"similar"}
    /\ Found(r)
    /\ UNCHANGED <<now, asked, open, cache, was>>

\* A film that is not there, that has no genre or that nothing is similar to
\* is refused with 500, for its 404 is caught in the same function: see Fail.
SearchSimilar(r) ==
    /\ At(r, "search")
    /\ req[r].q.kind = "similar"
    /\ req[r].q.of \in Subjects
    /\ Found(r)
    /\ UNCHANGED <<now, asked, open, cache, was>>

\* A genre or a person; one that is not there is refused and not cached.
SearchGenre(r) ==
    /\ At(r, "search")
    /\ req[r].q.kind = "genre"
    /\ IF req[r].q.of \in open THEN Found(r) ELSE Refuse(r)
    /\ UNCHANGED <<now, asked, open, cache, was>>

SearchPerson(r) ==
    /\ At(r, "search")
    /\ req[r].q.kind = "person"
    /\ IF req[r].q.of \in open THEN Found(r) ELSE Refuse(r)
    /\ UNCHANGED <<now, asked, open, cache, was>>

\* Slip: the film is written to the cache before the access is checked.
SearchFilmUnchecked(r) ==
    /\ At(r, "search")
    /\ req[r].q.kind = "film"
    /\ Found(r)
    /\ UNCHANGED <<now, asked, open, cache, was>>

\* The access to a film is checked here and not when it comes from the cache.
\* check_access takes the roles for records and the accesses for names, which
\* neither are: a film that names any access is for nobody.
SearchFilm(r) ==
    /\ At(r, "search")
    /\ req[r].q.kind = "film"
    /\ IF req[r].q.of \in open THEN Found(r) ELSE Refuse(r)
    /\ UNCHANGED <<now, asked, open, cache, was>>

\* Slip: the entry is written without ex.
StoreForever(r) ==
    /\ At(r, "store")
    /\ cache' = [cache EXCEPT ![Key(req[r].q)] =
                    [value |-> req[r].value, expires |-> MaxTime + Expire]]
    /\ Answer(r, req[r].value)
    /\ UNCHANGED <<now, asked, open, was>>

\* Whatever is there by now is written over, be it younger.
Store(r) ==
    /\ At(r, "store")
    /\ cache' = [cache EXCEPT ![Key(req[r].q)] =
                    [value |-> req[r].value, expires |-> now + Expire]]
    /\ Answer(r, req[r].value)
    /\ UNCHANGED <<now, asked, open, was>>

\* Redis or Elasticsearch fails: 500, even with the value at hand.
Fail(r) ==
    /\ req[r].at \in {"search", "store"}
    /\ Refuse(r)
    /\ UNCHANGED <<now, asked, open, cache, was>>

\* The answer arrives.
Finish(r) ==
    /\ At(r, "answered")
    /\ req' = [req EXCEPT ![r] = Idle]
    /\ UNCHANGED <<now, asked, open, cache, was>>

-----------------------------------------------------------------------------
Next ==
    \/ Tick
    \/ \E f \in Changing : Reindex(f)
    \/ \E k \in Keys : Evict(k)
    \/ \E r \in Requests :
          \/ \E q \in asked : Lookup(r, q)
          \/ SearchList(r)
          \/ SearchSimilar(r)
          \/ SearchGenre(r)
          \/ SearchPerson(r)
          \/ SearchFilm(r)
          \/ Store(r)
          \/ Fail(r)
          \/ Finish(r)

Spec == Init /\ [][Next]_vars

-----------------------------------------------------------------------------
(***************************************************************************)
(* Properties                                                              *)
(***************************************************************************)
\* Every variable has its type, and an entry its lifetime at most.
TypeOK ==
    /\ now \in Times
    /\ asked \in Asked
    /\ open \subseteq Subjects
    /\ cache \in [Keys -> Entries \cup {Nothing}]
    /\ \A k \in Keys : cache[k] # Nothing => cache[k].expires \in now..(now + Expire)
    /\ req \in [Requests -> RequestStates]
    /\ was \in [Subjects -> SUBSET (0..now)]

(***************************************************************************)
(* A film that has been restricted or absent for longer than an entry and  *)
(* the retries of writing it last is not in the cache any more, where no   *)
(* access is checked.                                                      *)
(***************************************************************************)
RestrictionTakesEffect ==
    \A k \in Keys :
        cache[k] # Nothing /\ cache[k].value.q.kind = "film"
            => \E t \in was[cache[k].value.q.of] : now - t < Expire + Retry

(***************************************************************************)
(* Whoever asks is answered as Elasticsearch would have answered less than *)
(* that long ago, although a slow request may write an older value over a  *)
(* younger one and give it a whole lifetime again.  Keys are shared, but   *)
(* nobody asking for a film, a genre or a person gets another: what mixes  *)
(* is pages of lists, among those of the same things and not after the     *)
(* last page that is cached, and an id that reads like the parameters of   *)
(* a list gets nothing that has content.                                   *)
(***************************************************************************)
Answers ==
    [r \in Requests |-> IF req[r].at = "answered"
                        THEN [q |-> req[r].q, value |-> req[r].value]
                        ELSE Nothing]

Reads == INSTANCE CatalogueReads WITH answers <- Answers, Bound <- Expire + Retry

AnswersLikeTheIndex == Reads!Spec
=============================================================================
