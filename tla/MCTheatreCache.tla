--------------------------- MODULE MCTheatreCache ---------------------------
(***************************************************************************)
(* A small instance of TheatreCache.  What is asked for under one key does *)
(* not touch another key, so that a few questions at a time are enough: a  *)
(* film, the films similar to one of two, and their key asked for as if it *)
(* were a film; a genre by the page and two searches whose texts are one;  *)
(* a person, a search for persons whose text is asked for as a person, and *)
(* pages past the last one that is cached.  Requests are interchangeable.  *)
(***************************************************************************)
EXTENDS TheatreCache, TLC

CONSTANTS
    s1, s2,   \* ids
    paging,   \* page_size=50&page_number=1
    search,   \* the text of a search for persons
    w1, w2    \* searches for films that make one text

About(kinds, of, pages) == [kind : kinds, of : of, page : pages]

MCAsked ==
    { About({"film"}, {s1, paging}, {1}) \cup About({"similar"}, {s1, s2}, {1}),
      About({"genre"}, {s1}, {1, 2}) \cup About({"films"}, {w1, w2}, {1}),
      About({"person"}, {s1, search}, {1}) \cup About({"persons"}, {w1}, {1})
          \cup About({"similar"}, {s1, s2}, {2}) }

MCText ==
    [q \in UNION MCAsked |->
        CASE q.kind \in {"film", "person"} -> q.of
          [] q.kind = "genre" -> <<q.of, q.page>>
          [] q.kind = "similar" -> IF q.page = 1 THEN paging ELSE <<q.page>>
          [] q.kind = "films" -> w1
          [] q.kind = "persons" -> search]

Symmetry == Permutations(Requests)
=============================================================================
