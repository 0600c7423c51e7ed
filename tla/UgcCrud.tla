------------------------------ MODULE UgcCrud -------------------------------
(***************************************************************************)
(* ugc_crud_service: a collection of MongoDB, MongoCUDMixin on top of it,  *)
(* and the handlers that check who owns a document.  Each call of the      *)
(* database is an action; a batch is stored document by document.          *)
(*                                                                         *)
(* The handlers compare a UUID with the text in the token.  The service is *)
(* therefore also called as its base class offers it, by Direct.           *)
(***************************************************************************)
EXTENDS Integers, FiniteSets, Sequences, SequencesExt

CONSTANTS
    Users,       \* user ids of documents, UUIDs
    Tokens,      \* user ids in tokens, text
    Direct,      \* a caller without a token
    Contents,    \* content ids
    None,        \* no document
    Unique,      \* whether (user, content) is unique: likes, bookmarks
    Requests,    \* calls that may be in flight together
    MaxDocs,     \* bound: documents ever made
    MaxBatch     \* bound: documents in a batch

ASSUME TypesAssumption ==
    /\ Users \cap Tokens = {}
    /\ Direct \notin Tokens
    /\ None \notin Users \X Contents
    /\ Unique \in BOOLEAN
    /\ MaxDocs \in Nat /\ MaxBatch \in Nat

Ids == 1..MaxDocs
Keys == Users \X Contents
Batches == SeqOf(Keys, MaxBatch)

RequestStates ==
    [at : {"idle", "insert", "owner", "check", "delete", "get", "set"},
     caller : Tokens \cup {Direct},
     batch : Batches,       \* what is still to insert
     id : 0..MaxDocs + 1,   \* of the next one of them, or to update
     ids : SUBSET Ids,      \* to delete
     key : Keys \cup {None}]

VARIABLES
    docs,       \* the collection: [Ids -> its user and content]
    made,       \* ids made so far
    req,        \* [Requests -> RequestStates]
    before,     \* [Ids -> the id before it in its batch] (history)
    ever,       \* ids ever stored (history)
    inserted,   \* ids of batches answered as inserted (history)
    deleted     \* ids answered as deleted (history)

vars == <<docs, made, req, before, ever, inserted, deleted>>

-----------------------------------------------------------------------------
NoRequest == [at |-> "idle", caller |-> Direct, batch |-> <<>>, id |-> 0,
              ids |-> {}, key |-> None]

At(r, place) == req[r].at = place
Go(r, place) == req' = [req EXCEPT ![r].at = place]
Answer(r) == req' = [req EXCEPT ![r] = NoRequest]

Existing == {i \in Ids : docs[i] # None}

\* Slip: the index is not unique.
NeverDuplicate(i, key) == FALSE

\* DuplicateError: another document has the user and the content.
Duplicate(i, key) == Unique /\ \E j \in Existing \ {i} : docs[j] = key

\* Slip: any user is taken for the owner.
OwnsAnything(caller, user) == caller # Direct

\* A UUID is never equal to a string.
Owns(caller, user) == caller = user

Allowed(caller, user) == caller = Direct \/ Owns(caller, user)

\* post_likes: mine are the documents of the caller, in their order.
Mine(caller, batch, mine) ==
    \E at \in [1..Len(mine) -> 1..Len(batch)] :
        /\ \A j, k \in 1..Len(mine) : j < k => at[j] < at[k]
        /\ \A i \in 1..Len(batch) :
              Allowed(caller, batch[i][1]) <=> \E j \in 1..Len(mine) : at[j] = i
        /\ \A j \in 1..Len(mine) : mine[j] = batch[at[j]]

Init ==
    /\ docs = [i \in Ids |-> None]
    /\ made = 0
    /\ req = [r \in Requests |-> NoRequest]
    /\ before = [i \in Ids |-> 0]
    /\ ever = {}
    /\ inserted = {}
    /\ deleted = {}

-----------------------------------------------------------------------------
\* insert_many of an empty list is an error; ids are made with the documents.
CallInsert(r, caller, batch) ==
    /\ At(r, "idle")
    /\ \E mine \in Batches :
       /\ Mine(caller, batch, mine)
       /\ made + Len(mine) <= MaxDocs
       /\ made' = made + Len(mine)
       /\ before' = [i \in Ids |-> IF i \in made + 2 .. made' THEN i - 1
                                   ELSE before[i]]
       /\ IF mine = <<>>
          THEN UNCHANGED req
          ELSE req' = [req EXCEPT ![r] = [NoRequest EXCEPT
                         !.at = "insert", !.caller = caller,
                         !.batch = mine, !.id = made + 1]]
    /\ UNCHANGED <<docs, ever, inserted, deleted>>

\* The next document of a batch, or the end of it.
InsertNext(r) ==
    LET i == req[r].id IN
    IF Tail(req[r].batch) = <<>>
    THEN /\ inserted' = inserted \cup
               {j \in Ids : j <= i /\ \A k \in j + 1 .. i : before[k] = k - 1}
         /\ Answer(r)
    ELSE /\ req' = [req EXCEPT ![r].batch = Tail(@), ![r].id = i + 1]
         /\ UNCHANGED inserted

\* Slip: ordered = False.
InsertUnordered(r) ==
    /\ At(r, "insert")
    /\ LET i == req[r].id IN
       IF Duplicate(i, Head(req[r].batch))
       THEN UNCHANGED <<docs, ever>>
       ELSE /\ docs' = [docs EXCEPT ![i] = Head(req[r].batch)]
            /\ ever' = ever \cup {i}
    /\ InsertNext(r)
    /\ UNCHANGED <<made, before, deleted>>

\* insert_many: what came before a duplicate stays, what comes after it is
\* not tried.
Insert(r) ==
    /\ At(r, "insert")
    /\ LET i == req[r].id IN
       IF Duplicate(i, Head(req[r].batch))
       THEN Answer(r) /\ UNCHANGED <<docs, ever, inserted>>
       ELSE /\ docs' = [docs EXCEPT ![i] = Head(req[r].batch)]
            /\ ever' = ever \cup {i}
            /\ InsertNext(r)
    /\ UNCHANGED <<made, before, deleted>>

-----------------------------------------------------------------------------
CallDelete(r, caller, ids) ==
    /\ At(r, "idle")
    /\ req' = [req EXCEPT ![r] = [NoRequest EXCEPT
                 !.at = IF caller = Direct THEN "check" ELSE "owner",
                 !.caller = caller, !.ids = ids]]
    /\ UNCHANGED <<docs, made, before, ever, inserted, deleted>>

\* delete_likes: get_by_ids, 404, and 403 for a document of somebody else.
CheckOwner(r) ==
    /\ At(r, "owner")
    /\ IF /\ req[r].ids \subseteq Existing
          /\ \A i \in req[r].ids : Allowed(req[r].caller, docs[i][1])
       THEN Go(r, "check") ELSE Answer(r)
    /\ UNCHANGED <<docs, made, before, ever, inserted, deleted>>

\* _get_nonexistent_ids: 404.
CheckExisting(r) ==
    /\ At(r, "check")
    /\ IF req[r].ids \subseteq Existing THEN Go(r, "delete") ELSE Answer(r)
    /\ UNCHANGED <<docs, made, before, ever, inserted, deleted>>

\* delete_many: whatever is still there; the ids are answered in any case.
Delete(r) ==
    /\ At(r, "delete")
    /\ docs' = [i \in Ids |-> IF i \in req[r].ids THEN None ELSE docs[i]]
    /\ deleted' = deleted \cup req[r].ids
    /\ Answer(r)
    /\ UNCHANGED <<made, before, ever, inserted>>

-----------------------------------------------------------------------------
\* update_like: 403 unless the user of the update is the caller.
CallUpdate(r, caller, id, key) ==
    /\ At(r, "idle")
    /\ IF Allowed(caller, key[1])
       THEN req' = [req EXCEPT ![r] = [NoRequest EXCEPT
                      !.at = "get", !.caller = caller, !.id = id, !.key = key]]
       ELSE UNCHANGED req
    /\ UNCHANGED <<docs, made, before, ever, inserted, deleted>>

Get(r) ==
    /\ At(r, "get")
    /\ IF req[r].id \in Existing THEN Go(r, "set") ELSE Answer(r)
    /\ UNCHANGED <<docs, made, before, ever, inserted, deleted>>

\* Slip: the update makes the document if it is gone.
UpdateUpserting(r) ==
    /\ At(r, "set")
    /\ IF Duplicate(req[r].id, req[r].key)
       THEN UNCHANGED docs
       ELSE docs' = [docs EXCEPT ![req[r].id] = req[r].key]
    /\ Answer(r)
    /\ UNCHANGED <<made, before, ever, inserted, deleted>>

\* find_one and update_one in one command; for a document deleted meanwhile
\* there is none to answer, 500.
Update(r) ==
    /\ At(r, "set")
    /\ IF req[r].id \notin Existing \/ Duplicate(req[r].id, req[r].key)
       THEN UNCHANGED docs
       ELSE docs' = [docs EXCEPT ![req[r].id] = req[r].key]
    /\ Answer(r)
    /\ UNCHANGED <<made, before, ever, inserted, deleted>>

\* The process ends, or the caller goes away.
Abort(r) ==
    /\ ~ At(r, "idle")
    /\ Answer(r)
    /\ UNCHANGED <<docs, made, before, ever, inserted, deleted>>

Next ==
    \E r \in Requests :
        \/ \E caller \in Tokens \cup {Direct}, batch \in Batches :
              CallInsert(r, caller, batch)
        \/ \E caller \in Tokens \cup {Direct}, ids \in SUBSET (1..made) :
              CallDelete(r, caller, ids)
        \/ \E caller \in Tokens \cup {Direct}, id \in 1..made, key \in Keys :
              CallUpdate(r, caller, id, key)
        \/ Insert(r)
        \/ CheckOwner(r)
        \/ CheckExisting(r)
        \/ Delete(r)
        \/ Get(r)
        \/ Update(r)
        \/ Abort(r)

Spec == Init /\ [][Next]_vars

-----------------------------------------------------------------------------
(***************************************************************************)
(* Properties                                                              *)
(***************************************************************************)
\* Every variable has its type, and the index on user and content holds.
TypeOK ==
    /\ docs \in [Ids -> Keys \cup {None}]
    /\ Unique => \A i, j \in Existing : docs[i] = docs[j] => i = j
    /\ made \in 0..MaxDocs
    /\ req \in [Requests -> RequestStates]
    /\ before \in [Ids -> 0..MaxDocs]
    /\ Existing \subseteq ever /\ ever \subseteq 1..made
    /\ inserted \subseteq Ids
    /\ deleted \subseteq ever

(***************************************************************************)
(* Of a batch that is refused for a duplicate, whenever that came in, a    *)
(* beginning is stored and nothing behind it; one that is answered was     *)
(* stored whole.                                                           *)
(***************************************************************************)
BatchStoresABeginning ==
    /\ \A i \in ever : before[i] # 0 => before[i] \in ever
    /\ inserted \subseteq ever

(***************************************************************************)
(* However calls overlap, their checks being apart from what they do,      *)
(* documents are stored once and gone for good: an update that found a     *)
(* document before it was deleted does not bring it back, the unique index *)
(* holds at every step, and what insert and delete answer is so.           *)
(***************************************************************************)
Documents == INSTANCE Collection WITH stored <- ever

ActsAsCollection == Documents!Spec

(***************************************************************************)
(* No call that comes with a token ever changes a document: as the user of *)
(* a document is never that of a token, the filter of post_likes leaves    *)
(* nothing to insert, the checks of update_like and delete_likes let no    *)
(* document pass, and the one delete they do let pass deletes none.        *)
(***************************************************************************)
TokensChangeNothing ==
    [][\A r \in Requests :
          req[r].caller # Direct /\ req'[r] # req[r]
              => UNCHANGED <<docs, ever, inserted, deleted>>]_vars
=============================================================================
