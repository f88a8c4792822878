---------------------------- MODULE WebDAVBackend ----------------------------
(***************************************************************************)
(* The WebDAV backend (internal/backend/webdav.go) of one module and the   *)
(* server it talks to: buckets are collections created on demand and       *)
(* remembered in a cache, a write is tried three times with pauses, a list *)
(* walks the buckets level by level.  Requests and answers get lost, the   *)
(* server refuses, and somebody may remove a collection behind its back.   *)
(***************************************************************************)
EXTENDS Naturals, Sequences, FiniteSets

CONSTANTS
    Clients,        \* goroutines of the daemon that use this backend
    Blobs, Metas,   \* names of data blobs; of Meta backups
    Parts,          \* name -> its bucket: the collections from the root down
    Strays,         \* <<collection, name>>: objects put by hand in a wrong bucket
    MissingParent,  \* error class of a request below a collection that is gone
    MaxFaults,      \* bound: requests that go wrong
    MaxRemovals     \* bound: collections removed behind the backend's back

Names == Blobs \union Metas
Cols  == UNION {{Parts[n][i] : i \in DOMAIN Parts[n]} : n \in Names}

\* Error classes of WebDAVError: "again" (no answer, 408, 425, 429, 423, 5xx),
\* "notFound" (404) and "fatal" (everything else, 409 Conflict included).
Errors == {"again", "notFound", "fatal"}

ASSUME BackendAssumption ==
    /\ Blobs \intersect Metas = {}
    /\ \A n \in Names : Parts[n] \in Seq(Cols) /\ Parts[n] # << >>
    \* a collection is a path: it fixes its depth and those above it
    /\ \A n, m \in Names : \A i \in DOMAIN Parts[n], j \in DOMAIN Parts[m] :
          Parts[n][i] = Parts[m][j] => i = j /\ \A h \in 1 .. i : Parts[n][h] = Parts[m][h]
    /\ MissingParent \in Errors
    /\ {MaxFaults, MaxRemovals} \subseteq Nat

VARIABLES
    held,      \* server: object -> "none", "part" or "whole"
    cols,      \* server: collections that exist
    cached,    \* WebDAV.collections: collections believed to exist
    call,      \* client -> call in progress
    listed,    \* the list a client just got, until the next call
    faults, removals

vars == <<held, cols, cached, call, listed, faults, removals>>

IdleCall == [op |-> "none", name |-> {}, scope |-> {}, seen |-> {}, pc |-> "idle",
             level |-> 0, tries |-> 0, err |-> "none", todo |-> {}, found |-> {}]

Init ==
    /\ held = [n \in Names |-> "none"]
    /\ cols = {} /\ cached = {}
    /\ call = [c \in Clients |-> IdleCall]
    /\ listed = {}
    /\ faults = 0 /\ removals = 0

Stored == {n \in Names : held[n] # "none"}

\* The collection c has to ensure next, and whether its parent is there.
Bucket(c) == LET n == CHOOSE n \in call[c].name : TRUE IN Parts[n]
Col(c)    == Bucket(c)[call[c].level]
ParentThere(c) == call[c].level > 1 => Bucket(c)[call[c].level - 1] \in cols
Above(n)  == {Parts[n][i] : i \in DOMAIN Parts[n]}

Goto(c, pc) == call' = [call EXCEPT ![c].pc = pc]
Return(c)   == call' = [call EXCEPT ![c] = IdleCall]
Error(c, e) == call' = [call EXCEPT ![c].pc = "error", ![c].err = e]

\* A request that goes wrong: its answer is an error of any class, or is lost.
Trouble == faults < MaxFaults /\ faults' = faults + 1

-----------------------------------------------------------------------------
(* A goroutine calls the backend.  The locks of module Repo keep a list    *)
(* and deletions of blobs (GC) apart from puts, one goroutine at a time    *)
(* handles Meta backups; an object's name is drawn at random for one put.  *)

Alone(n) == \A d \in Clients : n \notin call[d].name \union call[d].scope

Put(c) ==
    /\ call[c].pc = "idle"
    /\ \E n \in Names :
        /\ held[n] = "none" /\ Alone(n)
        /\ call' = [call EXCEPT ![c] = [IdleCall EXCEPT !.op = "put", !.name = {n},
                                        !.pc = "ensure", !.level = 1, !.tries = 1]]
    /\ listed' = {}
    /\ UNCHANGED <<held, cols, cached, faults, removals>>

Delete(c) ==
    /\ call[c].pc = "idle"
    /\ \E n \in Stored :
        /\ Alone(n)
        /\ call' = [call EXCEPT ![c] = [IdleCall EXCEPT !.op = "delete", !.name = {n},
                                        !.pc = "delete"]]
    /\ listed' = {}
    /\ UNCHANGED <<held, cols, cached, faults, removals>>

List(c) ==
    /\ call[c].pc = "idle"
    /\ \A d \in Clients : call[d].name \intersect Blobs = {}
    /\ call' = [call EXCEPT ![c] = [IdleCall EXCEPT !.op = "list", !.scope = Blobs, !.pc = "walk",
                                    !.seen = Stored \intersect Blobs, !.todo = {"root"}]]
    /\ listed' = {}
    /\ UNCHANGED <<held, cols, cached, faults, removals>>

\* ListMetaContext makes sure of the collection first, so it starts like a put.
ListMeta(c) ==
    /\ call[c].pc = "idle"
    /\ \A d \in Clients : call[d].name \intersect Metas = {}
    /\ \E m \in Metas :
        call' = [call EXCEPT ![c] = [IdleCall EXCEPT !.op = "list", !.name = {m}, !.scope = Metas,
                                     !.pc = "ensure", !.level = 1,
                                     !.seen = Stored \intersect Metas]]
    /\ listed' = {}
    /\ UNCHANGED <<held, cols, cached, faults, removals>>

-----------------------------------------------------------------------------
(* ensureCollections and ensureMetaCollection, one level at a time.        *)

\* The next level, or the request the collections are needed for.
Advance(c) ==
    IF call[c].level < Len(Bucket(c))
    THEN [call EXCEPT ![c].level = @ + 1, ![c].pc = "ensure"]
    ELSE [call EXCEPT ![c].pc = IF call[c].op = "put" THEN "put" ELSE "propfind"]

Known(c) ==
    /\ call[c].pc = "ensure" /\ Col(c) \in cached
    /\ call' = Advance(c)
    /\ UNCHANGED <<held, cols, cached, listed, faults, removals>>

\* 201 and 405 (it exists) are both success.
Mkcol(c) ==
    /\ call[c].pc = "ensure" /\ Col(c) \notin cached
    /\ \/ ParentThere(c) /\ cols' = cols \union {Col(c)} /\ Goto(c, "mark") /\ UNCHANGED faults
       \/ ~ParentThere(c) /\ Error(c, MissingParent) /\ UNCHANGED <<cols, faults>>
       \/ Trouble /\ Error(c, "again") /\ ParentThere(c) /\ cols' = cols \union {Col(c)}
       \/ Trouble /\ \E e \in Errors : Error(c, e) /\ UNCHANGED cols
    /\ UNCHANGED <<held, cached, listed, removals>>

\* The answer is noted; meanwhile another client may have cleared the cache.
Mark(c) ==
    /\ call[c].pc = "mark"
    /\ cached' = cached \union {Col(c)}
    /\ call' = Advance(c)
    /\ UNCHANGED <<held, cols, listed, faults, removals>>

-----------------------------------------------------------------------------
(* PutContext and PutMetaContext.                                          *)

PutRequest(c) ==
    /\ call[c].pc = "put"
    /\ LET n == CHOOSE n \in call[c].name : TRUE
           there == Above(n) \subseteq cols
       IN \/ there /\ held' = [held EXCEPT ![n] = "whole"] /\ Return(c) /\ UNCHANGED faults
          \/ ~there /\ Error(c, MissingParent) /\ UNCHANGED <<held, faults>>
          \/ Trouble /\ there /\ Error(c, "again") /\ \E x \in {"part", "whole"} : held' = [held EXCEPT ![n] = x]
          \/ Trouble /\ \E e \in Errors : Error(c, e) /\ UNCHANGED held
    /\ UNCHANGED <<cols, cached, listed, removals>>

\* The error is worth another attempt, and one is left.
RetriesLeft(c) == call[c].op = "put" /\ call[c].err # "fatal" /\ call[c].tries < 3

\* After a pause once more from the first collection, unless the context is
\* cancelled first; or the error is returned.
PauseOrReturn(c) ==
    \/ /\ RetriesLeft(c)
       /\ call' = [call EXCEPT ![c].pc = "ensure", ![c].level = 1, ![c].tries = @ + 1,
                               ![c].err = "none"]
       /\ UNCHANGED faults
    \/ RetriesLeft(c) /\ Trouble /\ Return(c)
    \/ ~RetriesLeft(c) /\ Return(c) /\ UNCHANGED faults

\* Mutant: the cache stays as it was after a 404.
AfterErrorKeepsCache(c) ==
    /\ call[c].pc = "error"
    /\ cached' = IF call[c].op = "put" /\ call[c].name \subseteq Metas
                 THEN cached \ {Bucket(c)[1]} ELSE cached
    /\ PauseOrReturn(c)
    /\ UNCHANGED <<held, cols, listed, removals>>

\* What the loop does with an error: a put of a Meta backup forgets the Meta
\* collection, a put of a blob forgets all collections after a 404.
AfterError(c) ==
    /\ call[c].pc = "error"
    /\ cached' = IF call[c].op # "put" THEN cached
                 ELSE IF call[c].name \subseteq Metas THEN cached \ {Bucket(c)[1]}
                 ELSE IF call[c].err = "notFound" THEN {} ELSE cached
    /\ PauseOrReturn(c)
    /\ UNCHANGED <<held, cols, listed, removals>>

-----------------------------------------------------------------------------
(* Delete, DeleteMetaContext, ListMetaContext and List.                    *)

\* 404 counts as deleted; no retry.
DeleteRequest(c) ==
    /\ call[c].pc = "delete"
    /\ LET n == CHOOSE n \in call[c].name : TRUE
       IN \/ held' = [held EXCEPT ![n] = "none"] /\ UNCHANGED faults
          \/ Trouble /\ held' \in {held, [held EXCEPT ![n] = "none"]}
    /\ Return(c)
    /\ UNCHANGED <<cols, cached, listed, removals>>

\* ListMetaContext's PROPFIND: every object of the Meta collection.
PropfindMeta(c) ==
    /\ call[c].pc = "propfind"
    /\ \/ Col(c) \in cols /\ listed' = Stored \intersect Metas /\ UNCHANGED faults
       \/ Col(c) \notin cols /\ UNCHANGED <<listed, faults>>
       \/ Trouble /\ UNCHANGED listed
    /\ Return(c)
    /\ UNCHANGED <<held, cols, cached, removals>>

\* Collections directly below k that look like a bucket ("meta" does not).
Below(k) ==
    {j \in cols : \E n \in Blobs : LET p == Parts[n] IN
        \E i \in DOMAIN p : p[i] = j /\ IF i = 1 THEN k = "root" ELSE p[i - 1] = k}

\* The objects in collection k, the misplaced ones included.
Inside(k) == {n \in Stored \intersect Blobs : Parts[n][Len(Parts[n])] = k}
             \union {n \in Blobs : <<k, n>> \in Strays}

LeavesAnywhere(k) == Inside(k)   \* mutant: blobBelongsToBucket is not asked

\* blobBelongsToBucket: those whose bucket this is.
Leaves(k) == {n \in Inside(k) : Parts[n][Len(Parts[n])] = k /\ n \in Stored}

WalkSkipsErrors(c) ==   \* mutant: a level that cannot be read is skipped
    /\ call[c].pc = "walk"
    /\ \E k \in call[c].todo :
        /\ \/ UNCHANGED faults /\ call' = [call EXCEPT ![c].todo = (@ \ {k}) \union Below(k),
                                                        ![c].found = @ \union Leaves(k)]
           \/ Trouble /\ call' = [call EXCEPT ![c].todo = @ \ {k}]
    /\ UNCHANGED <<held, cols, cached, listed, removals>>

\* One PROPFIND of the walk; an error of any of them is the error of the list.
Walk(c) ==
    /\ call[c].pc = "walk"
    /\ \E k \in call[c].todo :
        \/ /\ k \in cols \union {"root"}
           /\ call' = [call EXCEPT ![c].todo = (@ \ {k}) \union Below(k),
                                   ![c].found = @ \union Leaves(k)]
           /\ UNCHANGED faults
        \/ k \notin cols \union {"root"} /\ Return(c) /\ UNCHANGED faults
        \/ Trouble /\ Return(c)
    /\ UNCHANGED <<held, cols, cached, listed, removals>>

WalkEnds(c) ==
    /\ call[c].pc = "walk" /\ call[c].todo = {}
    /\ listed' = call[c].found
    /\ Return(c)
    /\ UNCHANGED <<held, cols, cached, faults, removals>>

-----------------------------------------------------------------------------
(* The world around.                                                       *)

\* The collection k and those below it.
Under(k) == UNION {{Parts[n][i] : i \in {j \in DOMAIN Parts[n] : \E h \in 1 .. j : Parts[n][h] = k}} :
                   n \in Names}

\* Somebody removes a collection on the server, with everything below.
Remove ==
    /\ removals < MaxRemovals
    /\ \E k \in cols :
        /\ held' = [n \in Names |-> IF k \in Above(n) THEN "none" ELSE held[n]]
        /\ cols' = cols \ Under(k)
    /\ removals' = removals + 1
    /\ UNCHANGED <<cached, call, listed, faults>>

\* The daemon restarts: calls and cache are gone.
Restart ==
    /\ Trouble
    /\ \E c \in Clients : call[c].pc # "idle"
    /\ call' = [c \in Clients |-> IdleCall]
    /\ cached' = {}
    /\ UNCHANGED <<held, cols, listed, removals>>

-----------------------------------------------------------------------------
Step(c) ==
    \/ Known(c) \/ Mkcol(c) \/ Mark(c) \/ PutRequest(c) \/ AfterError(c)
    \/ DeleteRequest(c) \/ PropfindMeta(c) \/ Walk(c) \/ WalkEnds(c)

Next ==
    \/ \E c \in Clients :
        \/ Put(c) \/ Delete(c) \/ List(c) \/ ListMeta(c)
        \/ Step(c)
    \/ Remove \/ Restart

Spec == Init /\ [][Next]_vars

\* Every request is answered or times out (http.Client.Timeout), timers fire.
FairSpec == Spec /\ \A c \in Clients : WF_vars(Step(c))

-----------------------------------------------------------------------------
(* Properties.                                                             *)

\* Whatever is lost, retried, torn or removed, callers see a blob store:
\* success of a put means the whole object is there and stays, a list that
\* succeeds has every object and nothing else.
Store == INSTANCE BlobStore WITH
    busy <- [c \in Clients |-> [op |-> call[c].op,
                                name |-> IF call[c].op = "list" THEN {} ELSE call[c].name,
                                scope |-> call[c].scope, seen |-> call[c].seen]]
ImplementsBlobStore == Store!Spec

\* A cache that believes in a collection that is gone heals: on a server that
\* answers 404, once nothing else goes wrong and nobody removes anything, no
\* put fails any more (webdav.go:368-373).
FailsPut(c) == call[c].op = "put" /\ call[c].pc = "error" /\ call'[c].pc = "idle"
PutsHeal == <>[][\A c \in Clients : ~FailsPut(c)]_vars
=============================================================================
