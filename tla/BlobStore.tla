------------------------------ MODULE BlobStore ------------------------------
(***************************************************************************)
(* What a backend (internal/backend, type Backend) promises its users: a   *)
(* put that succeeded left the whole object, a delete that succeeded left  *)
(* none, a list that succeeded is complete; a call that failed may have    *)
(* had its effect or, for a put, part of it.  Implemented by the modules   *)
(* WebDAVBackend and DirBackend, assumed by module Repo.                   *)
(***************************************************************************)
EXTENDS FiniteSets

CONSTANTS Clients,   \* goroutines that call the backend
          Names      \* objects: blobs and Meta backups

VARIABLES held,      \* object -> "none", "part" or "whole"
          busy,      \* client -> call in progress
          listed     \* the last list a client got

vars == <<held, busy, listed>>

Idle == [op |-> "none", name |-> {}, scope |-> {}, seen |-> {}]
Stored == {n \in Names : held[n] # "none"}

Init ==
    /\ held = [n \in Names |-> "none"]
    /\ busy = [c \in Clients |-> Idle]
    /\ listed = {}

\* A list looks at the objects of one kind; name is the singleton of an
\* object to put or to delete.
Begin(c) ==
    /\ busy[c] = Idle
    /\ \/ \E n \in Names :
            /\ held[n] = "none"
            /\ busy' = [busy EXCEPT ![c] = [Idle EXCEPT !.op = "put", !.name = {n}]]
       \/ \E n \in Stored : busy' = [busy EXCEPT ![c] = [Idle EXCEPT !.op = "delete", !.name = {n}]]
       \/ \E scope \in SUBSET Names :
            busy' = [busy EXCEPT ![c] = [Idle EXCEPT !.op = "list", !.scope = scope,
                                                     !.seen = Stored \intersect scope]]
    /\ listed' = {}
    /\ UNCHANGED held

\* The contents an object may have while, or after, a call on it has no answer.
Outcomes(c, n) ==
    IF n \notin busy[c].name THEN {held[n]}
    ELSE IF busy[c].op = "put" THEN {"part", "whole", held[n]}
    ELSE IF busy[c].op = "delete" THEN {"none", held[n]}
    ELSE {held[n]}

MayHold(c, h) == \A n \in Names : h[n] \in Outcomes(c, n)

Effect(c) ==
    /\ busy[c] # Idle
    /\ held' \in [Names -> {"none", "part", "whole"}]
    /\ MayHold(c, held')
    /\ UNCHANGED <<busy, listed>>

Fail(c) ==
    /\ busy[c] # Idle
    /\ held' \in [Names -> {"none", "part", "whole"}]
    /\ MayHold(c, held')
    /\ busy' = [busy EXCEPT ![c] = Idle]
    /\ UNCHANGED listed

Succeed(c) ==
    /\ busy[c] # Idle
    /\ \/ /\ busy[c].op \in {"put", "delete"}
          /\ held' = [n \in Names |->
                        IF n \notin busy[c].name THEN held[n]
                        ELSE IF busy[c].op = "put" THEN "whole" ELSE "none"]
          /\ UNCHANGED listed
       \/ /\ busy[c].op = "list"
          /\ \E answer \in SUBSET busy[c].seen :
                /\ Stored \intersect busy[c].scope \subseteq answer
                /\ listed' = answer
          /\ UNCHANGED held
    /\ busy' = [busy EXCEPT ![c] = Idle]

\* Somebody removes directories of the store, or the power fails; the process
\* may be gone with it.
Decay ==
    /\ held' \in [Names -> {"none", "part", "whole"}]
    /\ \A n \in Names : held'[n] \in {held[n], "none", "part"} /\ (held[n] = "none" => held'[n] = "none")
    /\ busy' \in {busy, [c \in Clients |-> Idle]}
    /\ UNCHANGED listed

Next == Decay \/ \E c \in Clients : Begin(c) \/ Effect(c) \/ Fail(c) \/ Succeed(c)

Spec == Init /\ [][Next]_vars
=============================================================================
