----------------------------- MODULE FileStore -----------------------------
(***************************************************************************)
(* What the repository promises its readers: one current content per path  *)
(* ("v0.5 keeps only the current state"), replaced as a whole by a write,  *)
(* copied by a rename, removed by a delete, and touched by nothing else.   *)
(* Chunks, deduplication, blobs, uploads in flight, garbage collection and *)
(* backups are invisible here.                                             *)
(***************************************************************************)
CONSTANTS Paths, Contents

VARIABLE content   \* path -> contents, for the paths that exist

Init == content = << >>

Write(p, body) ==
    content' = [q \in DOMAIN content \union {p} |-> IF q = p THEN body ELSE content[q]]

Remove(p) ==
    /\ p \in DOMAIN content
    /\ content' = [q \in DOMAIN content \ {p} |-> content[q]]

Next ==
    \/ \E p \in Paths, body \in Contents : Write(p, body)
    \/ \E p \in Paths : Remove(p)

Spec == Init /\ [][Next]_content
=============================================================================
