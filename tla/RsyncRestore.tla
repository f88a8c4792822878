---------------------------- MODULE RsyncRestore ----------------------------
(***************************************************************************)
(* An rsync session in the restore direction: processSendSession and       *)
(* Repo.StreamFile serve a client that pulls part of the module, while     *)
(* other sessions and requests replace and remove files: this direction    *)
(* takes no lock.  The client is the stock rsync receiver, modelled from   *)
(* what sender.go expects of it.                                           *)
(***************************************************************************)
EXTENDS Integers, SequencesExt

CONSTANTS
    Paths,
    Contents,         \* contents of files: sequences of blocks
    None,
    LongNames,        \* paths of more than 255 bytes
    MaxChanges,       \* bound: changes of the manifest
    MaxPullFaults     \* bound: broken connections, failed reads

VARIABLES
    manifest,    \* path -> row or None
    changes,     \* how often it changed
    versions,    \* ghost: path -> contents its file had since the list was made
    puller,      \* the rsync process
    sender,      \* the server's goroutine
    wire,        \* state of the connection
    requests, answers,   \* the two streams
    copy,        \* path -> [kind, blocks, mtime] or None: the tree being restored
    pullFaults

session  == <<puller, sender, wire, requests, answers, copy>>
pullvars == <<manifest, changes, versions, session, pullFaults>>

Row(kind, blocks, mtime) == [kind |-> kind, blocks |-> blocks, mtime |-> mtime]

\* The size in the row; that of a directory or link is never zero, and it has no blocks.
Size(r) == IF r.kind = "file" THEN Len(r.blocks) ELSE 1
PullEntry(p, r) == [path |-> p, kind |-> r.kind, size |-> Size(r), mtime |-> r.mtime]

NoPuller == [pc |-> "ended", rc |-> "none", dry |-> FALSE, list |-> << >>, todo |-> {},
             phase |-> 0, acks |-> 0]
NoSender == [pc |-> "done", dry |-> FALSE, list |-> << >>, phase |-> 0, ndx |-> 0,
             size |-> 0, plan |-> None, sent |-> << >>]

PullInit ==
    /\ manifest \in [Paths -> {None} \union {Row("file", s, 0) : s \in Contents}]
    /\ changes = 0
    /\ versions = [p \in Paths |-> {}]
    /\ puller = NoPuller /\ sender = NoSender
    /\ wire = "closed" /\ requests = << >> /\ answers = << >>
    /\ copy = [p \in Paths |-> None]
    /\ pullFaults = 0

Content(r)   == IF r # None /\ r.kind = "file" THEN {r.blocks} ELSE {}
PullFault    == pullFaults < MaxPullFaults /\ pullFaults' = pullFaults + 1
Held         == {p \in Paths : manifest[p] # None}
Asks(m)      == requests' = IF wire = "open" THEN Append(requests, m) ELSE requests
Answers(m)   == answers' = IF wire = "open" THEN Append(answers, m) ELSE answers
Answer(type) == [type |-> type, ndx |-> 0, blocks |-> << >>]
Comes(s, type) == s # << >> /\ Head(s).type = type

\* Another session or request replaces or removes a row; its blobs may be gone soon.
Change ==
    /\ changes < MaxChanges /\ changes' = changes + 1
    /\ \E p \in Paths, r \in {None, Row("static", << >>, changes + 1)}
                             \union {Row("file", s, changes + 1) : s \in Contents} :
         /\ manifest' = [manifest EXCEPT ![p] = r]
         /\ versions' = [versions EXCEPT ![p] = @ \union Content(r)]
    /\ UNCHANGED <<session, pullFaults>>

-----------------------------------------------------------------------------
(* The client.                                                             *)

Pull ==
    /\ puller.pc = "ended" /\ sender.pc = "done"
    /\ \E dry \in BOOLEAN :
        /\ puller' = [NoPuller EXCEPT !.pc = "list", !.rc = "ok", !.dry = dry]
        /\ sender' = [NoSender EXCEPT !.pc = "flist", !.dry = dry]
    /\ wire' = "open" /\ requests' = << >> /\ answers' = << >>
    /\ UNCHANGED <<manifest, changes, versions, copy, pullFaults>>

\* MSG_ERROR_XFER
PullerNotesError ==
    /\ puller.pc # "ended" /\ Comes(answers, "error")
    /\ answers' = Tail(answers) /\ puller' = [puller EXCEPT !.rc = "partial"]
    /\ UNCHANGED <<manifest, changes, versions, sender, wire, requests, copy, pullFaults>>

\* What the copy does not have yet: other type, or other size or mtime of a file.
Differs(e) == \/ copy[e.path] = None
              \/ copy[e.path].kind # e.kind \/ copy[e.path].mtime # e.mtime
              \/ e.kind = "file" /\ Len(copy[e.path].blocks) # e.size

\* A list is unreadable if a length did not fit; an empty one ends the session.
PullerGetsList ==
    /\ puller.pc = "list" /\ Comes(answers, "list")
    /\ answers' = Tail(answers)
    /\ LET list == Head(answers).list
           todo == {i \in DOMAIN list : Differs(list[i])}
       IN IF \E i \in DOMAIN list : list[i].path \in LongNames
          THEN puller' = [NoPuller EXCEPT !.rc = "failed"] /\ wire' = "broken"
          ELSE IF list = << >>
          THEN puller' = [NoPuller EXCEPT !.rc = puller.rc] /\ wire' = "broken"
          ELSE puller' = [puller EXCEPT !.pc = "loop", !.list = list, !.todo = todo] /\ UNCHANGED wire
    /\ UNCHANGED <<manifest, changes, versions, sender, requests, copy, pullFaults>>

\* In the order of the list: the generator makes directories and links itself and
\* announces them; a file is asked for, in a dry run without sums.
PullerAsks ==
    /\ puller.pc = "loop"
    /\ \E i \in puller.todo :
         LET e == puller.list[i]
         IN /\ \A j \in puller.todo : i <= j
            /\ Asks([type |-> "item", ndx |-> i, transfer |-> e.kind = "file"])
            /\ copy' = IF e.kind = "static" /\ ~puller.dry
                       THEN [copy EXCEPT ![e.path] = Row("static", << >>, e.mtime)] ELSE copy
            /\ puller' = [puller EXCEPT !.todo = @ \ {i}]
    /\ UNCHANGED <<manifest, changes, versions, sender, wire, answers, pullFaults>>

\* Three phases end with DONE, the next one begins when the last was acknowledged.
PullerDone ==
    /\ puller.pc = "loop" /\ puller.todo = {}
    /\ puller.phase < 3 /\ puller.acks = puller.phase
    /\ Asks([type |-> "done"])
    /\ puller' = [puller EXCEPT !.phase = @ + 1]
    /\ UNCHANGED <<manifest, changes, versions, sender, wire, answers, copy, pullFaults>>

PullerGetsEcho ==
    /\ puller.pc = "loop" /\ Comes(answers, "echo")
    /\ answers' = Tail(answers)
    /\ UNCHANGED <<manifest, changes, versions, puller, sender, wire, requests, copy, pullFaults>>

\* The whole file with a checksum that fits; it gets the mtime of the list.
PullerGetsFile ==
    /\ puller.pc = "loop" /\ Comes(answers, "data")
    /\ answers' = Tail(answers)
    /\ LET m == Head(answers)
           e == puller.list[m.ndx]
       IN copy' = [copy EXCEPT ![e.path] = Row("file", m.blocks, e.mtime)]
    /\ UNCHANGED <<manifest, changes, versions, puller, sender, wire, requests, pullFaults>>

\* The third one ends the transfer; the goodbye follows, after the numbers of
\* deleted files if --delete was given.
PullerGetsDone ==
    /\ puller.pc = "loop" /\ Comes(answers, "done")
    /\ answers' = Tail(answers)
    /\ puller' = [puller EXCEPT !.acks = @ + 1, !.pc = IF puller.acks + 1 = 3 THEN "goodbye" ELSE @]
    /\ UNCHANGED <<manifest, changes, versions, sender, wire, requests, copy, pullFaults>>

PullerGoodbye ==
    /\ puller.pc = "goodbye"
    /\ \E delete \in BOOLEAN :
         requests' = IF wire # "open" THEN requests
                     ELSE requests \o (IF delete THEN <<[type |-> "delstats"]>> ELSE << >>)
                                   \o <<[type |-> "done"]>>
    /\ puller' = [puller EXCEPT !.pc = "last"]
    /\ UNCHANGED <<manifest, changes, versions, sender, wire, answers, copy, pullFaults>>

PullerLast ==
    /\ puller.pc = "last" /\ answers # << >>
    /\ answers' = Tail(answers)
    /\ IF Head(answers).type = "done"
       THEN Asks([type |-> "done"]) /\ puller' = [puller EXCEPT !.pc = "ended"]
       ELSE UNCHANGED <<requests, puller>>
    /\ UNCHANGED <<manifest, changes, versions, sender, wire, copy, pullFaults>>

\* The connection ends before the session does.
PullerFails ==
    /\ puller.pc # "ended" /\ wire \in {"broken", "closed"} /\ answers = << >>
    /\ puller' = [NoPuller EXCEPT !.rc = IF puller.pc = "list" /\ puller.rc = "partial" THEN "partial" ELSE "failed"]
    /\ UNCHANGED <<manifest, changes, versions, sender, wire, requests, answers, copy, pullFaults>>

PullBreaks ==
    /\ wire = "open" /\ PullFault
    /\ wire' = "broken" /\ requests' = << >> /\ answers' = << >>
    /\ UNCHANGED <<manifest, changes, versions, puller, sender, copy>>

-----------------------------------------------------------------------------
(* The server: processSendSession.                                         *)

\* Every error return; what was written before can still be read.
SenderLeaves ==
    /\ sender' = NoSender
    /\ wire' = IF wire = "open" THEN "closed" ELSE wire
    /\ requests' = << >>

\* FileRows, once.  A pull of a path that has no rows is answered with an error
\* and an empty list; of the whole module, with an empty list.
SendList ==
    /\ sender.pc = "flist"
    /\ LET list == SetToSeq({PullEntry(p, manifest[p]) : p \in Held})
           sent == [type |-> "list", list |-> list]
       IN \/ /\ Answers(sent)
             /\ sender' = [sender EXCEPT !.pc = "loop", !.list = list]
             /\ UNCHANGED <<wire, requests>>
          \/ /\ list = << >>
             /\ answers' = IF wire = "open" THEN <<Answer("error"), sent>> ELSE answers
             /\ SenderLeaves
    /\ versions' = [p \in Paths |-> Content(manifest[p])]
    /\ UNCHANGED <<manifest, changes, puller, copy, pullFaults>>

Looping(type) == sender.pc = "loop" /\ Comes(requests, type)
Reads == requests' = Tail(requests)

\* Directories, links, and every file of a dry run.
SendEcho ==
    /\ Looping("item") /\ (~Head(requests).transfer \/ sender.dry)
    /\ Reads /\ Answers(Answer("echo"))
    /\ UNCHANGED <<manifest, changes, versions, puller, sender, wire, copy, pullFaults>>

\* StreamFile begins: the size is read.
StreamSize ==
    /\ Looping("item") /\ Head(requests).transfer /\ ~sender.dry
    /\ LET i == Head(requests).ndx
           r == manifest[sender.list[i].path]
       IN IF r = None THEN SenderLeaves
          ELSE /\ sender' = [sender EXCEPT !.pc = "blocks", !.ndx = i, !.size = Size(r)]
               /\ Reads /\ UNCHANGED wire
    /\ UNCHANGED <<manifest, changes, versions, puller, answers, copy, pullFaults>>

Streamed == manifest[sender.list[sender.ndx].path]

\* The block list is read, in one query.
StreamPlan ==
    /\ sender.pc = "blocks"
    /\ sender' = [sender EXCEPT !.pc = "get", !.plan = Streamed]
    /\ UNCHANGED <<manifest, changes, versions, puller, wire, requests, answers, copy, pullFaults>>

\* The blocks to send.
Plan == IF sender.plan = None THEN << >> ELSE sender.plan.blocks

\* One Get; it fails, and the session with it, if the row has been replaced and
\* GC was faster.
StreamBlock ==
    /\ sender.pc = "get" /\ Len(sender.sent) < Len(Plan)
    /\ \/ /\ sender' = [sender EXCEPT !.sent = Append(@, Plan[Len(@) + 1])]
          /\ UNCHANGED <<wire, requests, pullFaults>>
       \/ Streamed # sender.plan /\ SenderLeaves /\ UNCHANGED pullFaults
       \/ PullFault /\ SenderLeaves
    /\ UNCHANGED <<manifest, changes, versions, puller, answers, copy>>

StreamEndUnchecked ==   \* mutant: the size is not compared
    /\ sender.pc = "get" /\ Len(sender.sent) >= Len(Plan)
    /\ Answers([type |-> "data", ndx |-> sender.ndx, blocks |-> sender.sent])
    /\ sender' = [sender EXCEPT !.pc = "loop", !.plan = None, !.sent = << >>]
    /\ UNCHANGED <<manifest, changes, versions, puller, wire, requests, copy, pullFaults>>

\* The bytes sent must be as many as the row said.
StreamEnd ==
    /\ sender.pc = "get" /\ Len(sender.sent) >= Len(Plan)
    /\ IF Len(sender.sent) # sender.size THEN SenderLeaves /\ UNCHANGED answers
       ELSE /\ Answers([type |-> "data", ndx |-> sender.ndx, blocks |-> sender.sent])
            /\ sender' = [sender EXCEPT !.pc = "loop", !.plan = None, !.sent = << >>]
            /\ UNCHANGED <<wire, requests>>
    /\ UNCHANGED <<manifest, changes, versions, puller, copy, pullFaults>>

\* Mutant: the loop ends with the second DONE.
SendDoneEarly ==
    /\ Looping("done")
    /\ Reads /\ Answers(Answer("done"))
    /\ sender' = [sender EXCEPT !.phase = @ + 1, !.pc = IF sender.phase + 1 > 1 THEN "goodbye" ELSE @]
    /\ UNCHANGED <<manifest, changes, versions, puller, wire, copy, pullFaults>>

\* Two are acknowledged; the third ends the loop, and DONE and stats follow.
SendPhaseDone ==
    /\ Looping("done")
    /\ Reads /\ Answers(Answer("done"))
    /\ sender' = [sender EXCEPT !.phase = @ + 1, !.pc = IF sender.phase + 1 > 2 THEN "goodbye" ELSE @]
    /\ UNCHANGED <<manifest, changes, versions, puller, wire, copy, pullFaults>>

\* read_final_goodbye: DONE is read, answered, and read once more; deletion
\* counts are echoed.
FinalGoodbye ==
    /\ sender.pc \in {"goodbye", "last"} /\ requests # << >>
    /\ IF Head(requests).type = "delstats"
       THEN Reads /\ Answers(Answer("delstats")) /\ UNCHANGED <<sender, wire>>
       ELSE IF sender.pc = "goodbye"
       THEN Reads /\ Answers(Answer("done")) /\ sender' = [sender EXCEPT !.pc = "last"] /\ UNCHANGED wire
       ELSE SenderLeaves /\ UNCHANGED answers
    /\ UNCHANGED <<manifest, changes, versions, puller, copy, pullFaults>>

\* A read from a connection that is gone.
SenderLosesPuller ==
    /\ sender.pc # "done" /\ wire = "broken"
    /\ SenderLeaves
    /\ UNCHANGED <<manifest, changes, versions, puller, answers, copy, pullFaults>>

-----------------------------------------------------------------------------
PullerStep ==
    \/ PullerNotesError \/ PullerGetsList \/ PullerAsks \/ PullerDone \/ PullerGetsEcho
    \/ PullerGetsFile \/ PullerGetsDone \/ PullerGoodbye \/ PullerLast \/ PullerFails

SenderStep ==
    \/ SendList \/ SendEcho \/ StreamSize \/ StreamPlan \/ StreamBlock \/ StreamEnd
    \/ SendPhaseDone \/ FinalGoodbye \/ SenderLosesPuller

PullNext == Change \/ Pull \/ PullBreaks \/ PullerStep \/ SenderStep

PullSpec == /\ PullInit /\ [][PullNext]_pullvars
            /\ WF_pullvars(Pull) /\ WF_pullvars(PullerStep) /\ WF_pullvars(SenderStep)

-----------------------------------------------------------------------------
(* Properties.                                                             *)

\* A pull that succeeds has brought everything that was listed, and every file is
\* one whole version that the module held while the session ran, although files
\* were replaced and collected under it (repo.go:362-415).
RestoredWhole ==
    puller.pc = "ended" /\ puller.rc = "ok" /\ ~puller.dry =>
        \A k \in DOMAIN puller.list :
            LET e == puller.list[k]
            IN /\ copy[e.path] # None /\ copy[e.path].kind = e.kind
               /\ e.kind = "file" => copy[e.path].blocks \in versions[e.path]

\* Once changes and faults stop, a client that tries again succeeds again and
\* again, or there is nothing to restore (sender.go: neither end waits for the
\* other for ever).
RestoresSucceed ==
    []<>(puller.pc = "ended" /\ (puller.rc = "ok" \/ Held = {}))
=============================================================================
