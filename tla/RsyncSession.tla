---------------------------- MODULE RsyncSession ----------------------------
(***************************************************************************)
(* rsync sessions in the backup direction: clients that push their trees   *)
(* and the goroutine processSession that receives each of them.  The two   *)
(* ends talk over two FIFO streams; the sessions of one module exclude     *)
(* each other by the write lock.  The client is the stock rsync sender,    *)
(* modelled from what the receiver expects of it and from sender.go, which *)
(* plays the same role when a backup is restored.                          *)
(* How the manifest and the blobs behave below a row is in module Repo.    *)
(***************************************************************************)
EXTENDS Integers, Sequences, FiniteSets, SequencesExt

CONSTANTS
    Clients, Paths,
    Subtree,          \* client -> the paths below its transfer root (modulePrefix)
    Tree,             \* client -> path -> contents of the file it starts with, or None
    Contents,         \* contents of files: sequences of blocks
    Zero,             \* what a client sends for a block it failed to read
    None,
    MaxEdits,         \* bound: client -> how often its tree changes
    MaxFaults,        \* bound: broken connections, failed reads and writes
    Modes,            \* client -> the options it may use: [delete, dry]
    Filters,          \* do clients use --exclude rules?
    FilesChangeSize,  \* may a file grow or shrink between list and transfer?
    MatchesGoBack     \* may a client refer to the blocks of the old file in any order?

ASSUME SessionAssumption ==
    /\ Subtree \in [Clients -> SUBSET Paths]
    /\ \A c \in Clients : IsFiniteSet(Subtree[c])
    /\ Tree \in [Clients -> [Paths -> Contents \cup {None}]]
    /\ None \notin Clients /\ MaxEdits \in [Clients -> Nat] /\ MaxFaults \in Nat
    /\ \A s \in Contents : s \in Seq({s[i] : i \in DOMAIN s}) /\ \A i \in DOMAIN s : s[i] # Zero
    /\ Modes \in [Clients -> SUBSET [delete : BOOLEAN, dry : BOOLEAN]]
    /\ {Filters, FilesChangeSize, MatchesGoBack} \subseteq BOOLEAN

VARIABLES
    source, edits,   \* client -> path -> item or None: its tree; how often it changed
    mirror,     \* path -> row or None: the manifest
    client,     \* client -> the rsync process
    server,     \* client -> the server's goroutine of its session
    conn,       \* client -> state of the connection
    toServer, toClient,   \* client -> the two streams
    lock,       \* moduleWriteLocks: the session that holds it, or None
    holder,     \* ghost: the last session that took it
    faults      \* how many faults happened

vars == <<source, edits, mirror, client, server, conn, toServer, toClient, lock, holder, faults>>

-----------------------------------------------------------------------------
(* Data.                                                                   *)

\* mtimes are never given twice, so (mtime, size) of different files differ.
\* "static": a directory or link; "special": no row is kept (device, FIFO, link without -l).
Item(kind, blocks, mtime) == [kind |-> kind, blocks |-> blocks, mtime |-> mtime]

\* The rows the manifest may hold; None is no row, and no contents either.
Rows == [kind : {"file", "static"}, size : Nat, mtime : Clients \X Nat,
         blocks : Contents \cup {<< >>}]

ASSUME NoneAssumption == None \notin Rows \cup Contents \cup {<< >>}

\* One entry of the file list, and the row made of it (size from the list).
EntryOf(p, it) == [path |-> p, kind |-> it.kind, size |-> Len(it.blocks), mtime |-> it.mtime]
RowOfMore(e, blocks) ==   \* mutant: the size is off by one
    [kind |-> e.kind, size |-> e.size + 1, mtime |-> e.mtime, blocks |-> blocks]
RowOf(e, blocks) == [kind |-> e.kind, size |-> e.size, mtime |-> e.mtime, blocks |-> blocks]

Msg(type)        == [type |-> type]
ItemMsg(i, sums) == [type |-> "item", ndx |-> i, sums |-> sums]   \* sums = None: no data wanted
DataMsg(tokens, good) == [type |-> "data", tokens |-> tokens, good |-> good]

\* A token of the data stream: a literal block, or block b of the old file.
Literal(x) == [match |-> 0, block |-> x]
Match(b)   == [match |-> b, block |-> Zero]

\* What a client may send for a file, given the blocks of the old one whose sums it got.
TokenStreams(new, old) ==
    {t \in [DOMAIN new -> {Literal(new[i]) : i \in DOMAIN new} \cup {Match(b) : b \in DOMAIN old}] :
        /\ \A i \in DOMAIN t : t[i].match = 0 => t[i].block = new[i]
        /\ \A i \in DOMAIN t : t[i].match # 0 => old[t[i].match] = new[i]
        /\ MatchesGoBack \/ \A i, j \in DOMAIN t :
               i < j /\ t[i].match # 0 /\ t[j].match # 0 => t[i].match < t[j].match}

\* Mutant: the block right after an earlier match is refused.
AcceptMatchesApart(t) ==
    \A i, j \in DOMAIN t : i < j /\ t[j].match # 0 => t[j].match - 1 > t[i].match

\* The receiver refuses a match that starts before the end of an earlier one.
AcceptMatches(t) ==
    \A i, j \in DOMAIN t : i < j /\ t[j].match # 0 => t[j].match - 1 >= t[i].match

Rebuild(t, old) == [i \in DOMAIN t |-> IF t[i].match = 0 THEN t[i].block ELSE old[t[i].match]]

\* processSession after the last entry: S sends a DONE, R reads one.
Goodbye == <<"S", "R", "S", "R", "S", "S", "R", "S">>

-----------------------------------------------------------------------------
(* Both ends and the streams between them.                                 *)

NoClient == [pc |-> "ended", rc |-> "none", list |-> << >>, ioError |-> FALSE, delete |-> FALSE,
             dry |-> FALSE, phase |-> 0,
             seen |-> [p \in Paths |-> {}],   \* ghost: contents each file had since the list was made
             absent |-> {}]                   \* ghost: what the tree did not have then

NoServer == [pc |-> "done", list |-> << >>, ioError |-> FALSE, i |-> 1, todo |-> {}, step |-> 1]

Init ==
    /\ source = [c \in Clients |-> [p \in Paths |->
           IF p \in Subtree[c] /\ Tree[c][p] # None THEN Item("file", Tree[c][p], <<c, 0>>) ELSE None]]
    /\ edits = [c \in Clients |-> 0]
    /\ mirror = [p \in Paths |-> None]
    /\ client = [c \in Clients |-> NoClient]
    /\ server = [c \in Clients |-> NoServer]
    /\ conn = [c \in Clients |-> "closed"]
    /\ toServer = [c \in Clients |-> << >>] /\ toClient = [c \in Clients |-> << >>]
    /\ lock = None /\ holder = None /\ faults = 0

Serving(c) == server[c].pc \notin {"done", "failed", "refused"}
Running(c) == client[c].pc # "ended"

\* What is written to a connection that is gone is lost.
ClientSends(c, ms) ==
    toServer' = IF conn[c] = "open" THEN [toServer EXCEPT ![c] = @ \o ms] ELSE toServer
ServerSends(c, m) ==
    toClient' = IF conn[c] = "open" THEN [toClient EXCEPT ![c] = Append(@, m)] ELSE toClient
ServerReads(c) == toServer' = [toServer EXCEPT ![c] = Tail(@)]
ServerGets(c, type) == toServer[c] # << >> /\ Head(toServer[c]).type = type
ClientGets(c, type) == toClient[c] # << >> /\ Head(toClient[c]).type = type

UseFault == faults < MaxFaults /\ faults' = faults + 1

ServerOnly == UNCHANGED <<source, edits, client, faults>>
ClientOnly == UNCHANGED <<source, edits, mirror, server, lock, holder>>

-----------------------------------------------------------------------------
(* The client.                                                             *)

Present(c) == {p \in Subtree[c] : source[c][p] # None}

\* A user changes the tree.  During a session a file changes or goes away.
EditSource(c) ==
    /\ edits[c] < MaxEdits[c]
    /\ edits' = [edits EXCEPT ![c] = @ + 1]
    /\ \E p \in Subtree[c] :
         LET stamp == <<c, edits[c] + 1>>
             old   == source[c][p]
         IN \E it \in {None, Item("static", << >>, stamp), Item("special", << >>, stamp)}
                      \cup {Item("file", s, stamp) : s \in Contents} :
              /\ it # old
              /\ Running(c) => /\ old # None
                               /\ it # None => it.kind = "file" /\ old.kind = "file"
                               /\ it # None /\ ~FilesChangeSize => Len(it.blocks) = Len(old.blocks)
              /\ source' = [source EXCEPT ![c][p] = it]
              /\ client' = IF Running(c) /\ it # None
                           THEN [client EXCEPT ![c].seen[p] = @ \cup {it.blocks}] ELSE client
    /\ UNCHANGED <<mirror, server, conn, toServer, toClient, lock, holder, faults>>

\* A session starts and the client sends its file list.  What it cannot read is
\* left out and marks the list as incomplete; what a filter excludes is left out.
\* NegotiateBinary: both ends know --delete and --dry-run.
Connect(c) ==
    /\ ~Running(c) /\ ~Serving(c)
    /\ \E excluded \in IF Filters THEN SUBSET Present(c) ELSE {{}},
          unread \in SUBSET Present(c), mode \in Modes[c] :
         LET list == SetToSeq({EntryOf(p, source[c][p]) : p \in (Present(c) \ excluded) \ unread})
         IN /\ unread \cap excluded = {}
            /\ IF unread = {} THEN faults' = faults ELSE UseFault
            /\ client' = [client EXCEPT ![c] =
                   [NoClient EXCEPT !.pc = "sending", !.rc = "ok", !.list = list,
                                    !.ioError = (unread # {}), !.delete = mode.delete, !.dry = mode.dry,
                                    !.seen = [p \in Paths |->
                                        IF p \in Present(c) THEN {source[c][p].blocks} ELSE {}],
                                    !.absent = Subtree[c] \ Present(c)]]
            /\ toServer' = [toServer EXCEPT ![c] = <<[type |-> "list", list |-> list, ioError |-> unread # {}]>>]
    /\ server' = [server EXCEPT ![c] = [NoServer EXCEPT !.pc = "list"]]
    /\ conn' = [conn EXCEPT ![c] = "open"]
    /\ toClient' = [toClient EXCEPT ![c] = << >>]
    /\ UNCHANGED <<source, edits, mirror, lock, holder>>

ClientReads(c) == toClient' = [toClient EXCEPT ![c] = Tail(@)]
Failing(c)     == client' = [client EXCEPT ![c].rc = "partial"]

\* A request of which only the echo is wanted: a static entry, or a dry run.
ClientEchoes(c) ==
    /\ client[c].pc = "sending" /\ ClientGets(c, "item") /\ Head(toClient[c]).sums = None
    /\ ClientReads(c) /\ ClientSends(c, <<Msg("echo")>>)
    /\ ClientOnly /\ UNCHANGED <<client, conn, faults>>

\* The file is sent: as it is now, or with zeros and a bad checksum after a
\* failed read; a file that is gone or cannot be opened is skipped (MSG_NO_SEND).
ClientSendsFile(c) ==
    /\ client[c].pc = "sending" /\ ClientGets(c, "item") /\ Head(toClient[c]).sums # None
    /\ ClientReads(c)
    /\ LET m  == Head(toClient[c])
           it == source[c][client[c].list[m.ndx].path]
       IN \/ /\ it # None
             /\ \E t \in TokenStreams(it.blocks, m.sums) : ClientSends(c, <<DataMsg(t, TRUE)>>)
             /\ UNCHANGED <<client, faults>>
          \/ /\ it # None /\ it.blocks # << >>
             /\ ClientSends(c, <<DataMsg([i \in DOMAIN it.blocks |-> Literal(Zero)], FALSE)>>)
             /\ Failing(c) /\ UseFault
          \/ /\ ClientSends(c, <<[type |-> "nosend", ndx |-> m.ndx]>>)
             /\ Failing(c) /\ IF it = None THEN faults' = faults ELSE UseFault
    /\ ClientOnly /\ UNCHANGED conn

\* MSG_ERROR_XFER from the server.
ClientNotesError(c) ==
    /\ ClientGets(c, "corrupt") /\ Running(c)
    /\ ClientReads(c) /\ Failing(c)
    /\ ClientOnly /\ UNCHANGED <<conn, toServer, faults>>

\* send_files counts phases, says DONE at its end; then the final goodbye.
ClientDone(c) ==
    /\ client[c].pc = "sending" /\ ClientGets(c, "done")
    /\ ClientReads(c) /\ ClientSends(c, <<Msg("done")>>)
    /\ client' = [client EXCEPT ![c].phase = @ + 1,
                                ![c].pc = IF client[c].phase + 1 > 2 THEN "goodbye" ELSE @]
    /\ ClientOnly /\ UNCHANGED <<conn, faults>>

ClientGoodbye(c) ==
    /\ client[c].pc \in {"goodbye", "last"} /\ ClientGets(c, "done")
    /\ ClientReads(c)
    /\ IF client[c].pc = "goodbye"
       THEN client' = [client EXCEPT ![c].pc = "last"] /\ ClientSends(c, <<Msg("done")>>)
       ELSE /\ client' = [client EXCEPT ![c] =
                   IF client[c].rc = "ok" /\ ~client[c].ioError THEN [@ EXCEPT !.pc = "ended"]
                   ELSE [NoClient EXCEPT !.rc = "partial"]]
            /\ UNCHANGED toServer
    /\ ClientOnly /\ UNCHANGED <<conn, faults>>

\* The connection is gone and the client noticed.
ClientFails(c) ==
    /\ Running(c)
    /\ \/ conn[c] = "broken"
       \/ conn[c] = "closed" /\ toClient[c] = << >>
    /\ client' = [client EXCEPT ![c] =
           IF Serving(c) THEN [@ EXCEPT !.pc = "ended", !.rc = "failed"] ELSE [NoClient EXCEPT !.rc = "failed"]]
    /\ toClient' = [toClient EXCEPT ![c] = << >>]
    /\ ClientOnly /\ UNCHANGED <<conn, toServer, faults>>

Break(c) ==
    /\ conn[c] = "open" /\ UseFault
    /\ conn' = [conn EXCEPT ![c] = "broken"]
    /\ ClientOnly /\ UNCHANGED <<client, toServer, toClient>>

-----------------------------------------------------------------------------
(* The server: processSession.                                             *)

Step(c, pc)  == server' = [server EXCEPT ![c].pc = pc]
NextEntry(c) == server' = [server EXCEPT ![c].pc = "entry", ![c].i = @ + 1]
Entry(c)     == server[c].list[server[c].i]
AtEntry(c)   == server[c].pc = "entry" /\ server[c].i <= Len(server[c].list)
OldRow(c)    == mirror[Entry(c).path]

\* Every way out of processSession with an error: the lock is released, the connection closed.
Leave(c, pc) ==
    /\ server' = [server EXCEPT ![c] = [NoServer EXCEPT !.pc = pc]]
    /\ conn' = [conn EXCEPT ![c] = "broken"]
    /\ toServer' = [toServer EXCEPT ![c] = << >>]
    /\ lock' = IF lock = c THEN None ELSE lock

ReceiveList(c) ==
    /\ server[c].pc = "list" /\ ServerGets(c, "list")
    /\ ServerReads(c)
    /\ server' = [server EXCEPT ![c].pc = "lock", ![c].list = Head(toServer[c]).list,
                                ![c].ioError = Head(toServer[c]).ioError]
    /\ ServerOnly /\ UNCHANGED <<mirror, conn, toClient, lock, holder>>

\* Mutant: sessions do not wait for each other.
TakeLockAlways(c) ==
    /\ server[c].pc = "lock"
    /\ lock' = c /\ holder' = c
    /\ Step(c, "entry")
    /\ ServerOnly /\ UNCHANGED <<mirror, conn, toServer, toClient>>

\* WriteSessionLock, held to the end of the session.
TakeLock(c) ==
    /\ server[c].pc = "lock" /\ lock = None
    /\ lock' = c /\ holder' = c
    /\ Step(c, "entry")
    /\ ServerOnly /\ UNCHANGED <<mirror, conn, toServer, toClient>>

\* A directory, a link, or a special file, for which no row is kept: no data.
DriveStatic(c) ==
    /\ AtEntry(c) /\ Entry(c).kind # "file"
    /\ ServerSends(c, ItemMsg(server[c].i, None)) /\ Step(c, "echo")
    /\ ServerOnly /\ UNCHANGED <<mirror, conn, toServer, lock, holder>>

\* Same mtime and size as a regular file's row: nothing is sent.
QuickHit(c) == /\ OldRow(c) # None
               /\ OldRow(c).kind = "file"
               /\ OldRow(c).mtime = Entry(c).mtime /\ OldRow(c).size = Entry(c).size

QuickCheck(c) ==
    /\ AtEntry(c) /\ Entry(c).kind = "file" /\ QuickHit(c)
    /\ NextEntry(c)
    /\ ServerOnly /\ UNCHANGED <<mirror, conn, toServer, toClient, lock, holder>>

\* The block sums are those of the old file, if there is one to start from.
\* Reading it fails when the row's size is not that of its blocks.
UseDelta(c) == /\ Entry(c).size # 0 /\ OldRow(c) # None
               /\ OldRow(c).kind = "file" /\ OldRow(c).size # 0
Basis(c)    == IF UseDelta(c) THEN OldRow(c).blocks ELSE << >>
Summable(c) == UseDelta(c) => OldRow(c).size = Len(OldRow(c).blocks)

RequestFile(c) ==
    /\ AtEntry(c) /\ Entry(c).kind = "file" /\ ~QuickHit(c)
    /\ IF ~client[c].dry /\ ~Summable(c)
       THEN Leave(c, "failed") /\ UNCHANGED toClient
       ELSE /\ ServerSends(c, ItemMsg(server[c].i, IF client[c].dry THEN None ELSE Basis(c)))
            /\ Step(c, IF client[c].dry THEN "echo" ELSE "data")
            /\ UNCHANGED <<conn, toServer, lock>>
    /\ ServerOnly /\ UNCHANGED <<mirror, holder>>

\* What comes is not what the receiver expects.
Refuse(c) == Leave(c, "refused") /\ UNCHANGED <<mirror, toClient>>

\* Mutant: a dry run stores directories and links.
ReceiveEchoStores(c) ==
    /\ server[c].pc = "echo" /\ toServer[c] # << >>
    /\ ServerReads(c) /\ NextEntry(c)
    /\ mirror' = IF Entry(c).kind = "static"
                 THEN [mirror EXCEPT ![Entry(c).path] = RowOf(Entry(c), << >>)] ELSE mirror
    /\ ServerOnly /\ UNCHANGED <<conn, toClient, lock, holder>>

\* driveEntry reads its answer; applyStaticEntry.
ReceiveEcho(c) ==
    /\ server[c].pc = "echo" /\ toServer[c] # << >>
    /\ IF Head(toServer[c]).type = "echo"
       THEN /\ ServerReads(c) /\ NextEntry(c)
            /\ mirror' = IF Entry(c).kind = "static" /\ ~client[c].dry
                         THEN [mirror EXCEPT ![Entry(c).path] = RowOf(Entry(c), << >>)] ELSE mirror
            /\ UNCHANGED <<conn, toClient, lock>>
       ELSE Refuse(c)
    /\ ServerOnly /\ UNCHANGED holder

\* Mutant: the checksum is not compared.
StoreUnchecked(c, m) ==
    /\ ServerReads(c) /\ NextEntry(c)
    /\ mirror' = [mirror EXCEPT ![Entry(c).path] = RowOf(Entry(c), Rebuild(m.tokens, Basis(c)))]
    /\ UNCHANGED <<toClient, conn, lock>>

\* The token stream and its checksum: the file is stored, or refused as damaged.
Store(c, m) ==
    /\ ServerReads(c) /\ NextEntry(c)
    /\ mirror' = IF m.good
                 THEN [mirror EXCEPT ![Entry(c).path] = RowOf(Entry(c), Rebuild(m.tokens, Basis(c)))]
                 ELSE mirror
    /\ IF m.good THEN UNCHANGED toClient ELSE ServerSends(c, Msg("corrupt"))
    /\ UNCHANGED <<conn, lock>>

\* The client skipped a file (MSG_NO_SEND); its number must be the one asked for.
Skip(c, m) == ServerReads(c) /\ NextEntry(c) /\ UNCHANGED <<mirror, toClient, conn, lock>>

ReceiveFile(c) ==
    /\ server[c].pc = "data" /\ toServer[c] # << >>
    /\ LET m == Head(toServer[c])
       IN IF m.type = "data" /\ AcceptMatches(m.tokens) THEN Store(c, m)
          ELSE IF m.type = "nosend" /\ m.ndx = server[c].i THEN Skip(c, m)
          ELSE Refuse(c)
    /\ ServerOnly /\ UNCHANGED holder

\* Mutant: an incomplete list deletes too.
StartDeleteAnyway(c) ==
    /\ server[c].pc = "entry" /\ server[c].i > Len(server[c].list)
    /\ LET covered == {server[c].list[k].path : k \in DOMAIN server[c].list}
           rows    == {p \in Subtree[c] : mirror[p] # None}
       IN IF client[c].delete /\ ~client[c].dry
          THEN server' = [server EXCEPT ![c].pc = "delete", ![c].todo = rows \ covered]
          ELSE Step(c, "goodbye")
    /\ ServerOnly /\ UNCHANGED <<mirror, conn, toServer, toClient, lock, holder>>

\* --delete: the rows below the transfer root are listed once, the covered ones spared.
StartDelete(c) ==
    /\ server[c].pc = "entry" /\ server[c].i > Len(server[c].list)
    /\ LET covered == {server[c].list[k].path : k \in DOMAIN server[c].list}
           rows    == {p \in Subtree[c] : mirror[p] # None}
       IN IF client[c].delete /\ ~client[c].dry /\ ~server[c].ioError
          THEN server' = [server EXCEPT ![c].pc = "delete", ![c].todo = rows \ covered]
          ELSE Step(c, "goodbye")
    /\ ServerOnly /\ UNCHANGED <<mirror, conn, toServer, toClient, lock, holder>>

DeleteRow(c) ==
    /\ server[c].pc = "delete"
    /\ \/ \E p \in server[c].todo :
            /\ mirror' = [mirror EXCEPT ![p] = None]
            /\ server' = [server EXCEPT ![c].todo = @ \ {p}]
       \/ server[c].todo = {} /\ Step(c, "goodbye") /\ UNCHANGED mirror
    /\ ServerOnly /\ UNCHANGED <<conn, toServer, toClient, lock, holder>>

SendDone(c) ==
    /\ server[c].pc = "goodbye" /\ server[c].step \in DOMAIN Goodbye /\ Goodbye[server[c].step] = "S"
    /\ ServerSends(c, Msg("done"))
    /\ server' = [server EXCEPT ![c].step = @ + 1]
    /\ ServerOnly /\ UNCHANGED <<mirror, conn, toServer, lock, holder>>

ReceiveDone(c) ==
    /\ server[c].pc = "goodbye" /\ server[c].step \in DOMAIN Goodbye /\ Goodbye[server[c].step] = "R"
    /\ toServer[c] # << >>
    /\ IF Head(toServer[c]).type = "done"
       THEN /\ ServerReads(c)
            /\ server' = [server EXCEPT ![c].step = @ + 1]
            /\ UNCHANGED <<mirror, conn, toClient, lock>>
       ELSE Refuse(c)
    /\ ServerOnly /\ UNCHANGED holder

Finish(c) ==
    /\ server[c].pc = "goodbye" /\ server[c].step \notin DOMAIN Goodbye
    /\ server' = [server EXCEPT ![c] = NoServer] /\ lock' = None
    /\ conn' = [conn EXCEPT ![c] = IF @ = "open" THEN "closed" ELSE @]
    /\ toServer' = [toServer EXCEPT ![c] = << >>]
    /\ ServerOnly /\ UNCHANGED <<mirror, toClient, holder>>

\* The connection is gone, noticed by the next read or write.
LoseClient(c) ==
    /\ Serving(c) /\ server[c].pc # "lock" /\ conn[c] = "broken"
    /\ Leave(c, "failed")
    /\ ServerOnly /\ UNCHANGED <<mirror, toClient, holder>>

\* The manifest or the backend returns an error.
StoreFails(c) ==
    /\ server[c].pc \in {"entry", "echo", "data", "delete"} /\ UseFault
    /\ Leave(c, "failed")
    /\ UNCHANGED <<source, edits, client, mirror, toClient, holder>>

-----------------------------------------------------------------------------
ClientStep(c) ==
    \/ ClientEchoes(c) \/ ClientSendsFile(c) \/ ClientNotesError(c)
    \/ ClientDone(c) \/ ClientGoodbye(c) \/ ClientFails(c)

ServerStep(c) ==
    \/ ReceiveList(c) \/ DriveStatic(c) \/ QuickCheck(c) \/ RequestFile(c) \/ ReceiveEcho(c) \/ ReceiveFile(c)
    \/ StartDelete(c) \/ DeleteRow(c) \/ SendDone(c) \/ ReceiveDone(c) \/ Finish(c)
    \/ LoseClient(c)

Next == \E c \in Clients :
    \/ EditSource(c) \/ Connect(c) \/ Break(c) \/ StoreFails(c)
    \/ ClientStep(c) \/ TakeLock(c) \/ ServerStep(c)

Spec == Init /\ [][Next]_vars

\* Both ends go on while they can, a client starts again when its session has
\* ended, and a goroutine that waits for the mutex gets it in its turn.
FairSpec ==
    /\ Spec
    /\ \A c \in Clients : /\ WF_vars(Connect(c)) /\ WF_vars(ClientStep(c))
                          /\ WF_vars(ServerStep(c)) /\ SF_vars(TakeLock(c))

-----------------------------------------------------------------------------
(* Properties.                                                             *)

\* Types; and the manifest never holds a block a client could not read (the
\* whole-file checksum in receiveFileLegacy and receiveFileDelta).
TypeOK ==
    /\ \A p \in Paths : mirror[p] = None \/ mirror[p] \in Rows
    /\ lock \in Clients \cup {None}
    /\ \A c \in Clients :
         /\ client[c].pc \in {"sending", "goodbye", "last", "ended"}
         /\ client[c].rc \in {"none", "ok", "partial", "failed"}
         /\ server[c].pc \in {"list", "lock", "entry", "echo", "data", "delete", "goodbye",
                              "done", "failed", "refused"}
         /\ conn[c] \in {"open", "closed", "broken"}
    /\ faults \in 0 .. MaxFaults

\* A client that exits with success finds the manifest converged to its tree,
\* until another session starts: every listed file as it was since the list was
\* made, and with --delete nothing else below its root (receiver.go:376: the
\* goodbye comes after everything was persisted).
SuccessMeansConverged ==
    \A c \in Clients :
        ~Running(c) /\ client[c].rc = "ok" /\ ~client[c].dry /\ holder = c =>
            /\ \A k \in DOMAIN client[c].list :
                 LET e == client[c].list[k]
                 IN e.kind # "special" =>
                      /\ mirror[e.path] # None
                      /\ mirror[e.path].kind = e.kind /\ mirror[e.path].mtime = e.mtime
                      /\ mirror[e.path].blocks \in client[c].seen[e.path]
            /\ client[c].delete =>
                 {p \in Subtree[c] : mirror[p] # None} \subseteq
                     {client[c].list[k].path : k \in DOMAIN client[c].list}

\* A row is removed only by a session that may, and only if the client's tree
\* did not have the file (docs/usage.md:58; an incomplete list deletes nothing).
DeletesOnlyVanished ==
    [][\A p \in Paths : mirror[p] # None /\ mirror'[p] = None =>
         /\ lock # None /\ client[lock].delete /\ ~client[lock].dry
         /\ p \in client[lock].absent]_vars

\* A row is written only by the session that holds the lock, below its root, never
\* in a dry run, and holds the whole contents of one state of the client's file,
\* whatever was matched, resent or cut off (receiveFileDelta, badSum).
WritesAreWhole ==
    [][\A p \in Paths : mirror'[p] \notin {mirror[p], None} =>
         /\ lock # None /\ ~client[lock].dry /\ p \in Subtree[lock]
         /\ mirror'[p].kind = "file" => mirror'[p].blocks \in client[lock].seen[p]]_vars

\* The receiver takes everything a stock client sends: a session never ends
\* because of the protocol.
ConformingClientServed == \A c \in Clients : server[c].pc # "refused"

\* Once faults and changes stop, every client that tries again succeeds again and
\* again: no wait of one end for the other, no lock kept, no half-updated manifest
\* stands in the way (receiver.go:203: retries converge).
RetriesSucceed ==
    \A c \in Clients : []<>(~Running(c) /\ client[c].rc = "ok")
=============================================================================
