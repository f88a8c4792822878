----------------------------- MODULE RsyncProofs -----------------------------
(***************************************************************************)
(* Backups over rsync, for any clients, trees, options, edits and faults:  *)
(* rows are whole and written by those who may, nothing is deleted that a  *)
(* client had, success means that the mirror converged, and a session is   *)
(* never ended by the protocol.  And restores, below: what a pull brings   *)
(* is complete and whole.                                                  *)
(*                                                                         *)
(* The argument for backups ties the two ends of a session together: which *)
(* messages may be under way at each place of processSession (StreamPart,  *)
(* AnswerPart), and what the client knows when it sees the first DONE      *)
(* (ProgressPart).  Sessions are kept apart by the write lock, and by the  *)
(* mtimes, of which a row and an item share one only when they are the     *)
(* same file (StampPart).                                                  *)
(***************************************************************************)
EXTENDS RsyncConnection, FiniteSetTheorems, TLAPS

Blocks  == Contents \cup {<< >>}
Stamps  == Clients \X Nat
Kinds   == {"file", "static", "special"}
Items   == [kind : Kinds, blocks : Blocks, mtime : Stamps]
Entries == [path : Paths, kind : Kinds, size : Nat, mtime : Stamps]
ClientSet == [pc : {"sending", "goodbye", "last", "ended"}, rc : {"none", "ok", "partial", "failed"},
              list : Seq(Entries), ioError : BOOLEAN, delete : BOOLEAN, dry : BOOLEAN, phase : Nat,
              seen : [Paths -> SUBSET Blocks], absent : SUBSET Paths]
ServerSet == [pc : {"list", "lock", "entry", "echo", "data", "delete", "goodbye",
                    "done", "failed", "refused"},
              list : Seq(Entries), ioError : BOOLEAN, i : Nat \ {0}, todo : SUBSET Paths, step : Nat]
Answers   == [type : {"corrupt", "done"}]
                \cup [type : {"item"}, ndx : Nat \ {0}, sums : Blocks \cup {None}]

TypePart ==
    /\ source \in [Clients -> [Paths -> Items \cup {None}]] /\ edits \in [Clients -> Nat]
    /\ mirror \in [Paths -> Rows \cup {None}]
    /\ client \in [Clients -> ClientSet] /\ server \in [Clients -> ServerSet]
    /\ conn \in [Clients -> {"open", "closed", "broken"}]
    /\ toClient \in [Clients -> Seq(Answers)] /\ DOMAIN toServer = Clients
    /\ lock \in Clients \cup {None} /\ faults \in 0 .. MaxFaults

\* A session that works on the list, and one that holds the write lock.
Live(c)    == server[c].pc \in {"list", "lock", "entry", "echo", "data", "delete"}
Holding(c) == server[c].pc \in {"entry", "echo", "data", "delete", "goodbye"}

LockPart ==
    /\ \A c \in Clients : Holding(c) <=> lock = c
    /\ lock # None => holder = lock

\* A row of the mtime of an item of the tree has the item's blocks; a client
\* remembers what its tree has.
StampPart(c) == \A p \in Paths :
    /\ source[c][p] # None =>
         /\ p \in Subtree[c] /\ source[c][p].mtime[1] = c /\ source[c][p].mtime[2] <= edits[c]
         /\ source[c][p].kind # "file" => source[c][p].blocks = << >>
         /\ mirror[p] # None /\ mirror[p].mtime = source[c][p].mtime => mirror[p].blocks = source[c][p].blocks
         /\ Running(c) => source[c][p].blocks \in client[c].seen[p]
    /\ mirror[p] # None /\ mirror[p].mtime[1] = c => mirror[p].mtime[2] <= edits[c]

\* The entry e of a list is below the root; its mtime tells which item it was.
EntryOk(c, e) ==
    /\ e.path \in Subtree[c] /\ e.mtime[1] = c /\ e.mtime[2] <= edits[c]
    /\ e.kind # "file" => << >> \in client[c].seen[e.path]
    /\ source[c][e.path] # None /\ source[c][e.path].mtime = e.mtime => source[c][e.path].kind = e.kind
    /\ mirror[e.path] # None /\ mirror[e.path].mtime = e.mtime =>
         mirror[e.path].blocks \in client[c].seen[e.path]

Listed(c) == {client[c].list[k].path : k \in DOMAIN client[c].list}

\* The list: one entry for a path, and all of the tree if it could be read.
ListPart(c) == Live(c) =>
    /\ \A k \in DOMAIN client[c].list : EntryOk(c, client[c].list[k])
    /\ \A j, k \in DOMAIN client[c].list : client[c].list[j].path = client[c].list[k].path => j = k
    /\ ~Filters /\ ~client[c].ioError => Subtree[c] \ client[c].absent \subseteq Listed(c)

\* Where the session is in it.
PlacePart(c) ==
    /\ Live(c) /\ server[c].pc # "list" =>
         server[c].list = client[c].list /\ server[c].ioError = client[c].ioError
    /\ server[c].pc \in {"list", "lock"} => server[c].i = 1
    /\ server[c].pc \in {"echo", "data"} => server[c].i \in DOMAIN client[c].list
    /\ server[c].pc = "data" => client[c].list[server[c].i].kind = "file" /\ ~client[c].dry
    /\ server[c].pc = "echo" => client[c].list[server[c].i].kind # "file" \/ client[c].dry

\* An answer to the request for the data of entry e, by the sums of old.
FileAnswer(c, m, e, old) ==
    \/ /\ m.type = "data" /\ m.good
       /\ Rebuild(m.tokens, old) \in client[c].seen[e.path]
       /\ source[c][e.path] # None /\ source[c][e.path].mtime = e.mtime =>
            Rebuild(m.tokens, old) = source[c][e.path].blocks
       /\ MatchesGoBack \/ AcceptMatches(m.tokens)
    \/ m.type = "data" /\ ~m.good /\ AcceptMatches(m.tokens) /\ client[c].rc # "ok"
    \/ m.type = "nosend" /\ m.ndx = server[c].i /\ client[c].rc # "ok"

\* What the server may find in its stream.
StreamPart(c) ==
    /\ ~Serving(c) => toServer[c] = << >> /\ conn[c] # "open"
    /\ server[c].pc = "list" =>
         toServer[c] = <<[type |-> "list", list |-> client[c].list, ioError |-> client[c].ioError]>>
    /\ server[c].pc \in {"lock", "entry", "delete"} => toServer[c] = << >>
    /\ server[c].pc = "echo" => toServer[c] = << >> \/ toServer[c] = <<Msg("echo")>>
    /\ server[c].pc = "data" =>
         \/ toServer[c] = << >>
         \/ \E m : toServer[c] = <<m>> /\ FileAnswer(c, m, Entry(c), Basis(c))
    /\ server[c].pc = "goodbye" => toServer[c] \in Seq({Msg("done")})

NoDone(c) == \A k \in DOMAIN toClient[c] : toClient[c][k].type # "done"

\* What the client may find in its own: at most one request, of the entry
\* the server is at, and nothing answered yet.
AnswerPart(c) ==
    /\ server[c].pc \in {"list", "lock"} => toClient[c] = << >>
    /\ Live(c) => /\ NoDone(c)
                  /\ \/ client[c].pc = "sending" /\ client[c].phase = 0
                     \/ client[c].pc = "ended" /\ client[c].rc # "ok"
    /\ \A k \in DOMAIN toClient[c] : toClient[c][k].type = "item" =>
         /\ k = Len(toClient[c])
         /\ Serving(c) => /\ server[c].pc \in {"echo", "data"} /\ toServer[c] = << >>
                          /\ toClient[c][k].ndx = server[c].i
         /\ server[c].pc = "echo" => toClient[c][k].sums = None
         /\ server[c].pc = "data" => toClient[c][k].sums = Basis(c)

\* The row of entry e is what SuccessMeansConverged asks for.
Right(c, e) == e.kind # "special" =>
    /\ mirror[e.path] # None
    /\ mirror[e.path].kind = e.kind /\ mirror[e.path].mtime = e.mtime
    /\ mirror[e.path].blocks \in client[c].seen[e.path]

Counts(c) == client[c].rc = "ok" /\ ~client[c].dry
Below(c)  == {p \in Subtree[c] : mirror[p] # None}
Converged(c) == Counts(c) /\ holder = c =>
    /\ \A k \in DOMAIN client[c].list : Right(c, client[c].list[k])
    /\ client[c].delete /\ ~client[c].ioError => Below(c) \subseteq Listed(c)

\* A session that failed before its first DONE.
Broken(c) == /\ server[c].pc \in {"failed", "refused"} /\ NoDone(c)
             /\ client[c].pc = "sending" /\ client[c].phase = 0

\* Entries behind the session are done, unless the client knows better; a
\* client that is told DONE is told that all of it is.
ProgressPart(c) ==
    /\ Live(c) /\ Holding(c) /\ Counts(c) =>
         \A k \in DOMAIN client[c].list : k < server[c].i => Right(c, client[c].list[k])
    /\ server[c].pc = "delete" =>
         /\ client[c].delete /\ ~client[c].dry /\ ~client[c].ioError
         /\ \A k \in DOMAIN client[c].list : k < server[c].i
         /\ server[c].todo \subseteq Subtree[c] \ Listed(c)
         /\ Below(c) \subseteq Listed(c) \cup server[c].todo
    /\ ~Live(c) => Converged(c) \/ Broken(c)
    /\ server[c].pc = "goodbye" => Converged(c)
    /\ ~Running(c) /\ client[c].rc = "ok" => ~client[c].ioError /\ ~Live(c)
    /\ MatchesGoBack \/ server[c].pc # "refused"

SessionOk(c) ==
    /\ StampPart(c) /\ ListPart(c) /\ PlacePart(c)
    /\ StreamPart(c) /\ AnswerPart(c) /\ ProgressPart(c)

BackupInv == TypePart /\ LockPart /\ \A c \in Clients : SessionOk(c)

-----------------------------------------------------------------------------
(* Sequences, lists and tokens.                                            *)

\* A stream after a message was added.
LEMMA Appended ==
    ASSUME NEW S, NEW s \in Seq(S), NEW m \in S
    PROVE  /\ Append(s, m) \in Seq(S) /\ Len(Append(s, m)) = Len(s) + 1
           /\ \A k \in DOMAIN Append(s, m) :
                \/ k \in DOMAIN s /\ k # Len(s) + 1 /\ Append(s, m)[k] = s[k]
                \/ k = Len(s) + 1 /\ Append(s, m)[k] = m
OBVIOUS

\* A stream after its head was read.
LEMMA Taken ==
    ASSUME NEW S, NEW s \in Seq(S), s # << >>
    PROVE  /\ 1 \in DOMAIN s /\ Head(s) = s[1] /\ Head(s) \in S
           /\ Tail(s) \in Seq(S) /\ Len(Tail(s)) = Len(s) - 1
           /\ \A k \in DOMAIN Tail(s) : k + 1 \in DOMAIN s /\ Tail(s)[k] = s[k + 1]
OBVIOUS

\* A stream of one message.
LEMMA Single ==
    ASSUME NEW m
    PROVE  /\ <<m>> # << >> /\ Head(<<m>>) = m /\ Tail(<<m>>) = << >>
           /\ << >> \o <<m>> = <<m>>
OBVIOUS

\* The order of a file list is any order: it has every entry once.
LEMMA ListOfSet ==
    ASSUME NEW S, IsFiniteSet(S)
    PROVE  /\ SetToSeq(S) \in Seq(S)
           /\ \A j, k \in DOMAIN SetToSeq(S) : SetToSeq(S)[j] = SetToSeq(S)[k] => j = k
           /\ \A x \in S : \E k \in DOMAIN SetToSeq(S) : SetToSeq(S)[k] = x
<1> DEFINE n == Cardinality(S)
           f == SetToSeq(S)
<1>1. n \in Nat /\ ExistsBijection(1 .. n, S)
    BY FS_CardinalityType
<1>2. PICK g : g \in Bijection(1 .. n, S)
    BY <1>1 DEF ExistsBijection
<1>3. \E h \in [1 .. n -> S] : IsInjective(h)
    BY <1>2 DEF Bijection, Injection
<1>4. f \in [1 .. n -> S] /\ IsInjective(f)
    BY <1>3 DEF SetToSeq
<1>5. f \in Injection(1 .. n, S)
    BY <1>4 DEF Injection
<1>6. IsFiniteSet(1 .. n) /\ Cardinality(1 .. n) = n
    BY <1>1, FS_Interval
<1> HIDE DEF f, n
<1>7. f \in Surjection(1 .. n, S)
    BY <1>5, <1>6, FS_Injection DEF n
<1>8. \A x \in S : \E k \in DOMAIN f : f[k] = x
    BY <1>4, <1>7 DEF Surjection
<1>9. f \in Seq(S)
    BY <1>1, <1>4
<1> QED
    BY <1>4, <1>8, <1>9 DEF IsInjective, f

\* Contents are sequences, and old rows too.
LEMMA BlocksAreSequences ==
    ASSUME NEW s \in Blocks
    PROVE  /\ s # None /\ Len(s) \in Nat
           /\ DOMAIN s = 1 .. Len(s) /\ s = [i \in DOMAIN s |-> s[i]]
<1>1. s # None
    BY NoneAssumption DEF Blocks
<1>2. PICK S : s \in Seq(S)
    <2>1. s \in Contents => s \in Seq({s[i] : i \in DOMAIN s})
        BY SessionAssumption
    <2>2. << >> \in Seq({})
        OBVIOUS
    <2> QED
        BY <2>1, <2>2 DEF Blocks
<1> QED
    BY <1>1, <1>2

\* Whatever a client matches, the receiver rebuilds what it sent; it refuses
\* only matches that go back.
LEMMA TokensRebuild ==
    ASSUME NEW new \in Blocks, NEW old \in Blocks, NEW t \in TokenStreams(new, old)
    PROVE  Rebuild(t, old) = new /\ (MatchesGoBack \/ AcceptMatches(t))
<1>1. /\ t \in [DOMAIN new -> {Literal(new[i]) : i \in DOMAIN new} \cup {Match(b) : b \in DOMAIN old}]
      /\ \A i \in DOMAIN t : t[i].match = 0 => t[i].block = new[i]
      /\ \A i \in DOMAIN t : t[i].match # 0 => old[t[i].match] = new[i]
      /\ MatchesGoBack \/ \A i, j \in DOMAIN t :
              i < j /\ t[i].match # 0 /\ t[j].match # 0 => t[i].match < t[j].match
    BY DEF TokenStreams
<1>2. DOMAIN t = DOMAIN new /\ new = [i \in DOMAIN new |-> new[i]]
    BY <1>1, BlocksAreSequences
<1>3. Rebuild(t, old) = new
    BY <1>1, <1>2 DEF Rebuild
<1>4. \A i \in DOMAIN t : t[i].match = 0 \/ t[i].match \in DOMAIN old
    BY <1>1 DEF Literal, Match
<1>5. \A i \in DOMAIN t : t[i].match \in Nat
    <2>1. DOMAIN old \subseteq Nat
        BY BlocksAreSequences
    <2> QED
        BY <1>4, <2>1
<1>6. ASSUME ~MatchesGoBack PROVE AcceptMatches(t)
    BY <1>1, <1>5, <1>6 DEF AcceptMatches
<1> QED
    BY <1>3, <1>6

\* A file that could not be read is sent without matches.
LEMMA ZerosAccepted == ASSUME NEW s, NEW t, t = [i \in DOMAIN s |-> Literal(Zero)] PROVE AcceptMatches(t)
BY DEF AcceptMatches, Literal

-----------------------------------------------------------------------------
(* What a step of one client's session leaves alone.                       *)

\* All that belongs to client d and its session.
Same(d) ==
    /\ source'[d] = source[d] /\ edits'[d] = edits[d]
    /\ client'[d] = client[d] /\ server'[d] = server[d] /\ conn'[d] = conn[d]
    /\ toServer'[d] = toServer[d] /\ toClient'[d] = toClient[d]

OthersSame(c) == \A d \in Clients \ {c} : Same(d)

\* Rows change in the session of c only while it holds the lock, and carry
\* its mtimes.
RowsBy(c) ==
    /\ mirror' # mirror => lock = c
    /\ \A p \in Paths : mirror'[p] = mirror[p] \/ mirror'[p] = None \/ mirror'[p].mtime[1] = c

\* Nothing that SessionOk speaks of changed; the lock was not passed to d.
LEMMA Untouched ==
    ASSUME NEW d \in Clients, SessionOk(d), Same(d), mirror' = mirror, holder' = d => holder = d
    PROVE  SessionOk(d)'
<1>1. /\ source'[d] = source[d] /\ edits'[d] = edits[d]
      /\ client'[d] = client[d] /\ server'[d] = server[d] /\ conn'[d] = conn[d]
      /\ toServer'[d] = toServer[d] /\ toClient'[d] = toClient[d]
    BY DEF Same
<1>2. /\ Live(d)' <=> Live(d)
      /\ Serving(d)' <=> Serving(d)
      /\ Holding(d)' <=> Holding(d)
      /\ Running(d)' <=> Running(d)
      /\ Counts(d)' <=> Counts(d)
      /\ NoDone(d)' <=> NoDone(d)
    BY <1>1 DEF Live, Serving, Holding, Running, Counts, NoDone
<1>3. Listed(d)' = Listed(d) /\ Below(d)' = Below(d)
    BY <1>1 DEF Listed, Below
<1>4. Entry(d)' = Entry(d) /\ Basis(d)' = Basis(d)
    <2>1. Entry(d)' = Entry(d)
        BY <1>1 DEF Entry
    <2>2. OldRow(d)' = OldRow(d)
        BY <2>1 DEF OldRow
    <2> QED
        BY <2>1, <2>2 DEF Basis, UseDelta
<1>5. \A e : EntryOk(d, e) => EntryOk(d, e)'
    BY <1>1 DEF EntryOk
<1>6. \A e : Right(d, e) => Right(d, e)'
    BY <1>1 DEF Right
<1>7. \A m, e, old : FileAnswer(d, m, e, old) => FileAnswer(d, m, e, old)'
    BY <1>1 DEF FileAnswer
<1>8. StampPart(d)'
    BY <1>1, <1>2 DEF SessionOk, StampPart
<1>9. ListPart(d)'
    BY <1>1, <1>2, <1>3, <1>5 DEF SessionOk, ListPart
<1>10. PlacePart(d)'
    BY <1>1, <1>2 DEF SessionOk, PlacePart
<1>11. StreamPart(d)'
    BY <1>1, <1>2, <1>4, <1>7 DEF SessionOk, StreamPart
<1>12. AnswerPart(d)'
    BY <1>1, <1>2, <1>4 DEF SessionOk, AnswerPart
<1>13. ProgressPart(d)'
    <2>1. Converged(d) => Converged(d)'
        BY <1>1, <1>2, <1>3, <1>6 DEF Converged
    <2>2. Broken(d) => Broken(d)'
        BY <1>1, <1>2 DEF Broken
    <2>3. ProgressPart(d)
        BY DEF SessionOk
    <2> QED
        BY <1>1, <1>2, <1>3, <1>6, <2>1, <2>2, <2>3 DEF ProgressPart
<1> QED
    BY <1>8, <1>9, <1>10, <1>11, <1>12, <1>13 DEF SessionOk

\* A step in the session of c leaves what is known of another session.
LEMMA Bystander ==
    ASSUME BackupInv, NEW c \in Clients, NEW d \in Clients, d # c, Same(d),
           RowsBy(c), holder' \in {holder, c}
    PROVE  SessionOk(d)'
<1>1. SessionOk(d) /\ LockPart
    BY DEF BackupInv
<1>2. CASE mirror' = mirror
    BY <1>1, <1>2, Untouched
<1>3. CASE mirror' # mirror
    <2>1. lock = c /\ ~Holding(d) /\ holder' # d
        BY <1>1, <1>3, SessionAssumption DEF LockPart, RowsBy
    <2>2. /\ server[d].pc \notin {"entry", "echo", "data", "delete", "goodbye"}
          /\ server'[d] = server[d] /\ client'[d] = client[d]
          /\ toServer'[d] = toServer[d] /\ toClient'[d] = toClient[d] /\ conn'[d] = conn[d]
          /\ source'[d] = source[d] /\ edits'[d] = edits[d]
        BY <2>1 DEF Holding, Same
    <2>3. \A p \in Paths : mirror'[p] # None /\ mirror'[p].mtime[1] = d => mirror'[p] = mirror[p]
        BY DEF RowsBy
    <2>4. StampPart(d)'
        BY <1>1, <2>2, <2>3 DEF SessionOk, StampPart, Running
    <2>5. ListPart(d)'
        <3>1. ASSUME Live(d), NEW k \in DOMAIN client[d].list PROVE EntryOk(d, client[d].list[k])'
            <4> DEFINE e == client[d].list[k]
            <4>1. EntryOk(d, e)
                BY <1>1, <3>1 DEF SessionOk, ListPart
            <4>2. e.path \in Paths
                BY <4>1, SessionAssumption DEF EntryOk
            <4>3. mirror'[e.path] # None /\ mirror'[e.path].mtime = e.mtime => mirror'[e.path] = mirror[e.path]
                BY <2>3, <4>1, <4>2 DEF EntryOk
            <4> QED
                BY <2>2, <4>1, <4>3 DEF EntryOk
        <3> QED
            BY <1>1, <2>2, <3>1 DEF SessionOk, ListPart, Listed, Live
    <2>6. PlacePart(d)'
        BY <1>1, <2>2 DEF SessionOk, PlacePart, Live
    <2>7. StreamPart(d)'
        BY <1>1, <2>2 DEF SessionOk, StreamPart, Serving
    <2>8. AnswerPart(d)'
        BY <1>1, <2>2 DEF SessionOk, AnswerPart, Live, NoDone, Serving
    <2>9. ProgressPart(d)'
        BY <1>1, <2>1, <2>2 DEF SessionOk, ProgressPart, Live, Holding, Converged, Broken, NoDone, Running
    <2> QED
        BY <2>4, <2>5, <2>6, <2>7, <2>8, <2>9 DEF SessionOk
<1> QED
    BY <1>2, <1>3

\* So a step of c has to be looked at for c only.
LEMMA StepOf ==
    ASSUME BackupInv, NEW c \in Clients, TypePart', LockPart', SessionOk(c)',
           OthersSame(c), RowsBy(c), holder' \in {holder, c}
    PROVE  BackupInv'
<1>1. ASSUME NEW d \in Clients PROVE SessionOk(d)'
    BY Bystander DEF OthersSame
<1> QED
    BY <1>1 DEF BackupInv

\* The lock, when only the session of c moves: it stays, is taken, or is left.
LEMMA LockMoves ==
    ASSUME BackupInv, NEW c \in Clients, \A d \in Clients \ {c} : server'[d] = server[d],
           \/ lock' = lock /\ holder' = holder /\ (Holding(c)' <=> Holding(c))
           \/ lock = None /\ lock' = c /\ holder' = c /\ Holding(c)'
           \/ lock' = (IF lock = c THEN None ELSE lock) /\ holder' = holder /\ ~Holding(c)'
    PROVE  LockPart'
<1>1. LockPart /\ None \notin Clients
    BY SessionAssumption DEF BackupInv
<1>2. \A d \in Clients \ {c} : Holding(d)' <=> Holding(d)
    BY DEF Holding
<1>3. ASSUME NEW d \in Clients PROVE Holding(d)' <=> lock' = d
    BY <1>1, <1>2 DEF LockPart
<1>4. lock' # None => holder' = lock'
    BY <1>1 DEF LockPart
<1> QED
    BY <1>3, <1>4 DEF LockPart

-----------------------------------------------------------------------------
(* The steps of a client.  It has no part in the server's state.           *)

\* What a client knows of its list does not change while it runs.
KeepsList(c) ==
    /\ client'[c].list = client[c].list /\ client'[c].ioError = client[c].ioError
    /\ client'[c].delete = client[c].delete /\ client'[c].dry = client[c].dry
    /\ client'[c].seen = client[c].seen /\ client'[c].absent = client[c].absent

LEMMA ClientKeeps ==
    ASSUME BackupInv, NEW c \in Clients, ClientOnly, KeepsList(c),
           Running(c)' => Running(c), client'[c].rc = "ok" => client[c].rc = "ok",
           Broken(c) => Broken(c)' \/ client'[c].rc # "ok",
           ~Running(c)' /\ client'[c].rc = "ok" => ~client[c].ioError /\ ~Live(c)
    PROVE  StampPart(c)' /\ ListPart(c)' /\ PlacePart(c)' /\ ProgressPart(c)'
<1>1. SessionOk(c)
    BY DEF BackupInv
<1>2. StampPart(c)'
    BY <1>1 DEF SessionOk, StampPart, ClientOnly, KeepsList
<1>3. ListPart(c)' /\ PlacePart(c)'
    <2>1. /\ source' = source /\ edits' = edits /\ mirror' = mirror /\ server' = server
          /\ client'[c].list = client[c].list /\ client'[c].ioError = client[c].ioError
          /\ client'[c].dry = client[c].dry
          /\ client'[c].seen = client[c].seen /\ client'[c].absent = client[c].absent
        BY DEF ClientOnly, KeepsList
    <2>2. (Live(c)' <=> Live(c)) /\ Listed(c)' = Listed(c)
        BY <2>1 DEF Live, Listed
    <2>3. \A e : EntryOk(c, e) => EntryOk(c, e)'
        BY <2>1 DEF EntryOk
    <2>4. ListPart(c)'
        BY <1>1, <2>1, <2>2, <2>3 DEF SessionOk, ListPart
    <2>5. PlacePart(c)'
        BY <1>1, <2>1, <2>2 DEF SessionOk, PlacePart
    <2> QED
        BY <2>4, <2>5
<1>4. Converged(c) => Converged(c)'
    BY DEF Converged, Counts, Right, Below, Listed, ClientOnly, KeepsList
<1>5. client'[c].rc # "ok" => Converged(c)'
    BY DEF Converged, Counts
<1>6. ProgressPart(c)'
    <2>1. /\ mirror' = mirror /\ server' = server
          /\ client'[c].list = client[c].list /\ client'[c].ioError = client[c].ioError
          /\ client'[c].delete = client[c].delete /\ client'[c].dry = client[c].dry
          /\ client'[c].seen = client[c].seen
        BY DEF ClientOnly, KeepsList
    <2>2. /\ Live(c)' <=> Live(c)
          /\ Holding(c)' <=> Holding(c)
          /\ Listed(c)' = Listed(c) /\ Below(c)' = Below(c)
        BY <2>1 DEF Live, Holding, Listed, Below
    <2>3. \A e : Right(c, e) => Right(c, e)'
        BY <2>1 DEF Right
    <2>4. Counts(c)' => Counts(c)
        BY <2>1 DEF Counts
    <2>5. ProgressPart(c)
        BY <1>1 DEF SessionOk
    <2>6. ~Live(c) => Converged(c)' \/ Broken(c)'
        BY <1>4, <1>5, <2>5 DEF ProgressPart
    <2> QED
        BY <1>4, <2>1, <2>2, <2>3, <2>4, <2>5, <2>6 DEF ProgressPart
<1> QED
    BY <1>2, <1>3, <1>6

\* The types after a step of client c, whose new state is q.
LEMMA ClientTypes ==
    ASSUME BackupInv, NEW c \in Clients, ClientOnly, NEW q \in ClientSet,
           client' = [client EXCEPT ![c] = q], conn' \in [Clients -> {"open", "closed", "broken"}],
           toClient' \in [Clients -> Seq(Answers)], DOMAIN toServer' = Clients, faults' \in 0 .. MaxFaults
    PROVE  TypePart' /\ client'[c] = q /\ LockPart' /\ RowsBy(c) /\ holder' \in {holder, c}
<1>1. client' \in [Clients -> ClientSet] /\ client'[c] = q
    BY DEF BackupInv, TypePart
<1>2. LockPart'
    BY DEF BackupInv, LockPart, Holding, ClientOnly
<1> QED
    BY <1>1, <1>2 DEF BackupInv, TypePart, RowsBy, ClientOnly

\* What a message from the server leaves of the client's stream.
LEMMA ClientTakes ==
    ASSUME BackupInv, NEW c \in Clients, ClientReads(c), toClient[c] # << >>
    PROVE  /\ toClient' \in [Clients -> Seq(Answers)] /\ \A d \in Clients \ {c} : toClient'[d] = toClient[d]
           /\ Head(toClient[c]) \in Answers
           /\ NoDone(c) => NoDone(c)' /\ Head(toClient[c]).type # "done"
           /\ Head(toClient[c]).type = "item" => toClient'[c] = << >>
           /\ \A k \in DOMAIN toClient'[c] : toClient'[c][k].type = "item" =>
                \E j \in DOMAIN toClient[c] : toClient[c][j] = toClient'[c][k] /\ k = Len(toClient'[c])
<1>1. toClient[c] \in Seq(Answers) /\ toClient' = [toClient EXCEPT ![c] = Tail(@)]
    BY DEF BackupInv, TypePart, ClientReads
<1>2. toClient'[c] = Tail(toClient[c]) /\ \A d \in Clients \ {c} : toClient'[d] = toClient[d]
    BY <1>1 DEF BackupInv, TypePart
<1>3. /\ 1 \in DOMAIN toClient[c] /\ Head(toClient[c]) = toClient[c][1] /\ Head(toClient[c]) \in Answers
      /\ toClient'[c] \in Seq(Answers) /\ Len(toClient'[c]) = Len(toClient[c]) - 1
      /\ \A k \in DOMAIN toClient'[c] : k + 1 \in DOMAIN toClient[c] /\ toClient'[c][k] = toClient[c][k + 1]
    <2>1. PICK a \in Seq(Answers) : a = toClient[c]
        BY <1>1
    <2>2. a # << >> /\ toClient'[c] = Tail(a)
        BY <1>2, <2>1
    <2>3. /\ 1 \in DOMAIN a /\ Head(a) = a[1] /\ Head(a) \in Answers
          /\ Tail(a) \in Seq(Answers) /\ Len(Tail(a)) = Len(a) - 1
          /\ \A k \in DOMAIN Tail(a) : k + 1 \in DOMAIN a /\ Tail(a)[k] = a[k + 1]
        BY <2>2, Taken
    <2> QED
        BY <2>1, <2>2, <2>3
<1>4. toClient' \in [Clients -> Seq(Answers)]
    BY <1>1, <1>3 DEF BackupInv, TypePart
<1>5. NoDone(c) => NoDone(c)' /\ Head(toClient[c]).type # "done"
    BY <1>3 DEF NoDone
<1>6. \A k \in DOMAIN toClient[c] : toClient[c][k].type = "item" => k = Len(toClient[c])
    BY DEF BackupInv, SessionOk, AnswerPart
<1>7. Head(toClient[c]).type = "item" => toClient'[c] = << >>
    BY <1>3, <1>6
<1>8. ASSUME NEW k \in DOMAIN toClient'[c], toClient'[c][k].type = "item"
      PROVE  toClient[c][k + 1] = toClient'[c][k] /\ k + 1 \in DOMAIN toClient[c] /\ k = Len(toClient'[c])
    BY <1>1, <1>3, <1>6, <1>8
<1> QED
    BY <1>2, <1>3, <1>4, <1>5, <1>7, <1>8

\* What a client writes arrives while the connection is open.
LEMMA ClientWrites ==
    ASSUME BackupInv, NEW c \in Clients, NEW ms, ClientSends(c, ms)
    PROVE  /\ DOMAIN toServer' = Clients /\ \A d \in Clients \ {c} : toServer'[d] = toServer[d]
           /\ toServer'[c] = IF conn[c] = "open" THEN toServer[c] \o ms ELSE toServer[c]
BY DEF BackupInv, TypePart, ClientSends

\* The server's stream, when the client wrote nothing to it.
LEMMA StreamKept ==
    ASSUME BackupInv, NEW c \in Clients, ClientOnly, KeepsList(c) \/ ~Live(c),
           client'[c].rc = "ok" => client[c].rc = "ok",
           toServer'[c] = toServer[c], conn'[c] = "open" => conn[c] = "open"
    PROVE  StreamPart(c)'
BY DEF BackupInv, SessionOk, StreamPart, Serving, FileAnswer, Entry, Basis, UseDelta, OldRow, Live,
       ClientOnly, KeepsList

\* Its own stream, after a message that was no request.
LEMMA AnswersKept ==
    ASSUME BackupInv, NEW c \in Clients, ClientOnly, ClientReads(c), toClient[c] # << >>,
           toServer'[c] = toServer[c] \/ ~Live(c),
           Live(c) => \/ client'[c].pc = "sending" /\ client'[c].phase = 0
                      \/ client'[c].pc = "ended" /\ client'[c].rc # "ok"
    PROVE  AnswerPart(c)'
<1>1. AnswerPart(c)
    BY DEF BackupInv, SessionOk
<1>2. server' = server /\ mirror' = mirror
    BY DEF ClientOnly
<1>3. server[c].pc \notin {"list", "lock"}
    BY <1>1 DEF AnswerPart
<1>4. Live(c) => NoDone(c)'
    BY <1>1, ClientTakes DEF AnswerPart
<1>5. Basis(c)' = Basis(c)
    BY <1>2 DEF Basis, UseDelta, OldRow, Entry
<1>6. ASSUME NEW k \in DOMAIN toClient'[c], toClient'[c][k].type = "item"
      PROVE  /\ k = Len(toClient'[c])
             /\ Serving(c) => /\ server[c].pc \in {"echo", "data"} /\ toServer'[c] = << >>
                              /\ toClient'[c][k].ndx = server[c].i
             /\ server[c].pc = "echo" => toClient'[c][k].sums = None
             /\ server[c].pc = "data" => toClient'[c][k].sums = Basis(c)
    <2>1. PICK j \in DOMAIN toClient[c] : toClient[c][j] = toClient'[c][k] /\ k = Len(toClient'[c])
        BY <1>6, ClientTakes
    <2> QED
        BY <1>1, <1>6, <2>1 DEF AnswerPart, Live
<1> QED
    BY <1>1, <1>2, <1>3, <1>4, <1>5, <1>6 DEF AnswerPart, Live, Serving

\* The client forgets a session that is over.
LEMMA ClientForgets ==
    ASSUME BackupInv, NEW c \in Clients, ClientOnly, ~Live(c), NEW r \in {"partial", "failed"},
           client'[c] = [NoClient EXCEPT !.rc = r]
    PROVE  /\ StampPart(c)' /\ ListPart(c)' /\ PlacePart(c)' /\ ProgressPart(c)'
           /\ [NoClient EXCEPT !.rc = r] \in ClientSet /\ client'[c].rc = r
<1>1. SessionOk(c) /\ server' = server /\ mirror' = mirror /\ source' = source /\ edits' = edits
    BY DEF BackupInv, ClientOnly
<1>2. client'[c].pc = "ended" /\ client'[c].rc = r
    BY DEF NoClient
<1>3. StampPart(c)'
    BY <1>1, <1>2 DEF SessionOk, StampPart, Running
<1>4. ListPart(c)' /\ PlacePart(c)'
    BY <1>1 DEF SessionOk, ListPart, PlacePart, Live
<1>5. Converged(c)'
    BY <1>2 DEF Converged, Counts
<1>6. ProgressPart(c)'
    BY <1>1, <1>2, <1>5 DEF SessionOk, ProgressPart, Live
<1>7. [NoClient EXCEPT !.rc = r] \in ClientSet
    <2>1. << >> \in Seq(Entries) /\ [p \in Paths |-> {}] \in [Paths -> SUBSET Blocks]
        OBVIOUS
    <2> QED
        BY <2>1 DEF NoClient, ClientSet
<1> QED
    BY <1>2, <1>3, <1>4, <1>6, <1>7

\* The basis of a file that was asked for is the blocks of a row, or nothing.
LEMMA BasisBlocks ==
    ASSUME BackupInv, NEW c \in Clients, server[c].pc = "data" \/ (AtEntry(c) /\ Live(c))
    PROVE  Basis(c) \in Blocks /\ Basis(c) # None
<1>1. server[c].i \in DOMAIN client[c].list /\ Entry(c) = client[c].list[server[c].i]
    <2>1. PlacePart(c) /\ server[c].i \in Nat \ {0} /\ client[c].list \in Seq(Entries)
        BY DEF BackupInv, TypePart, SessionOk, ClientSet, ServerSet
    <2>2. server[c].list = client[c].list
        BY <2>1 DEF PlacePart, Live, AtEntry
    <2> QED
        BY <2>1, <2>2 DEF PlacePart, AtEntry, Entry
<1>2. Entry(c) \in Entries
    BY <1>1 DEF BackupInv, TypePart, ClientSet
<1>3. OldRow(c) = None \/ OldRow(c) \in Rows
    BY <1>2 DEF BackupInv, TypePart, OldRow, Entries
<1>4. Basis(c) \in Blocks
    BY <1>3 DEF Basis, UseDelta, Rows, Blocks
<1> QED
    BY <1>4, BlocksAreSequences

\* driveEntry gets its echo.
LEMMA EchoStep == ASSUME BackupInv, NEW c \in Clients, ClientEchoes(c) PROVE BackupInv'
<1>1. /\ client[c].pc = "sending" /\ toClient[c] # << >> /\ Head(toClient[c]).type = "item"
      /\ Head(toClient[c]).sums = None
      /\ ClientReads(c) /\ ClientSends(c, <<Msg("echo")>>)
      /\ ClientOnly /\ UNCHANGED <<client, conn, faults>>
    BY DEF ClientEchoes, ClientGets
<1>2. SessionOk(c) /\ TypePart
    BY DEF BackupInv
<1>3. toClient'[c] = << >> /\ toClient' \in [Clients -> Seq(Answers)]
    BY <1>1, ClientTakes
<1>4. /\ DOMAIN toServer' = Clients
      /\ toServer'[c] = IF conn[c] = "open" THEN toServer[c] \o <<Msg("echo")>> ELSE toServer[c]
    BY <1>1, ClientWrites
<1>5. client' = [client EXCEPT ![c] = client[c]] /\ client[c] \in ClientSet
    BY <1>1, <1>2 DEF TypePart
<1>6. TypePart' /\ LockPart' /\ RowsBy(c) /\ holder' \in {holder, c}
    BY <1>1, <1>2, <1>3, <1>4, <1>5, ClientTypes DEF TypePart
<1>7. KeepsList(c) /\ client'[c] = client[c]
    BY <1>1 DEF KeepsList
<1>8. 1 \in DOMAIN toClient[c] /\ toClient[c][1] = Head(toClient[c])
    BY <1>1, <1>2, Taken DEF TypePart
<1>9. Serving(c) => server[c].pc = "echo" /\ toServer[c] = << >>
    <2>1. Serving(c) => server[c].pc \in {"echo", "data"} /\ toServer[c] = << >>
        BY <1>1, <1>2, <1>8 DEF SessionOk, AnswerPart
    <2>2. server[c].pc = "data" => Basis(c) = None
        BY <1>1, <1>2, <1>8 DEF SessionOk, AnswerPart
    <2> QED
        BY <2>1, <2>2, BasisBlocks
<1>10. Broken(c) => Broken(c)'
    BY <1>1, <1>3 DEF Broken, NoDone, ClientOnly
<1>11. StampPart(c)' /\ ListPart(c)' /\ PlacePart(c)' /\ ProgressPart(c)'
    BY <1>1, <1>2, <1>7, <1>10, ClientKeeps DEF Running, SessionOk, ProgressPart
<1>12. AnswerPart(c)'
    BY <1>1, <1>2, <1>3, <1>9 DEF SessionOk, AnswerPart, NoDone, Live, Serving, ClientOnly
<1>13. StreamPart(c)'
    <2>1. CASE toServer'[c] = toServer[c]
        BY <1>1, <1>7, <2>1, StreamKept
    <2>2. CASE conn[c] = "open" /\ toServer'[c] = toServer[c] \o <<Msg("echo")>>
        <3>1. Serving(c)
            BY <1>2, <2>2 DEF SessionOk, StreamPart
        <3>2. toServer'[c] = <<Msg("echo")>> /\ server'[c].pc = "echo"
            BY <1>1, <1>9, <2>2, <3>1, Single DEF ClientOnly
        <3> QED
            BY <3>2 DEF StreamPart, Serving
    <2> QED
        BY <1>4, <2>1, <2>2
<1>14. OthersSame(c)
    BY <1>1, ClientTakes, ClientWrites DEF OthersSame, Same, ClientOnly
<1> QED
    BY <1>6, <1>11, <1>12, <1>13, <1>14, StepOf DEF SessionOk

\* A client notes that a file arrived damaged.
LEMMA NoteStep == ASSUME BackupInv, NEW c \in Clients, ClientNotesError(c) PROVE BackupInv'
<1>1. /\ Running(c) /\ toClient[c] # << >> /\ ClientReads(c) /\ Failing(c)
      /\ ClientOnly /\ UNCHANGED <<conn, toServer, faults>>
    BY DEF ClientNotesError, ClientGets
<1>2. SessionOk(c) /\ TypePart /\ client[c] \in ClientSet
    BY DEF BackupInv, TypePart
<1>3. PICK q \in ClientSet : q = [client[c] EXCEPT !.rc = "partial"]
    BY <1>2 DEF ClientSet
<1>4. client' = [client EXCEPT ![c] = q]
    BY <1>1, <1>3 DEF Failing
<1>5. /\ q.rc = "partial" /\ q.pc = client[c].pc /\ q.phase = client[c].phase
      /\ q.list = client[c].list /\ q.ioError = client[c].ioError /\ q.delete = client[c].delete
      /\ q.dry = client[c].dry /\ q.seen = client[c].seen /\ q.absent = client[c].absent
    BY <1>2, <1>3 DEF ClientSet
<1>6. toClient' \in [Clients -> Seq(Answers)]
    BY <1>1, ClientTakes
<1>7. TypePart' /\ client'[c] = q /\ LockPart' /\ RowsBy(c) /\ holder' \in {holder, c}
    BY <1>1, <1>2, <1>4, <1>6, ClientTypes DEF TypePart
<1>8. KeepsList(c)
    BY <1>5, <1>7 DEF KeepsList
<1>9. StampPart(c)' /\ ListPart(c)' /\ PlacePart(c)' /\ ProgressPart(c)'
    BY <1>1, <1>5, <1>7, <1>8, ClientKeeps DEF Running
<1>10. AnswerPart(c)'
    BY <1>1, <1>2, <1>5, <1>7, AnswersKept DEF SessionOk, AnswerPart
<1>11. StreamPart(c)'
    BY <1>1, <1>5, <1>7, <1>8, StreamKept
<1>12. OthersSame(c)
    BY <1>1, <1>2, <1>4, ClientTakes DEF OthersSame, Same, ClientOnly, TypePart
<1> QED
    BY <1>7, <1>9, <1>10, <1>11, <1>12, StepOf DEF SessionOk

\* A DONE is written when the server is past its list, or to nobody.
LEMMA DoneWritten ==
    ASSUME BackupInv, NEW c \in Clients, ClientOnly, UNCHANGED conn, ~Live(c),
           ClientSends(c, <<Msg("done")>>)
    PROVE  StreamPart(c)'
<1>1. StreamPart(c) /\ server' = server
    BY DEF BackupInv, SessionOk, ClientOnly
<1>2. toServer'[c] = IF conn[c] = "open" THEN toServer[c] \o <<Msg("done")>> ELSE toServer[c]
    BY ClientWrites
<1>3. Serving(c) => server[c].pc = "goodbye"
    BY DEF BackupInv, TypePart, ServerSet, Serving, Live
<1>4. conn[c] = "open" => Serving(c)
    BY <1>1 DEF StreamPart
<1>5. toServer[c] \in Seq({Msg("done")}) => toServer[c] \o <<Msg("done")>> \in Seq({Msg("done")})
    OBVIOUS
<1> QED
    BY <1>1, <1>2, <1>3, <1>4, <1>5 DEF StreamPart, Serving, Live

\* send_files ends a phase.
LEMMA PhaseStep == ASSUME BackupInv, NEW c \in Clients, ClientDone(c) PROVE BackupInv'
<1>1. /\ client[c].pc = "sending" /\ toClient[c] # << >> /\ Head(toClient[c]).type = "done"
      /\ ClientReads(c) /\ ClientSends(c, <<Msg("done")>>)
      /\ client' = [client EXCEPT ![c].phase = @ + 1,
                                  ![c].pc = IF client[c].phase + 1 > 2 THEN "goodbye" ELSE @]
      /\ ClientOnly /\ UNCHANGED <<conn, faults>>
    BY DEF ClientDone, ClientGets
<1>2. SessionOk(c) /\ TypePart /\ client[c] \in ClientSet
    BY DEF BackupInv, TypePart
<1>3. PICK v \in {"sending", "goodbye"} : v = IF client[c].phase + 1 > 2 THEN "goodbye" ELSE client[c].pc
    BY <1>1
<1>4. PICK n \in Nat : n = client[c].phase + 1
    BY <1>2 DEF ClientSet
<1>5. PICK q \in ClientSet : q = [client[c] EXCEPT !.phase = n, !.pc = v]
    BY <1>2 DEF ClientSet
<1>6. client' = [client EXCEPT ![c] = q]
    BY <1>1, <1>2, <1>3, <1>4, <1>5 DEF TypePart
<1>7. /\ q.rc = client[c].rc /\ q.pc = v
      /\ q.list = client[c].list /\ q.ioError = client[c].ioError /\ q.delete = client[c].delete
      /\ q.dry = client[c].dry /\ q.seen = client[c].seen /\ q.absent = client[c].absent
    BY <1>2, <1>5 DEF ClientSet
<1>8. toClient' \in [Clients -> Seq(Answers)] /\ ~NoDone(c)
    BY <1>1, ClientTakes
<1>9. ~Live(c) /\ ~Broken(c)
    BY <1>2, <1>8 DEF SessionOk, AnswerPart, Broken
<1>10. TypePart' /\ client'[c] = q /\ LockPart' /\ RowsBy(c) /\ holder' \in {holder, c}
    <2>1. DOMAIN toServer' = Clients
        BY <1>1, ClientWrites
    <2>2. conn' \in [Clients -> {"open", "closed", "broken"}] /\ faults' \in 0 .. MaxFaults
        BY <1>1, <1>2 DEF TypePart
    <2> QED
        BY <1>1, <1>6, <1>8, <2>1, <2>2, ClientTypes
<1>11. KeepsList(c)
    BY <1>7, <1>10 DEF KeepsList
<1>12. StampPart(c)' /\ ListPart(c)' /\ PlacePart(c)' /\ ProgressPart(c)'
    BY <1>1, <1>3, <1>7, <1>9, <1>10, <1>11, ClientKeeps DEF Running
<1>13. AnswerPart(c)'
    BY <1>1, <1>9, AnswersKept
<1>14. StreamPart(c)'
    BY <1>1, <1>9, DoneWritten
<1>15. OthersSame(c)
    BY <1>1, <1>2, <1>6, ClientTakes, ClientWrites DEF OthersSame, Same, ClientOnly, TypePart
<1> QED
    BY <1>10, <1>12, <1>13, <1>14, <1>15, StepOf DEF SessionOk

\* The client says its own goodbye, or ends.
LEMMA GoodbyeStep == ASSUME BackupInv, NEW c \in Clients, ClientGoodbye(c) PROVE BackupInv'
<1>1. /\ client[c].pc \in {"goodbye", "last"} /\ toClient[c] # << >>
      /\ ClientReads(c) /\ ClientOnly /\ UNCHANGED <<conn, faults>>
    BY DEF ClientGoodbye, ClientGets
<1>2. SessionOk(c) /\ TypePart /\ client[c] \in ClientSet
    BY DEF BackupInv, TypePart
<1>3. ~Live(c) /\ ~Broken(c)
    BY <1>1, <1>2 DEF SessionOk, AnswerPart, Broken
<1>4. toClient' \in [Clients -> Seq(Answers)]
    BY <1>1, ClientTakes
<1>5. conn' \in [Clients -> {"open", "closed", "broken"}] /\ faults' \in 0 .. MaxFaults
    BY <1>1, <1>2 DEF TypePart
<1>6. AnswerPart(c)'
    BY <1>1, <1>3, AnswersKept
<1>7. CASE client[c].pc = "goodbye"
    <2>1. client' = [client EXCEPT ![c].pc = "last"] /\ ClientSends(c, <<Msg("done")>>)
        BY <1>7 DEF ClientGoodbye
    <2>2. PICK q \in ClientSet : q = [client[c] EXCEPT !.pc = "last"]
        BY <1>2 DEF ClientSet
    <2>3. client' = [client EXCEPT ![c] = q]
        BY <2>1, <2>2
    <2>4. /\ q.rc = client[c].rc /\ q.pc = "last"
          /\ q.list = client[c].list /\ q.ioError = client[c].ioError /\ q.delete = client[c].delete
          /\ q.dry = client[c].dry /\ q.seen = client[c].seen /\ q.absent = client[c].absent
        BY <1>2, <2>2 DEF ClientSet
    <2>5. DOMAIN toServer' = Clients
        BY <2>1, ClientWrites
    <2>6. TypePart' /\ client'[c] = q /\ LockPart' /\ RowsBy(c) /\ holder' \in {holder, c}
        BY <1>1, <1>4, <1>5, <2>3, <2>5, ClientTypes
    <2>7. KeepsList(c)
        BY <2>4, <2>6 DEF KeepsList
    <2>8. StampPart(c)' /\ ListPart(c)' /\ PlacePart(c)' /\ ProgressPart(c)'
        BY <1>1, <1>3, <1>7, <2>4, <2>6, <2>7, ClientKeeps DEF Running
    <2>9. StreamPart(c)'
        BY <1>1, <1>3, <2>1, DoneWritten
    <2>10. OthersSame(c)
        BY <1>1, <1>2, <2>1, <2>3, ClientTakes, ClientWrites DEF OthersSame, Same, ClientOnly, TypePart
    <2> QED
        BY <1>6, <2>6, <2>8, <2>9, <2>10, StepOf DEF SessionOk
<1>8. CASE client[c].pc = "last"
    <2>1. /\ client' = [client EXCEPT ![c] =
                   IF client[c].rc = "ok" /\ ~client[c].ioError THEN [@ EXCEPT !.pc = "ended"]
                   ELSE [NoClient EXCEPT !.rc = "partial"]]
          /\ UNCHANGED toServer
        BY <1>8 DEF ClientGoodbye
    <2>2. DOMAIN toServer' = Clients
        BY <1>2, <2>1 DEF TypePart
    <2>3. OthersSame(c)
        BY <1>1, <1>2, <2>1, ClientTakes DEF OthersSame, Same, ClientOnly, TypePart
    <2>4. CASE client[c].rc = "ok" /\ ~client[c].ioError
        <3>1. PICK q \in ClientSet : q = [client[c] EXCEPT !.pc = "ended"]
            BY <1>2 DEF ClientSet
        <3>2. client' = [client EXCEPT ![c] = q]
            BY <1>2, <2>1, <2>4, <3>1 DEF TypePart
        <3>3. /\ q.rc = client[c].rc /\ q.pc = "ended"
              /\ q.list = client[c].list /\ q.ioError = client[c].ioError /\ q.delete = client[c].delete
              /\ q.dry = client[c].dry /\ q.seen = client[c].seen /\ q.absent = client[c].absent
            BY <1>2, <3>1 DEF ClientSet
        <3>4. TypePart' /\ client'[c] = q /\ LockPart' /\ RowsBy(c) /\ holder' \in {holder, c}
            BY <1>1, <1>4, <1>5, <2>2, <3>2, ClientTypes
        <3>5. KeepsList(c)
            BY <3>3, <3>4 DEF KeepsList
        <3>6. StampPart(c)' /\ ListPart(c)' /\ PlacePart(c)' /\ ProgressPart(c)'
            BY <1>1, <1>3, <2>4, <3>3, <3>4, <3>5, ClientKeeps DEF Running
        <3>7. StreamPart(c)'
            BY <1>1, <2>1, <3>3, <3>4, <3>5, StreamKept
        <3> QED
            BY <1>6, <2>3, <3>4, <3>6, <3>7, StepOf DEF SessionOk
    <2>5. CASE ~(client[c].rc = "ok" /\ ~client[c].ioError)
        <3>1. PICK q : q = [NoClient EXCEPT !.rc = "partial"]
            OBVIOUS
        <3>2. client' = [client EXCEPT ![c] = q] /\ client'[c] = [NoClient EXCEPT !.rc = "partial"]
            BY <1>2, <2>1, <2>5, <3>1 DEF TypePart
        <3>3. /\ StampPart(c)' /\ ListPart(c)' /\ PlacePart(c)' /\ ProgressPart(c)'
              /\ q \in ClientSet /\ client'[c].rc = "partial"
            BY <1>1, <1>3, <3>1, <3>2, ClientForgets
        <3>4. TypePart' /\ LockPart' /\ RowsBy(c) /\ holder' \in {holder, c}
            BY <1>1, <1>4, <1>5, <2>2, <3>2, <3>3, ClientTypes
        <3>5. StreamPart(c)'
            BY <1>1, <1>3, <2>1, <3>3, StreamKept
        <3> QED
            BY <1>6, <2>3, <3>3, <3>4, <3>5, StepOf DEF SessionOk
    <2> QED
        BY <2>4, <2>5
<1> QED
    BY <1>1, <1>7, <1>8

\* The client notices that the connection is gone.
LEMMA ClientFailsStep == ASSUME BackupInv, NEW c \in Clients, ClientFails(c) PROVE BackupInv'
<1>1. /\ Running(c) /\ ClientOnly /\ UNCHANGED <<conn, toServer, faults>>
      /\ client' = [client EXCEPT ![c] =
           IF Serving(c) THEN [@ EXCEPT !.pc = "ended", !.rc = "failed"] ELSE [NoClient EXCEPT !.rc = "failed"]]
      /\ toClient' = [toClient EXCEPT ![c] = << >>]
    BY DEF ClientFails
<1>2. SessionOk(c) /\ TypePart /\ client[c] \in ClientSet
    BY DEF BackupInv, TypePart
<1>3. toClient' \in [Clients -> Seq(Answers)] /\ toClient'[c] = << >>
    <2>1. << >> \in Seq(Answers)
        OBVIOUS
    <2> QED
        BY <1>1, <1>2, <2>1 DEF TypePart
<1>4. /\ conn' \in [Clients -> {"open", "closed", "broken"}] /\ faults' \in 0 .. MaxFaults
      /\ DOMAIN toServer' = Clients
    BY <1>1, <1>2 DEF TypePart
<1>5. OthersSame(c)
    BY <1>1, <1>2 DEF OthersSame, Same, ClientOnly, TypePart
<1>6. ASSUME client'[c].rc = "failed", client'[c].pc = "ended" PROVE AnswerPart(c)'
    BY <1>3, <1>6 DEF AnswerPart, NoDone
<1>7. CASE Serving(c)
    <2>1. PICK q \in ClientSet : q = [client[c] EXCEPT !.pc = "ended", !.rc = "failed"]
        BY <1>2 DEF ClientSet
    <2>2. client' = [client EXCEPT ![c] = q]
        BY <1>1, <1>2, <1>7, <2>1 DEF TypePart
    <2>3. /\ q.rc = "failed" /\ q.pc = "ended"
          /\ q.list = client[c].list /\ q.ioError = client[c].ioError /\ q.delete = client[c].delete
          /\ q.dry = client[c].dry /\ q.seen = client[c].seen /\ q.absent = client[c].absent
        BY <1>2, <2>1 DEF ClientSet
    <2>4. TypePart' /\ client'[c] = q /\ LockPart' /\ RowsBy(c) /\ holder' \in {holder, c}
        BY <1>1, <1>3, <1>4, <2>2, ClientTypes
    <2>5. KeepsList(c)
        BY <2>3, <2>4 DEF KeepsList
    <2>6. StampPart(c)' /\ ListPart(c)' /\ PlacePart(c)' /\ ProgressPart(c)'
        BY <1>1, <2>3, <2>4, <2>5, ClientKeeps DEF Running
    <2>7. StreamPart(c)'
        BY <1>1, <2>3, <2>4, <2>5, StreamKept
    <2> QED
        BY <1>5, <1>6, <2>3, <2>4, <2>6, <2>7, StepOf DEF SessionOk
<1>8. CASE ~Serving(c)
    <2>1. ~Live(c)
        BY <1>8 DEF Live, Serving
    <2>2. PICK q : q = [NoClient EXCEPT !.rc = "failed"]
        OBVIOUS
    <2>3. client' = [client EXCEPT ![c] = q] /\ client'[c] = [NoClient EXCEPT !.rc = "failed"]
        BY <1>1, <1>2, <1>8, <2>2 DEF TypePart
    <2>4. /\ StampPart(c)' /\ ListPart(c)' /\ PlacePart(c)' /\ ProgressPart(c)'
          /\ q \in ClientSet /\ client'[c].rc = "failed"
        BY <1>1, <2>1, <2>2, <2>3, ClientForgets
    <2>5. TypePart' /\ LockPart' /\ RowsBy(c) /\ holder' \in {holder, c}
        BY <1>1, <1>3, <1>4, <2>3, <2>4, ClientTypes
    <2>6. StreamPart(c)'
        BY <1>1, <2>1, <2>4, StreamKept
    <2>7. client'[c].pc = "ended"
        BY <2>3 DEF NoClient
    <2> QED
        BY <1>5, <1>6, <2>4, <2>5, <2>6, <2>7, StepOf DEF SessionOk
<1> QED
    BY <1>7, <1>8

\* The connection breaks.
LEMMA BreakStep == ASSUME BackupInv, NEW c \in Clients, Break(c) PROVE BackupInv'
<1>1. /\ conn' = [conn EXCEPT ![c] = "broken"] /\ faults < MaxFaults /\ faults' = faults + 1
      /\ ClientOnly /\ UNCHANGED <<client, toServer, toClient>>
    BY DEF Break, UseFault
<1>2. SessionOk(c) /\ TypePart /\ client[c] \in ClientSet
    BY DEF BackupInv, TypePart
<1>3. client' = [client EXCEPT ![c] = client[c]]
    BY <1>1, <1>2 DEF TypePart
<1>4. faults' \in 0 .. MaxFaults
    BY <1>1, <1>2, SessionAssumption DEF TypePart
<1>5. TypePart' /\ LockPart' /\ RowsBy(c) /\ holder' \in {holder, c}
    BY <1>1, <1>2, <1>3, <1>4, ClientTypes DEF TypePart
<1>6. KeepsList(c)
    BY <1>1 DEF KeepsList
<1>7. Broken(c) => Broken(c)'
    BY <1>1 DEF Broken, NoDone, ClientOnly
<1>8. StampPart(c)' /\ ListPart(c)' /\ PlacePart(c)' /\ ProgressPart(c)'
    BY <1>1, <1>2, <1>6, <1>7, ClientKeeps DEF Running, SessionOk, ProgressPart
<1>9. AnswerPart(c)'
    BY <1>1, <1>2 DEF SessionOk, AnswerPart, Live, NoDone, Serving, Basis, UseDelta, OldRow, Entry, ClientOnly
<1>10. StreamPart(c)'
    <2>1. conn'[c] # "open"
        BY <1>1, <1>2 DEF TypePart
    <2> QED
        BY <1>1, <1>6, <2>1, StreamKept
<1>11. OthersSame(c)
    BY <1>1 DEF OthersSame, Same, ClientOnly
<1> QED
    BY <1>5, <1>8, <1>9, <1>10, <1>11, StepOf DEF SessionOk

\* The answer to a request for data: from now on the server's to read.
LEMMA FileAnswered ==
    ASSUME BackupInv, NEW c \in Clients, ClientOnly, UNCHANGED conn, KeepsList(c),
           client'[c].rc = "ok" => client[c].rc = "ok",
           NEW m, ClientSends(c, <<m>>),
           Serving(c) => /\ server[c].pc = "data" /\ toServer[c] = << >>
                         /\ FileAnswer(c, m, Entry(c), Basis(c))'
    PROVE  StreamPart(c)'
<1>1. StreamPart(c) /\ server' = server
    BY DEF BackupInv, SessionOk, ClientOnly
<1>2. CASE toServer'[c] = toServer[c]
    BY <1>2, StreamKept
<1>3. CASE conn[c] = "open" /\ toServer'[c] = toServer[c] \o <<m>>
    <2>1. Serving(c)
        BY <1>1, <1>3 DEF StreamPart
    <2>2. toServer'[c] = <<m>>
        BY <1>3, <2>1, Single
    <2> QED
        BY <1>1, <2>1, <2>2 DEF StreamPart, Serving
<1> QED
    BY <1>2, <1>3, ClientWrites

\* A file, or why there is none.
LEMMA FileStep == ASSUME BackupInv, NEW c \in Clients, ClientSendsFile(c) PROVE BackupInv'
<1>1. PICK m, it, new :
        /\ m = Head(toClient[c]) /\ it = source[c][client[c].list[m.ndx].path]
        /\ client[c].pc = "sending" /\ toClient[c] # << >> /\ m.type = "item" /\ m.sums # None
        /\ ClientReads(c) /\ ClientOnly /\ UNCHANGED conn
        /\ ClientSends(c, <<new>>)
        /\ \/ /\ it # None /\ UNCHANGED <<client, faults>>
              /\ \E t \in TokenStreams(it.blocks, m.sums) : new = DataMsg(t, TRUE)
           \/ /\ new = DataMsg([i \in DOMAIN it.blocks |-> Literal(Zero)], FALSE)
              /\ Failing(c) /\ UseFault
           \/ /\ new = [type |-> "nosend", ndx |-> m.ndx]
              /\ Failing(c) /\ (faults' = faults \/ UseFault)
    BY DEF ClientSendsFile, ClientGets
<1>2. Failing(c) \/ UNCHANGED client
    BY <1>1
<1>3. /\ it = source[c][client[c].list[m.ndx].path]
      /\ client[c].pc = "sending" /\ m.sums # None
      /\ ClientOnly /\ UNCHANGED conn /\ ClientSends(c, <<new>>)
    BY <1>1
<1>4. SessionOk(c) /\ TypePart /\ client[c] \in ClientSet
    BY DEF BackupInv, TypePart
<1>5. toClient'[c] = << >> /\ toClient' \in [Clients -> Seq(Answers)]
    BY <1>1, ClientTakes
<1>6. 1 \in DOMAIN toClient[c] /\ toClient[c][1] = m
    <2>1. toClient[c] \in Seq(Answers)
        BY <1>4 DEF TypePart
    <2> QED
        BY <1>1, <2>1, Taken
<1>7. Serving(c) => /\ server[c].pc = "data" /\ toServer[c] = << >>
                    /\ m.ndx = server[c].i /\ m.sums = Basis(c)
    <2>1. AnswerPart(c)
        BY <1>4 DEF SessionOk
    <2> QED
        BY <1>1, <1>6, <2>1 DEF AnswerPart
<1>8. Serving(c) => /\ Basis(c) \in Blocks /\ Entry(c) = client[c].list[m.ndx]
                    /\ Entry(c).path \in Paths /\ it = source[c][Entry(c).path]
    <2>1. ASSUME Serving(c) PROVE server[c].i \in DOMAIN client[c].list /\ server[c].list = client[c].list
        BY <1>4, <1>7, <2>1 DEF SessionOk, PlacePart, Live
    <2>2. ASSUME Serving(c) PROVE client[c].list[m.ndx] \in Entries
        BY <1>4, <1>7, <2>1, <2>2 DEF ClientSet
    <2> QED
        BY <1>7, <1>3, <2>1, <2>2, BasisBlocks DEF Entry, Entries
<1>9. Entry(c)' = Entry(c) /\ Basis(c)' = Basis(c) /\ source' = source /\ server' = server
    BY <1>1 DEF Entry, Basis, UseDelta, OldRow, ClientOnly
<1>10. PICK q \in ClientSet : /\ client' = [client EXCEPT ![c] = q]
                              /\ q = client[c] \/ q = [client[c] EXCEPT !.rc = "partial"]
                              /\ Failing(c) => q = [client[c] EXCEPT !.rc = "partial"]
                              /\ client' = client => q = client[c]
    <2>1. CASE Failing(c)
        <3>1. PICK r \in ClientSet : r = [client[c] EXCEPT !.rc = "partial"]
            BY <1>4 DEF ClientSet
        <3>2. client' = [client EXCEPT ![c] = r]
            BY <2>1, <3>1 DEF Failing
        <3>3. client' = client => r = client[c]
            BY <1>4, <3>2 DEF TypePart
        <3> QED
            BY <3>1, <3>2, <3>3
    <2>2. CASE ~Failing(c)
        BY <1>2, <1>4, <2>2 DEF TypePart
    <2> QED
        BY <2>1, <2>2
<1>11. /\ q.pc = client[c].pc /\ q.phase = client[c].phase /\ (q.rc = "ok" => client[c].rc = "ok")
       /\ q.list = client[c].list /\ q.ioError = client[c].ioError /\ q.delete = client[c].delete
       /\ q.dry = client[c].dry /\ q.seen = client[c].seen /\ q.absent = client[c].absent
    BY <1>4, <1>10 DEF ClientSet
<1>12. faults' \in 0 .. MaxFaults
    <2>1. faults' = faults \/ UseFault
        BY <1>1
    <2> QED
        BY <1>4, <2>1, SessionAssumption DEF TypePart, UseFault
<1>13. DOMAIN toServer' = Clients /\ \A d \in Clients \ {c} : toServer'[d] = toServer[d]
    BY <1>1, ClientWrites
<1>14. TypePart' /\ client'[c] = q /\ LockPart' /\ RowsBy(c) /\ holder' \in {holder, c}
    <2>1. conn' \in [Clients -> {"open", "closed", "broken"}]
        BY <1>1, <1>4 DEF TypePart
    <2> QED
        BY <1>1, <1>5, <1>10, <1>12, <1>13, <2>1, ClientTypes
<1>15. KeepsList(c)
    BY <1>11, <1>14 DEF KeepsList
<1>16. StampPart(c)' /\ ListPart(c)' /\ PlacePart(c)' /\ ProgressPart(c)'
    <2>1. Broken(c) => Broken(c)'
        BY <1>5, <1>9, <1>11, <1>14 DEF Broken, NoDone
    <2>2. Running(c)'
        BY <1>11, <1>14, <1>3 DEF Running
    <2>3. Running(c)
        BY <1>3 DEF Running
    <2> QED
        BY <1>11, <1>14, <1>15, <1>3, <2>1, <2>2, <2>3, ClientKeeps
<1>17. AnswerPart(c)'
    <2>1. AnswerPart(c) /\ DOMAIN toClient'[c] = {}
        BY <1>4, <1>5 DEF SessionOk
    <2>2. Live(c)' <=> Live(c)
        BY <1>9 DEF Live
    <2>3. client'[c].pc = client[c].pc /\ client'[c].phase = client[c].phase
        BY <1>11, <1>14
    <2> QED
        BY <1>5, <1>3, <2>1, <2>2, <2>3 DEF AnswerPart, NoDone
<1>18. OthersSame(c)
    BY <1>1, <1>4, <1>10, <1>13, ClientTakes DEF OthersSame, Same, ClientOnly, TypePart
<1>19. StreamPart(c)'
    <2> SUFFICES ASSUME Serving(c) PROVE FileAnswer(c, new, Entry(c), Basis(c))'
        BY <1>7, <1>11, <1>14, <1>15, <1>3, FileAnswered
    <2>1. CASE /\ it # None /\ UNCHANGED client
               /\ \E t \in TokenStreams(it.blocks, m.sums) : new = DataMsg(t, TRUE)
        <3>1. PICK t \in TokenStreams(it.blocks, m.sums) : new = DataMsg(t, TRUE)
            BY <2>1
        <3>2. new.type = "data" /\ new.good /\ new.tokens = t
            BY <3>1 DEF DataMsg
        <3>3. it \in Items /\ it.blocks \in Blocks
            BY <1>4, <1>8, <2>1 DEF TypePart, Items
        <3>4. Rebuild(t, Basis(c)) = it.blocks /\ (MatchesGoBack \/ AcceptMatches(t))
            BY <1>7, <1>8, <3>1, <3>3, TokensRebuild
        <3>5. it.blocks \in client'[c].seen[Entry(c).path]
            BY <1>1, <1>4, <1>8, <1>11, <1>14, <2>1 DEF SessionOk, StampPart, Running
        <3> QED
            BY <1>8, <1>9, <3>2, <3>4, <3>5 DEF FileAnswer
    <2>2. CASE new = DataMsg([i \in DOMAIN it.blocks |-> Literal(Zero)], FALSE) /\ Failing(c)
        <3>1. new.type = "data" /\ ~new.good /\ AcceptMatches(new.tokens)
            BY <2>2, ZerosAccepted DEF DataMsg
        <3>2. q.rc = "partial"
            BY <1>4, <1>10, <2>2 DEF ClientSet
        <3> QED
            BY <1>14, <3>1, <3>2 DEF FileAnswer
    <2>3. CASE new = [type |-> "nosend", ndx |-> m.ndx] /\ Failing(c)
        <3>1. q.rc = "partial" /\ new.type = "nosend" /\ new.ndx = m.ndx
            BY <1>4, <1>10, <2>3 DEF ClientSet
        <3> QED
            BY <1>7, <1>9, <1>14, <3>1 DEF FileAnswer
    <2> QED
        BY <1>1, <2>1, <2>2, <2>3
<1> QED
    BY <1>14, <1>16, <1>17, <1>18, <1>19, StepOf DEF SessionOk

-----------------------------------------------------------------------------
(* Users edit, and sessions start.                                         *)

\* An edit gives an mtime that no row and no entry has.
LEMMA EditStep == ASSUME BackupInv, NEW c \in Clients, EditSource(c) PROVE BackupInv'
<1>1. PICK it : \E p \in Subtree[c] :
        /\ \/ it = None
           \/ it.mtime = <<c, edits[c] + 1>> /\ it \in Items /\ (it.kind # "file" => it.blocks = << >>)
        /\ source' = [source EXCEPT ![c][p] = it]
        /\ client' = IF Running(c) /\ it # None
                     THEN [client EXCEPT ![c].seen[p] = @ \cup {it.blocks}] ELSE client
    <2>1. SessionAssumption /\ edits[c] \in Nat
        BY SessionAssumption DEF BackupInv, TypePart
    <2>2. <<c, edits[c] + 1>> \in Stamps
        BY <2>1 DEF Stamps
    <2>3. ASSUME NEW s \in Blocks, NEW k \in Kinds, k # "file" => s = << >>
          PROVE  /\ Item(k, s, <<c, edits[c] + 1>>).mtime = <<c, edits[c] + 1>>
                 /\ Item(k, s, <<c, edits[c] + 1>>) \in Items
                 /\ Item(k, s, <<c, edits[c] + 1>>).kind # "file" => Item(k, s, <<c, edits[c] + 1>>).blocks = << >>
        BY <2>2, <2>3 DEF Item, Items
    <2>4. PICK p \in Subtree[c],
               it \in {None, Item("static", << >>, <<c, edits[c] + 1>>), Item("special", << >>, <<c, edits[c] + 1>>)}
                      \cup {Item("file", s, <<c, edits[c] + 1>>) : s \in Contents} :
            /\ source' = [source EXCEPT ![c][p] = it]
            /\ client' = IF Running(c) /\ it # None
                         THEN [client EXCEPT ![c].seen[p] = @ \cup {it.blocks}] ELSE client
        BY DEF EditSource
    <2>5. it = None \/ \E s \in Blocks, k \in Kinds :
             it = Item(k, s, <<c, edits[c] + 1>>) /\ (k # "file" => s = << >>)
        BY <2>4 DEF Blocks, Kinds
    <2> QED
        BY <2>3, <2>4, <2>5
<1>2. PICK p \in Subtree[c] :
       /\ \/ it = None
          \/ it.mtime = <<c, edits[c] + 1>> /\ it \in Items /\ (it.kind # "file" => it.blocks = << >>)
       /\ source' = [source EXCEPT ![c][p] = it]
       /\ client' = IF Running(c) /\ it # None
                    THEN [client EXCEPT ![c].seen[p] = @ \cup {it.blocks}] ELSE client
    BY <1>1
<1>3. /\ edits' = [edits EXCEPT ![c] = @ + 1]
      /\ UNCHANGED <<mirror, server, conn, toServer, toClient, lock, holder, faults>>
    BY DEF EditSource
<1>4. SessionOk(c) /\ TypePart /\ client[c] \in ClientSet /\ edits[c] \in Nat /\ edits'[c] = edits[c] + 1
      /\ p \in Paths
    BY <1>3, SessionAssumption DEF BackupInv, TypePart
<1>5. /\ source'[c][p] = it /\ \A r \in Paths \ {p} : source'[c][r] = source[c][r]
      /\ source' \in [Clients -> [Paths -> Items \cup {None}]]
      /\ \A d \in Clients \ {c} : source'[d] = source[d]
    BY <1>2, <1>4 DEF TypePart
<1>6. PICK q \in ClientSet : /\ client' = [client EXCEPT ![c] = q]
                             /\ \A r \in Paths : client[c].seen[r] \subseteq q.seen[r]
                             /\ Running(c) /\ it # None => it.blocks \in q.seen[p]
                             /\ q.pc = client[c].pc /\ q.rc = client[c].rc /\ q.phase = client[c].phase
                             /\ q.list = client[c].list /\ q.ioError = client[c].ioError
                             /\ q.delete = client[c].delete /\ q.dry = client[c].dry
                             /\ q.absent = client[c].absent
    <2>1. CASE Running(c) /\ it # None
        <3>1. it.blocks \in Blocks
            BY <1>2, <2>1 DEF Items
        <3>2. PICK f \in [Paths -> SUBSET Blocks] : f = [client[c].seen EXCEPT ![p] = @ \cup {it.blocks}]
            BY <1>4, <3>1 DEF ClientSet
        <3>3. PICK q \in ClientSet : q = [client[c] EXCEPT !.seen = f]
            BY <1>4, <3>2 DEF ClientSet
        <3>4. client' = [client EXCEPT ![c] = q]
            BY <1>2, <1>4, <2>1, <3>2, <3>3 DEF TypePart
        <3>5. \A r \in Paths : client[c].seen[r] \subseteq f[r]
            BY <1>4, <3>2 DEF ClientSet
        <3>6. it.blocks \in f[p]
            BY <1>4, <3>2 DEF ClientSet
        <3> QED
            BY <1>4, <3>3, <3>4, <3>5, <3>6 DEF ClientSet
    <2>2. CASE ~(Running(c) /\ it # None)
        <3>1. client' = [client EXCEPT ![c] = client[c]]
            BY <1>2, <1>4, <2>2 DEF TypePart
        <3> QED
            BY <1>4, <2>2, <3>1
    <2> QED
        BY <2>1, <2>2
<1>7. client' \in [Clients -> ClientSet] /\ client'[c] = q /\ \A d \in Clients \ {c} : client'[d] = client[d]
    BY <1>4, <1>6 DEF TypePart
<1>8. TypePart' /\ LockPart' /\ RowsBy(c) /\ holder' \in {holder, c}
    <2>1. edits' \in [Clients -> Nat]
        BY <1>3, <1>4 DEF TypePart
    <2> QED
        BY <1>3, <1>4, <1>5, <1>7, <2>1 DEF BackupInv, TypePart, LockPart, Holding, RowsBy
<1>9. OthersSame(c)
    BY <1>3, <1>4, <1>5, <1>7 DEF OthersSame, Same, TypePart
<1>10. it # None => it.mtime[1] = c /\ it.mtime[2] = edits[c] + 1 /\ (it.kind # "file" => it.blocks = << >>)
    BY <1>2
<1>11. StampPart(c)'
    <2> SUFFICES ASSUME NEW r \in Paths
                 PROVE  /\ source'[c][r] # None =>
                            /\ r \in Subtree[c] /\ source'[c][r].mtime[1] = c /\ source'[c][r].mtime[2] <= edits'[c]
                            /\ source'[c][r].kind # "file" => source'[c][r].blocks = << >>
                            /\ mirror[r] # None /\ mirror[r].mtime = source'[c][r].mtime
                                  => mirror[r].blocks = source'[c][r].blocks
                            /\ Running(c) => source'[c][r].blocks \in client'[c].seen[r]
                        /\ mirror[r] # None /\ mirror[r].mtime[1] = c => mirror[r].mtime[2] <= edits'[c]
        BY <1>3, <1>6, <1>7 DEF StampPart, Running
    <2>1. StampPart(c)
        BY <1>4 DEF SessionOk
    <2>2. mirror[r] # None /\ mirror[r].mtime[1] = c =>
            mirror[r].mtime[2] <= edits[c] /\ mirror[r].mtime[2] \in Nat
        BY <1>4, <2>1 DEF StampPart, TypePart, Rows
    <2>3. source[c][r] # None => source[c][r].mtime[2] \in Nat
        BY <1>4 DEF TypePart, Items, Stamps
    <2>4. CASE r = p
        BY <1>4, <1>5, <1>6, <1>7, <1>10, <2>2, <2>4
    <2>5. CASE r # p
        BY <1>4, <1>5, <1>6, <1>7, <2>1, <2>2, <2>3, <2>5 DEF StampPart
    <2> QED
        BY <2>4, <2>5
<1>12. ListPart(c)'
    <2>1. ASSUME Live(c), NEW k \in DOMAIN client[c].list PROVE EntryOk(c, client[c].list[k])'
        <3>1. PICK e : e = client[c].list[k]
            OBVIOUS
        <3>2. EntryOk(c, e) /\ e \in Entries
            BY <1>4, <2>1, <3>1 DEF SessionOk, ListPart, ClientSet
        <3>3. e.path \in Paths /\ e.mtime[2] \in Nat
            BY <3>2 DEF Entries, Stamps
        <3>4. source'[c][e.path] # None /\ source'[c][e.path].mtime = e.mtime => source'[c][e.path].kind = e.kind
            BY <1>4, <1>5, <1>10, <3>2, <3>3 DEF EntryOk
        <3>5. EntryOk(c, e)'
            BY <1>3, <1>4, <1>6, <1>7, <3>2, <3>3, <3>4 DEF EntryOk
        <3> QED
            BY <1>6, <1>7, <3>1, <3>5
    <2> QED
        BY <1>3, <1>4, <1>6, <1>7, <2>1 DEF SessionOk, ListPart, Listed, Live
<1>13. PlacePart(c)'
    BY <1>3, <1>4, <1>6, <1>7 DEF SessionOk, PlacePart, Live
<1>14. StreamPart(c)'
    <2>1. ASSUME server[c].pc = "data", NEW m, FileAnswer(c, m, Entry(c), Basis(c))
          PROVE  FileAnswer(c, m, Entry(c), Basis(c))'
        <3>1. PICK e : e = Entry(c)
            OBVIOUS
        <3>2. e' = e /\ Entry(c)' = e /\ Basis(c)' = Basis(c)
            BY <1>3, <3>1 DEF Entry, Basis, UseDelta, OldRow
        <3>3. e = client[c].list[server[c].i] /\ server[c].i \in DOMAIN client[c].list
            BY <1>4, <2>1, <3>1 DEF SessionOk, PlacePart, Live, Entry
        <3>4. e \in Entries /\ EntryOk(c, e)
            BY <1>4, <2>1, <3>3 DEF SessionOk, ListPart, Live, ClientSet
        <3>5. e.path \in Paths /\ e.mtime[2] \in Nat
            BY <3>4 DEF Entries, Stamps
        <3>6. source'[c][e.path] # None /\ source'[c][e.path].mtime = e.mtime
                => source'[c][e.path] = source[c][e.path]
            BY <1>4, <1>5, <1>10, <3>4, <3>5 DEF EntryOk
        <3> QED
            BY <1>3, <1>6, <1>7, <2>1, <3>1, <3>2, <3>5, <3>6 DEF FileAnswer
    <2> QED
        BY <1>3, <1>4, <1>6, <1>7, <2>1 DEF SessionOk, StreamPart, Serving
<1>15. AnswerPart(c)'
    <2>1. Basis(c)' = Basis(c)
        BY <1>3 DEF Entry, Basis, UseDelta, OldRow
    <2> QED
        BY <1>3, <1>4, <1>6, <1>7, <2>1 DEF SessionOk, AnswerPart, Live, NoDone, Serving
<1>16. ProgressPart(c)'
    <2>1. \A k \in DOMAIN client[c].list : client[c].list[k].path \in Paths
        <3>1. \A k \in DOMAIN client[c].list : client[c].list[k] \in Entries
            BY <1>4 DEF ClientSet
        <3> QED
            BY <3>1 DEF Entries
    <2>2. \A k \in DOMAIN client[c].list : Right(c, client[c].list[k]) => Right(c, client[c].list[k])'
        BY <1>3, <1>6, <1>7, <2>1 DEF Right
    <2>3. Converged(c) => Converged(c)'
        BY <1>3, <1>6, <1>7, <2>2 DEF Converged, Counts, Below, Listed
    <2>4. Broken(c) => Broken(c)'
        BY <1>3, <1>6, <1>7 DEF Broken, NoDone
    <2> QED
        BY <1>3, <1>4, <1>6, <1>7, <2>2, <2>3, <2>4
           DEF SessionOk, ProgressPart, Live, Holding, Counts, Below, Listed, Running
<1> QED
    BY <1>8, <1>9, <1>11, <1>12, <1>13, <1>14, <1>15, <1>16, StepOf DEF SessionOk

\* The list of the entries of the paths P.
ListOf(c, P) == SetToSeq({EntryOf(p, source[c][p]) : p \in P})

\* The file list is the tree, but for what is excluded or cannot be read.
LEMMA ListMade ==
    ASSUME BackupInv, NEW c \in Clients, NEW P \in SUBSET Present(c),
           NEW list, list = ListOf(c, P)
    PROVE  /\ list \in Seq(Entries)
           /\ \A k \in DOMAIN list : \E p \in P : list[k] = EntryOf(p, source[c][p])
           /\ \A j, k \in DOMAIN list : list[j].path = list[k].path => j = k
           /\ \A p \in P : \E k \in DOMAIN list : list[k].path = p
<1> DEFINE f == [p \in P |-> EntryOf(p, source[c][p])]
           S == {EntryOf(p, source[c][p]) : p \in P}
<1>1. IsFiniteSet(P)
    <2>1. P \in SUBSET Subtree[c] /\ IsFiniteSet(Subtree[c])
        BY SessionAssumption DEF Present
    <2> QED
        BY <2>1, FS_Subset
<1>2. f \in Surjection(P, S)
    BY DEF Surjection
<1>3. IsFiniteSet(S)
    <2> HIDE DEF f, S
    <2> QED
        BY <1>1, <1>2, FS_Surjection
<1>4. \A p \in P : EntryOf(p, source[c][p]).path = p
    BY DEF EntryOf
<1>5. S \subseteq Entries
    <2> SUFFICES ASSUME NEW p \in P PROVE EntryOf(p, source[c][p]) \in Entries
        OBVIOUS
    <2>1. p \in Paths /\ source[c][p] \in Items
        BY SessionAssumption DEF BackupInv, TypePart, Present
    <2>2. PICK it \in Items : it = source[c][p]
        BY <2>1
    <2>3. Len(it.blocks) \in Nat /\ it.kind \in Kinds /\ it.mtime \in Stamps
        BY BlocksAreSequences DEF Items
    <2> QED
        BY <2>1, <2>2, <2>3 DEF EntryOf, Entries
<1>6. /\ list \in Seq(S)
      /\ \A j, k \in DOMAIN list : list[j] = list[k] => j = k
      /\ \A x \in S : \E k \in DOMAIN list : list[k] = x
    <2> HIDE DEF S
    <2>1. list = SetToSeq(S)
        BY DEF S, ListOf
    <2> QED
        BY <1>3, <2>1, ListOfSet
<1>7. \A k \in DOMAIN list : list[k] \in S
    <2> HIDE DEF S
    <2> QED
        BY <1>6
<1>8. list \in Seq(Entries)
    BY <1>5, <1>6
<1>9. \A k \in DOMAIN list : \E p \in P : list[k] = EntryOf(p, source[c][p])
    BY <1>7
<1>10. ASSUME NEW j \in DOMAIN list, NEW k \in DOMAIN list, list[j].path = list[k].path PROVE j = k
    <2>1. PICK p \in P : list[j] = EntryOf(p, source[c][p])
        BY <1>9
    <2>2. PICK r \in P : list[k] = EntryOf(r, source[c][r])
        BY <1>9
    <2>3. p = r
        BY <1>4, <1>10, <2>1, <2>2
    <2> QED
        BY <1>6, <2>1, <2>2, <2>3
<1>11. ASSUME NEW p \in P PROVE \E k \in DOMAIN list : list[k].path = p
    <2>1. EntryOf(p, source[c][p]) \in S
        OBVIOUS
    <2> HIDE DEF S
    <2>2. PICK k \in DOMAIN list : list[k] = EntryOf(p, source[c][p])
        BY <1>6, <2>1
    <2> QED
        BY <1>4, <2>2
<1> QED
    BY <1>8, <1>9, <1>10, <1>11

\* A session starts with the list, which is the tree as it is.
LEMMA ConnectStep == ASSUME BackupInv, NEW c \in Clients, Connect(c) PROVE BackupInv'
<1>1. PICK excluded : \E unread, mode :
        /\ (~Filters => excluded = {}) /\ mode \in Modes[c]
        /\ faults' = faults \/ UseFault
        /\ client' = [client EXCEPT ![c] =
             [NoClient EXCEPT !.pc = "sending", !.rc = "ok",
                              !.list = SetToSeq({EntryOf(p, source[c][p]) : p \in (Present(c) \ excluded) \ unread}),
                              !.ioError = (unread # {}), !.delete = mode.delete, !.dry = mode.dry,
                              !.seen = [p \in Paths |->
                                  IF p \in Present(c) THEN {source[c][p].blocks} ELSE {}],
                              !.absent = Subtree[c] \ Present(c)]]
        /\ toServer' = [toServer EXCEPT ![c] = <<
             [type |-> "list",
              list |-> SetToSeq({EntryOf(p, source[c][p]) : p \in (Present(c) \ excluded) \ unread}),
              ioError |-> unread # {}]>>]
    BY ZenonT(30) DEF Connect
<1>2. PICK unread : \E mode :
        /\ mode \in Modes[c]
        /\ faults' = faults \/ UseFault
        /\ client' = [client EXCEPT ![c] =
             [NoClient EXCEPT !.pc = "sending", !.rc = "ok",
                              !.list = SetToSeq({EntryOf(p, source[c][p]) : p \in (Present(c) \ excluded) \ unread}),
                              !.ioError = (unread # {}), !.delete = mode.delete, !.dry = mode.dry,
                              !.seen = [p \in Paths |->
                                  IF p \in Present(c) THEN {source[c][p].blocks} ELSE {}],
                              !.absent = Subtree[c] \ Present(c)]]
        /\ toServer' = [toServer EXCEPT ![c] = <<
             [type |-> "list",
              list |-> SetToSeq({EntryOf(p, source[c][p]) : p \in (Present(c) \ excluded) \ unread}),
              ioError |-> unread # {}]>>]
    BY <1>1
<1>3. PICK P, list, io, f, a :
        /\ P = (Present(c) \ excluded) \ unread
        /\ list = SetToSeq({EntryOf(p, source[c][p]) : p \in P})
        /\ io = (unread # {})
        /\ f = [p \in Paths |-> IF p \in Present(c) THEN {source[c][p].blocks} ELSE {}]
        /\ a = Subtree[c] \ Present(c)
    OBVIOUS
<1>4. P \in SUBSET Present(c) /\ io \in BOOLEAN /\ (~Filters /\ ~io => P = Present(c))
    BY <1>1, <1>3
<1>5. /\ list \in Seq(Entries)
      /\ \A k \in DOMAIN list : \E p \in P : list[k] = EntryOf(p, source[c][p])
      /\ \A j, k \in DOMAIN list : list[j].path = list[k].path => j = k
      /\ \A p \in P : \E k \in DOMAIN list : list[k].path = p
    <2>1. list = ListOf(c, P)
        BY <1>3 DEF ListOf
    <2> QED
        BY <1>4, <2>1, ListMade
<1>6. TypePart /\ SessionOk(c) /\ ~Running(c) /\ ~Serving(c)
    BY DEF Connect, BackupInv
<1>7. f \in [Paths -> SUBSET Blocks] /\ a \in SUBSET Paths
    <2>1. \A p \in Paths : p \in Present(c) => source[c][p].blocks \in Blocks
        BY <1>6 DEF TypePart, Present, Items
    <2>2. a \subseteq Paths
        BY <1>3, SessionAssumption
    <2> QED
        BY <1>3, <2>1, <2>2
<1>8. PICK q \in ClientSet :
        /\ client' = [client EXCEPT ![c] = q]
        /\ q.pc = "sending" /\ q.rc = "ok" /\ q.list = list /\ q.ioError = io /\ q.phase = 0
        /\ q.seen = f /\ q.absent = a
    <2>1. PICK mode :
        /\ mode \in Modes[c]
        /\ client' = [client EXCEPT ![c] =
             [NoClient EXCEPT !.pc = "sending", !.rc = "ok", !.list = list, !.ioError = io,
                              !.delete = mode.delete, !.dry = mode.dry, !.seen = f, !.absent = a]]
        BY <1>2, <1>3
    <2>2. PICK q : q = [NoClient EXCEPT !.pc = "sending", !.rc = "ok", !.list = list, !.ioError = io,
                                        !.delete = mode.delete, !.dry = mode.dry, !.seen = f, !.absent = a]
        OBVIOUS
    <2>3. mode.delete \in BOOLEAN /\ mode.dry \in BOOLEAN
        BY <2>1, SessionAssumption
    <2>4. q = [pc |-> "sending", rc |-> "ok", list |-> list, ioError |-> io, delete |-> mode.delete,
               dry |-> mode.dry, phase |-> 0, seen |-> f, absent |-> a]
        BY <2>2 DEF NoClient
    <2>5. q \in ClientSet
        BY <1>4, <1>5, <1>7, <2>3, <2>4 DEF ClientSet
    <2>6. client' = [client EXCEPT ![c] = q]
        BY <2>1, <2>2, Zenon
    <2> QED
        BY <2>4, <2>5, <2>6
<1>9. toServer' = [toServer EXCEPT ![c] = <<[type |-> "list", list |-> list, ioError |-> io]>>]
    BY <1>2, <1>3
<1>10. /\ server' = [server EXCEPT ![c] = [NoServer EXCEPT !.pc = "list"]]
       /\ conn' = [conn EXCEPT ![c] = "open"] /\ toClient' = [toClient EXCEPT ![c] = << >>]
       /\ UNCHANGED <<source, edits, mirror, lock, holder>>
    BY DEF Connect
<1>11. PICK s \in ServerSet : /\ s = [NoServer EXCEPT !.pc = "list"]
                              /\ s.pc = "list" /\ s.i = 1
    <2>1. << >> \in Seq(Entries)
        OBVIOUS
    <2>2. PICK s : s = [NoServer EXCEPT !.pc = "list"]
        OBVIOUS
    <2>3. s = [pc |-> "list", list |-> << >>, ioError |-> FALSE, i |-> 1, todo |-> {}, step |-> 1]
        BY <2>2 DEF NoServer
    <2>4. s \in ServerSet
        BY <2>1, <2>3 DEF ServerSet
    <2>5. s.pc = "list" /\ s.i = 1
        BY <2>3
    <2> QED
        BY <2>2, <2>4, <2>5, Zenon
<1>12. /\ client'[c] = q /\ server'[c] = s /\ conn'[c] = "open" /\ toClient'[c] = << >>
       /\ toServer'[c] = <<[type |-> "list", list |-> list, ioError |-> io]>>
    BY <1>6, <1>8, <1>9, <1>10, <1>11 DEF TypePart
<1>13. TypePart'
    <2>1. faults' \in 0 .. MaxFaults
        BY <1>2, <1>6, SessionAssumption DEF TypePart, UseFault
    <2>2. << >> \in Seq(Answers)
        OBVIOUS
    <2>3. client' \in [Clients -> ClientSet] /\ server' \in [Clients -> ServerSet]
        BY <1>6, <1>8, <1>10, <1>11 DEF TypePart
    <2>4. conn' \in [Clients -> {"open", "closed", "broken"}] /\ toClient' \in [Clients -> Seq(Answers)]
          /\ DOMAIN toServer' = Clients
        BY <1>6, <1>9, <1>10, <2>2 DEF TypePart
    <2> QED
        BY <1>6, <1>10, <2>1, <2>3, <2>4 DEF TypePart
<1>14. OthersSame(c) /\ RowsBy(c) /\ holder' \in {holder, c}
    BY <1>6, <1>8, <1>9, <1>10 DEF OthersSame, Same, RowsBy, TypePart
<1>15. LockPart'
    <2>1. ~Holding(c) /\ ~Holding(c)'
        BY <1>6, <1>11, <1>12 DEF Serving, Holding
    <2> QED
        BY <1>10, <1>14, <2>1, LockMoves DEF OthersSame, Same
<1>16. StampPart(c)'
    <2>1. \A p \in Paths : source[c][p] # None => p \in Subtree[c] /\ source[c][p].blocks \in f[p]
        BY <1>3, <1>6 DEF SessionOk, StampPart, Present
    <2> QED
        BY <1>6, <1>8, <1>10, <1>12, <2>1 DEF SessionOk, StampPart
<1>17. ListPart(c)'
    <2>1. ASSUME NEW k \in DOMAIN list PROVE EntryOk(c, list[k])'
        <3>1. PICK p \in P : list[k] = EntryOf(p, source[c][p])
            BY <1>5
        <3>2. PICK e, it : e = list[k] /\ it = source[c][p]
            OBVIOUS
        <3>3. e.path = p /\ e.kind = it.kind /\ e.mtime = it.mtime
            BY <3>1, <3>2 DEF EntryOf
        <3>4. p \in Paths /\ p \in Subtree[c] /\ it # None /\ f[p] = {it.blocks}
            BY <1>3, <1>4, <3>2, SessionAssumption DEF Present
        <3>5. /\ it.mtime[1] = c /\ it.mtime[2] <= edits[c]
              /\ it.kind # "file" => it.blocks = << >>
              /\ mirror[p] # None /\ mirror[p].mtime = it.mtime => mirror[p].blocks = it.blocks
            BY <1>6, <3>2, <3>4 DEF SessionOk, StampPart
        <3>6. EntryOk(c, e)'
            BY <1>8, <1>10, <1>12, <3>2, <3>3, <3>4, <3>5 DEF EntryOk
        <3> QED
            BY <3>2, <3>6
    <2>2. ~Filters /\ ~io => Subtree[c] \ a \subseteq {list[k].path : k \in DOMAIN list}
        <3>1. ASSUME ~Filters, ~io, NEW p \in Subtree[c] \ a PROVE p \in P
            BY <1>3, <1>4, <3>1
        <3> QED
            BY <1>5, <3>1
    <2>3. ListPart(c)' <=> (Live(c)' =>
            /\ \A k \in DOMAIN list : EntryOk(c, list[k])'
            /\ \A j, k \in DOMAIN list : list[j].path = list[k].path => j = k
            /\ ~Filters /\ ~io => Subtree[c] \ a \subseteq {list[k].path : k \in DOMAIN list})
        BY <1>8, <1>12 DEF ListPart, Listed
    <2> QED
        BY <1>5, <2>1, <2>2, <2>3
<1>18. PlacePart(c)' /\ AnswerPart(c)' /\ ProgressPart(c)'
    BY <1>8, <1>11, <1>12 DEF PlacePart, AnswerPart, ProgressPart, NoDone, Live, Holding, Running
<1>19. StreamPart(c)'
    BY <1>8, <1>11, <1>12 DEF StreamPart, Serving
<1> QED
    BY <1>13, <1>14, <1>15, <1>16, <1>17, <1>18, <1>19, StepOf DEF SessionOk

-----------------------------------------------------------------------------
(* The steps of the server.                                                *)

\* A session that ends with an error: the client was told no DONE yet, or knows.
LEMMA LeaveStep ==
    ASSUME BackupInv, NEW c \in Clients, NEW pc \in {"failed", "refused"}, Leave(c, pc),
           Serving(c), pc = "refused" => MatchesGoBack,
           UNCHANGED <<source, edits, client, mirror, toClient, holder>>, faults' \in 0 .. MaxFaults
    PROVE  BackupInv'
<1>1. SessionOk(c) /\ TypePart
    BY DEF BackupInv
<1>2. PICK s \in ServerSet : s = [NoServer EXCEPT !.pc = pc] /\ s.pc = pc
    <2>1. << >> \in Seq(Entries)
        OBVIOUS
    <2>2. PICK s : s = [NoServer EXCEPT !.pc = pc]
        OBVIOUS
    <2>3. s = [pc |-> pc, list |-> << >>, ioError |-> FALSE, i |-> 1, todo |-> {}, step |-> 1]
        BY <2>2 DEF NoServer
    <2>4. s \in ServerSet /\ s.pc = pc
        BY <2>1, <2>3 DEF ServerSet
    <2> QED
        BY <2>2, <2>4, Zenon
<1>3. /\ server' = [server EXCEPT ![c] = s] /\ conn' = [conn EXCEPT ![c] = "broken"]
      /\ toServer' = [toServer EXCEPT ![c] = << >>] /\ lock' = IF lock = c THEN None ELSE lock
    BY <1>2 DEF Leave
<1>4. server'[c] = s /\ conn'[c] = "broken" /\ toServer'[c] = << >>
    BY <1>1, <1>3 DEF TypePart
<1>5. ~Live(c)' /\ ~Holding(c)' /\ ~Serving(c)'
    BY <1>2, <1>4 DEF Live, Holding, Serving
<1>6. OthersSame(c) /\ RowsBy(c) /\ holder' \in {holder, c}
    BY <1>1, <1>3 DEF OthersSame, Same, RowsBy, TypePart
<1>7. TypePart' /\ LockPart'
    <2>1. LockPart'
        BY <1>3, <1>5, <1>6, LockMoves DEF OthersSame, Same
    <2>2. server' \in [Clients -> ServerSet] /\ conn' \in [Clients -> {"open", "closed", "broken"}]
          /\ DOMAIN toServer' = Clients
        BY <1>1, <1>2, <1>3 DEF TypePart
    <2> QED
        BY <1>1, <1>3, <2>1, <2>2 DEF TypePart
<1>8. StampPart(c)' /\ ListPart(c)' /\ PlacePart(c)'
    BY <1>1, <1>2, <1>4, <1>5 DEF SessionOk, StampPart, ListPart, PlacePart, Running
<1>9. StreamPart(c)'
    BY <1>2, <1>4, <1>5 DEF StreamPart
<1>10. AnswerPart(c)'
    BY <1>1, <1>2, <1>4, <1>5 DEF SessionOk, AnswerPart
<1>11. ProgressPart(c)'
    <2>1. Converged(c) => Converged(c)'
        BY DEF Converged, Counts, Right, Below, Listed
    <2>2. client[c].rc # "ok" => Converged(c)'
        BY DEF Converged, Counts
    <2>3. Live(c) => Converged(c)' \/ Broken(c)'
        BY <1>1, <1>2, <1>4, <2>2 DEF SessionOk, AnswerPart, Broken, NoDone
    <2>4. ~Live(c) => Converged(c)'
        <3>1. Serving(c) /\ ~Live(c) => server[c].pc = "goodbye"
            BY <1>1 DEF TypePart, ServerSet, Serving, Live
        <3> QED
            BY <1>1, <2>1, <3>1 DEF SessionOk, ProgressPart
    <2> QED
        BY <1>1, <1>2, <1>4, <1>5, <2>3, <2>4 DEF SessionOk, ProgressPart, Running
<1> QED
    BY <1>6, <1>7, <1>8, <1>9, <1>10, <1>11, StepOf DEF SessionOk

\* A step that leaves the lock and the connection alone: what is left to show.
LEMMA ServerGoes ==
    ASSUME BackupInv, NEW c \in Clients, NEW s \in ServerSet, server' = [server EXCEPT ![c] = s],
           ServerOnly, UNCHANGED <<conn, lock, holder>>, Holding(c)' <=> Holding(c),
           toServer' = toServer \/ ServerReads(c),
           toClient' = toClient \/ \E m \in Answers : ServerSends(c, m),
           mirror' \in [Paths -> Rows \cup {None}], RowsBy(c), SessionOk(c)'
    PROVE  BackupInv'
<1>1. TypePart
    BY DEF BackupInv
<1>2. DOMAIN toServer' = Clients /\ \A d \in Clients \ {c} : toServer'[d] = toServer[d]
    BY <1>1 DEF TypePart, ServerReads
<1>3. toClient' \in [Clients -> Seq(Answers)] /\ \A d \in Clients \ {c} : toClient'[d] = toClient[d]
    <2>1. ASSUME NEW m \in Answers, ServerSends(c, m), conn[c] = "open"
          PROVE  toClient' \in [Clients -> Seq(Answers)] /\ \A d \in Clients \ {c} : toClient'[d] = toClient[d]
        <3>1. toClient' = [toClient EXCEPT ![c] = Append(@, m)]
            BY <2>1 DEF ServerSends
        <3>2. PICK a \in Seq(Answers) : a = Append(toClient[c], m)
            <4>1. toClient[c] \in Seq(Answers)
                BY <1>1 DEF TypePart
            <4> QED
                BY <4>1, Appended
        <3> QED
            BY <1>1, <3>1, <3>2 DEF TypePart
    <2>2. toClient' = toClient \/ \E m \in Answers : ServerSends(c, m) /\ conn[c] = "open"
        BY DEF ServerSends
    <2> QED
        BY <1>1, <2>1, <2>2 DEF TypePart
<1>4. server' \in [Clients -> ServerSet] /\ \A d \in Clients \ {c} : server'[d] = server[d]
    BY <1>1 DEF TypePart
<1>5. TypePart'
    BY <1>1, <1>2, <1>3, <1>4 DEF TypePart, ServerOnly
<1>6. OthersSame(c)
    BY <1>2, <1>3, <1>4 DEF OthersSame, Same, ServerOnly
<1>7. LockPart'
    BY <1>4, LockMoves
<1> QED
    BY <1>5, <1>6, <1>7, StepOf

\* What it wrote to the client's stream, if it could.
LEMMA ServerWrites ==
    ASSUME BackupInv, NEW c \in Clients, NEW m \in Answers, ServerSends(c, m)
    PROVE  \/ toClient' = toClient
           \/ /\ Len(toClient'[c]) = Len(toClient[c]) + 1
              /\ toClient'[c] \in Seq(Answers)
              /\ \A k \in DOMAIN toClient'[c] :
                   \/ k \in DOMAIN toClient[c] /\ toClient'[c][k] = toClient[c][k]
                   \/ k = Len(toClient'[c]) /\ toClient'[c][k] = m
<1>1. toClient \in [Clients -> Seq(Answers)]
    BY DEF BackupInv, TypePart
<1>2. CASE toClient' = [toClient EXCEPT ![c] = Append(@, m)]
    <2>1. PICK a \in Seq(Answers) : a = toClient[c]
        BY <1>1
    <2>2. toClient'[c] = Append(a, m)
        BY <1>1, <1>2, <2>1
    <2>3. /\ Append(a, m) \in Seq(Answers) /\ Len(Append(a, m)) = Len(a) + 1
          /\ \A k \in DOMAIN Append(a, m) :
               \/ k \in DOMAIN a /\ k # Len(a) + 1 /\ Append(a, m)[k] = a[k]
               \/ k = Len(a) + 1 /\ Append(a, m)[k] = m
        BY Appended
    <2> QED
        BY <2>1, <2>2, <2>3
<1> QED
    BY <1>2 DEF ServerSends

\* While no row changes, the tree, the rows and the list stay related.
LEMMA ListKept ==
    ASSUME BackupInv, NEW c \in Clients, ServerOnly, UNCHANGED mirror, Live(c)' => Live(c)
    PROVE  StampPart(c)' /\ ListPart(c)'
<1>1. UNCHANGED <<source, edits, client, faults>>
    BY DEF ServerOnly
<1>2. StampPart(c) /\ ListPart(c)
    BY DEF BackupInv, SessionOk
<1>3. StampPart(c)'
    <2>1. UNCHANGED <<source, edits, client, mirror>>
        BY <1>1
    <2>2. StampPart(c)
        BY <1>2
    <2>3. Running(c)' = Running(c)
        BY <2>1 DEF Running
    <2> QED
        BY ONLY <2>1, <2>2, <2>3 DEF StampPart
<1>4. \A e : EntryOk(c, e) => EntryOk(c, e)'
    BY <1>1 DEF EntryOk, Running
<1>5. Listed(c)' = Listed(c)
    BY <1>1 DEF Listed
<1> QED
    BY <1>1, <1>2, <1>3, <1>4, <1>5 DEF ListPart, Running

\* The session has the list it was sent.
LEMMA ReceiveListStep == ASSUME BackupInv, NEW c \in Clients, ReceiveList(c) PROVE BackupInv'
<1>1. /\ server[c].pc = "list" /\ ServerReads(c)
      /\ server' = [server EXCEPT ![c].pc = "lock", ![c].list = Head(toServer[c]).list,
                                  ![c].ioError = Head(toServer[c]).ioError]
      /\ ServerOnly /\ UNCHANGED <<mirror, conn, toClient, lock, holder>>
    BY DEF ReceiveList
<1>2. SessionOk(c) /\ TypePart /\ client[c] \in ClientSet /\ server[c] \in ServerSet
    BY DEF BackupInv, TypePart
<1>3. toServer[c] = <<[type |-> "list", list |-> client[c].list, ioError |-> client[c].ioError]>>
    BY <1>1, <1>2 DEF SessionOk, StreamPart
<1>4. PICK m : /\ toServer[c] = <<m>> /\ m.list = client[c].list /\ m.ioError = client[c].ioError
    BY <1>3
<1>5. Head(toServer[c]) = m /\ Tail(toServer[c]) = << >>
    BY <1>4, Single
<1>6. PICK s \in ServerSet : s = [server[c] EXCEPT !.pc = "lock", !.list = m.list, !.ioError = m.ioError]
    BY <1>2, <1>4 DEF ClientSet, ServerSet
<1>7. server' = [server EXCEPT ![c] = s]
    BY <1>1, <1>2, <1>5, <1>6 DEF TypePart
<1>8. s.pc = "lock" /\ s.list = client[c].list /\ s.ioError = client[c].ioError /\ s.i = server[c].i
    BY <1>2, <1>4, <1>6 DEF ServerSet
<1>9. server'[c] = s /\ toServer'[c] = << >> /\ toClient'[c] = toClient[c] /\ client' = client
    BY <1>1, <1>2, <1>5, <1>7 DEF TypePart, ServerReads, ServerOnly
<1>10. StampPart(c)' /\ ListPart(c)'
    BY <1>1, ListKept DEF Live
<1>11. PlacePart(c)' /\ StreamPart(c)'
    BY <1>1, <1>2, <1>8, <1>9 DEF SessionOk, PlacePart, StreamPart, Serving
<1>12. AnswerPart(c)'
    BY <1>1, <1>2, <1>8, <1>9 DEF SessionOk, AnswerPart, Live, NoDone
<1>13. ProgressPart(c)'
    <2>1. Live(c)' /\ ~Holding(c)' /\ Live(c)
        BY <1>1, <1>8, <1>9 DEF Live, Holding
    <2> QED
        BY <1>1, <1>2, <1>8, <1>9, <2>1 DEF SessionOk, ProgressPart, Running
<1>14. Holding(c)' <=> Holding(c)
    BY <1>1, <1>8, <1>9 DEF Holding
<1>15. RowsBy(c) /\ mirror' \in [Paths -> Rows \cup {None}]
    BY <1>1, <1>2 DEF RowsBy, TypePart
<1> QED
    BY <1>1, <1>7, <1>10, <1>11, <1>12, <1>13, <1>14, <1>15, ServerGoes DEF SessionOk

\* It takes the lock before the first entry.
LEMMA TakeLockStep == ASSUME BackupInv, NEW c \in Clients, TakeLock(c) PROVE BackupInv'
<1>1. /\ server[c].pc = "lock" /\ lock = None /\ lock' = c /\ holder' = c
      /\ server' = [server EXCEPT ![c].pc = "entry"]
      /\ ServerOnly /\ UNCHANGED <<mirror, conn, toServer, toClient>>
    BY DEF TakeLock, Step
<1>2. SessionOk(c) /\ TypePart /\ client[c] \in ClientSet /\ server[c] \in ServerSet
    BY DEF BackupInv, TypePart
<1>3. PICK s \in ServerSet : s = [server[c] EXCEPT !.pc = "entry"]
    BY <1>2 DEF ServerSet
<1>4. server' = [server EXCEPT ![c] = s]
    BY <1>1, <1>3
<1>5. s.pc = "entry" /\ s.list = server[c].list /\ s.ioError = server[c].ioError /\ s.i = 1
    BY <1>1, <1>2, <1>3 DEF ServerSet, SessionOk, PlacePart
<1>6. server'[c] = s /\ toServer'[c] = toServer[c] /\ toClient'[c] = toClient[c] /\ client' = client
    BY <1>1, <1>2, <1>4 DEF TypePart, ServerOnly
<1>7. OthersSame(c) /\ RowsBy(c) /\ holder' \in {holder, c}
    BY <1>1, <1>2, <1>4 DEF OthersSame, Same, RowsBy, TypePart, ServerOnly
<1>8. TypePart' /\ LockPart'
    <2>1. Holding(c)'
        BY <1>5, <1>6 DEF Holding
    <2>2. LockPart'
        BY <1>1, <1>7, <2>1, LockMoves DEF OthersSame, Same
    <2>3. server' \in [Clients -> ServerSet]
        BY <1>2, <1>4 DEF TypePart
    <2> QED
        BY <1>1, <1>2, <2>2, <2>3 DEF TypePart, ServerOnly
<1>9. StampPart(c)' /\ ListPart(c)'
    BY <1>1, ListKept DEF Live
<1>10. PlacePart(c)' /\ StreamPart(c)'
    BY <1>1, <1>2, <1>5, <1>6 DEF SessionOk, PlacePart, StreamPart, Serving, Live
<1>11. AnswerPart(c)'
    BY <1>1, <1>2, <1>5, <1>6 DEF SessionOk, AnswerPart, Live, NoDone
<1>12. ProgressPart(c)'
    <2>1. \A k \in DOMAIN client[c].list : ~(k < 1)
        BY <1>2 DEF ClientSet
    <2> QED
        BY <1>1, <1>2, <1>5, <1>6, <2>1 DEF SessionOk, ProgressPart, Live, Running
<1> QED
    BY <1>7, <1>8, <1>9, <1>10, <1>11, <1>12, StepOf DEF SessionOk

\* The entry a session is at.
LEMMA TheEntry ==
    ASSUME BackupInv, NEW c \in Clients, AtEntry(c) \/ server[c].pc \in {"echo", "data"}
    PROVE  /\ server[c].i \in DOMAIN client[c].list /\ server[c].list = client[c].list
           /\ Entry(c) = client[c].list[server[c].i] /\ Entry(c) \in Entries
           /\ Live(c) /\ Holding(c) /\ EntryOk(c, Entry(c))
<1>1. PlacePart(c) /\ ListPart(c) /\ server[c].i \in Nat \ {0} /\ client[c].list \in Seq(Entries)
    BY DEF BackupInv, TypePart, SessionOk, ClientSet, ServerSet
<1>2. Live(c) /\ Holding(c) /\ server[c].pc # "list"
    BY DEF AtEntry, Live, Holding
<1>3. server[c].list = client[c].list
    BY <1>1, <1>2 DEF PlacePart
<1>4. server[c].i \in DOMAIN client[c].list
    BY <1>1, <1>3 DEF PlacePart, AtEntry
<1>5. client[c].list[server[c].i] \in Entries
    BY <1>1, <1>4
<1> QED
    BY <1>1, <1>2, <1>3, <1>4, <1>5 DEF Entry, ListPart

\* A client gets a request: it has had no other, and the stream back is empty.
LEMMA RequestStep ==
    ASSUME BackupInv, NEW c \in Clients, AtEntry(c),
           NEW pc \in {"echo", "data"}, NEW sums \in Blocks \cup {None},
           pc = "echo" => sums = None /\ (Entry(c).kind # "file" \/ client[c].dry),
           pc = "data" => sums = Basis(c) /\ Entry(c).kind = "file" /\ ~client[c].dry,
           ServerSends(c, ItemMsg(server[c].i, sums)), Step(c, pc),
           ServerOnly, UNCHANGED <<mirror, conn, toServer, lock, holder>>
    PROVE  BackupInv'
<1>1. SessionOk(c) /\ TypePart /\ client[c] \in ClientSet /\ server[c] \in ServerSet /\ server[c].pc = "entry"
    BY DEF BackupInv, TypePart, AtEntry
<1>2. PICK m \in Answers : /\ m = ItemMsg(server[c].i, sums) /\ m.type = "item"
                           /\ m.ndx = server[c].i /\ m.sums = sums
    <2>1. server[c].i \in Nat \ {0}
        BY <1>1 DEF ServerSet
    <2> QED
        BY <2>1 DEF ItemMsg, Answers
<1>3. PICK s \in ServerSet : s = [server[c] EXCEPT !.pc = pc]
    BY <1>1 DEF ServerSet
<1>4. server' = [server EXCEPT ![c] = s]
    BY <1>3 DEF Step
<1>5. /\ s.pc = pc /\ s.list = server[c].list /\ s.ioError = server[c].ioError /\ s.i = server[c].i
      /\ s.todo = server[c].todo
    BY <1>1, <1>3 DEF ServerSet
<1>6. server'[c] = s /\ toServer'[c] = toServer[c] /\ client' = client /\ source' = source /\ toServer[c] = << >>
    BY <1>1, <1>4 DEF TypePart, ServerOnly, SessionOk, StreamPart
<1>7. StampPart(c)' /\ ListPart(c)'
    BY <1>1, ListKept DEF Live
<1>8. server[c].i \in DOMAIN client[c].list /\ Entry(c) = client[c].list[server[c].i]
    BY TheEntry
<1>9. Entry(c)' = Entry(c) /\ Basis(c)' = Basis(c)
    BY <1>5, <1>6 DEF Entry, Basis, UseDelta, OldRow
<1>10. PlacePart(c)'
    BY <1>1, <1>5, <1>6, <1>8 DEF SessionOk, PlacePart, Live
<1>11. StreamPart(c)'
    BY <1>5, <1>6 DEF StreamPart, Serving
<1>12. \A k \in DOMAIN toClient[c] : toClient[c][k].type \notin {"item", "done"}
    BY <1>1 DEF SessionOk, AnswerPart, Serving, Live, NoDone
<1>13. \A k \in DOMAIN toClient'[c] :
         \/ toClient'[c][k].type \notin {"item", "done"}
         \/ k = Len(toClient'[c]) /\ toClient'[c][k] = m
    BY <1>2, <1>12, ServerWrites
<1>14. AnswerPart(c)'
    <2>1. NoDone(c)'
        BY <1>2, <1>13 DEF NoDone
    <2>2. \/ client'[c].pc = "sending" /\ client'[c].phase = 0
          \/ client'[c].pc = "ended" /\ client'[c].rc # "ok"
        BY <1>1, <1>6 DEF SessionOk, AnswerPart, Live
    <2>3. ASSUME NEW k \in DOMAIN toClient'[c], toClient'[c][k].type = "item"
          PROVE  k = Len(toClient'[c]) /\ toClient'[c][k] = m
        BY <1>13, <2>3
    <2>4. s.pc \in {"echo", "data"} /\ (s.pc = "echo" => sums = None) /\ (s.pc = "data" => sums = Basis(c))
        BY <1>5
    <2> QED
        BY <1>2, <1>5, <1>6, <1>9, <2>1, <2>2, <2>3, <2>4 DEF AnswerPart
<1>15. ProgressPart(c)'
    <2>1. Live(c)' /\ Live(c) /\ Holding(c)
        BY <1>1, <1>5, <1>6 DEF Live, Holding
    <2>2. s.pc \notin {"delete", "goodbye", "refused"}
        BY <1>5
    <2>3. Counts(c)' = Counts(c) /\ \A k \in DOMAIN client[c].list : Right(c, client[c].list[k])' <=> Right(c, client[c].list[k])
        BY <1>6 DEF Counts, Right
    <2> QED
        BY <1>1, <1>5, <1>6, <2>1, <2>2, <2>3 DEF SessionOk, ProgressPart, Running
<1>16. Holding(c)' <=> Holding(c)
    BY <1>1, <1>5, <1>6 DEF Holding
<1>17. RowsBy(c) /\ mirror' \in [Paths -> Rows \cup {None}]
    BY <1>1 DEF RowsBy, TypePart
<1> QED
    BY <1>2, <1>4, <1>7, <1>10, <1>11, <1>14, <1>15, <1>16, <1>17, ServerGoes DEF SessionOk

\* The row of the session's entry is written, with contents the client had.
WritesRow(c, blocks) ==
    /\ Entry(c).kind # "special"
    /\ blocks \in client[c].seen[Entry(c).path]
    /\ source[c][Entry(c).path] # None /\ source[c][Entry(c).path].mtime = Entry(c).mtime =>
         blocks = source[c][Entry(c).path].blocks
    /\ mirror' = [mirror EXCEPT ![Entry(c).path] = RowOf(Entry(c), blocks)]

LEMMA RowWritten ==
    ASSUME BackupInv, NEW c \in Clients, server[c].pc \in {"echo", "data"}, NEW e, e = Entry(c),
           NEW blocks, WritesRow(c, blocks), ServerOnly, Live(c)' => Live(c)
    PROVE  /\ mirror' \in [Paths -> Rows \cup {None}] /\ RowsBy(c)
           /\ StampPart(c)' /\ ListPart(c)' /\ Right(c, e)'
           /\ \A k \in DOMAIN client[c].list :
                k # server[c].i /\ Right(c, client[c].list[k]) => Right(c, client[c].list[k])'
           /\ lock = c /\ e.path \in Subtree[c] /\ RowOf(e, blocks) # None
           /\ RowOf(e, blocks).blocks = blocks
<1>1. SessionOk(c) /\ TypePart /\ LockPart /\ client[c] \in ClientSet
    BY DEF BackupInv, TypePart
<1>2. e = Entry(c)
    OBVIOUS
<1>3. /\ server[c].i \in DOMAIN client[c].list /\ e = client[c].list[server[c].i] /\ e \in Entries
      /\ Live(c) /\ Holding(c) /\ EntryOk(c, e)
    BY <1>2, TheEntry
<1>4. PICK p \in Paths : p = e.path
    BY <1>3 DEF Entries
<1>5. PICK row : row = RowOf(e, blocks)
    OBVIOUS
<1>6. row.kind = e.kind /\ row.mtime = e.mtime /\ row.blocks = blocks /\ row.size = e.size
    BY <1>5 DEF RowOf
<1>7. blocks \in client[c].seen[p] /\ e.kind # "special"
      /\ (source[c][p] # None /\ source[c][p].mtime = e.mtime => blocks = source[c][p].blocks)
    BY <1>2, <1>4 DEF WritesRow
<1>8. row \in Rows
    <2>1. blocks \in Blocks
        BY <1>1, <1>4, <1>7 DEF ClientSet
    <2>2. e.kind \in {"file", "static"} /\ e.size \in Nat /\ e.mtime \in Clients \X Nat
        BY <1>3, <1>7 DEF Entries, Kinds, Stamps
    <2> QED
        BY <1>5, <2>1, <2>2 DEF RowOf, Rows, Blocks
<1>9. row # None
    BY <1>8, NoneAssumption
<1>10. mirror' = [mirror EXCEPT ![p] = row]
    BY <1>2, <1>4, <1>5 DEF WritesRow
<1>11. mirror'[p] = row /\ \A r \in Paths \ {p} : mirror'[r] = mirror[r]
    BY <1>1, <1>10 DEF TypePart
<1>12. mirror' \in [Paths -> Rows \cup {None}]
    BY <1>1, <1>8, <1>10 DEF TypePart
<1>13. e.mtime[1] = c /\ e.mtime[2] <= edits[c]
    BY <1>3 DEF EntryOk
<1>14. RowsBy(c) /\ lock = c
    <2>1. lock = c
        BY <1>1, <1>3 DEF LockPart
    <2> QED
        BY <1>6, <1>11, <1>13, <2>1 DEF RowsBy
<1>15. source' = source /\ edits' = edits /\ client' = client
    BY DEF ServerOnly
<1>16. StampPart(c)'
    <2> SUFFICES ASSUME NEW r \in Paths
                 PROVE  /\ source[c][r] # None =>
                            /\ r \in Subtree[c] /\ source[c][r].mtime[1] = c /\ source[c][r].mtime[2] <= edits[c]
                            /\ source[c][r].kind # "file" => source[c][r].blocks = << >>
                            /\ mirror'[r] # None /\ mirror'[r].mtime = source[c][r].mtime
                                  => mirror'[r].blocks = source[c][r].blocks
                            /\ Running(c) => source[c][r].blocks \in client[c].seen[r]
                        /\ mirror'[r] # None /\ mirror'[r].mtime[1] = c => mirror'[r].mtime[2] <= edits[c]
        BY <1>15 DEF StampPart, Running
    <2>1. StampPart(c)
        BY <1>1 DEF SessionOk
    <2>2. CASE r = p
        BY <1>6, <1>7, <1>11, <1>13, <2>1, <2>2 DEF StampPart
    <2>3. CASE r # p
        BY <1>11, <2>1, <2>3 DEF StampPart
    <2> QED
        BY <2>2, <2>3
<1>17. ASSUME NEW k \in DOMAIN client[c].list
       PROVE  /\ EntryOk(c, client[c].list[k])'
              /\ k # server[c].i => client[c].list[k].path # p
              /\ k # server[c].i /\ Right(c, client[c].list[k]) => Right(c, client[c].list[k])'
    <2>1. PICK f : f = client[c].list[k]
        OBVIOUS
    <2>2. EntryOk(c, f) /\ f \in Entries
        BY <1>1, <1>3, <2>1 DEF SessionOk, ListPart, ClientSet
    <2>3. f.path \in Paths
        BY <2>2 DEF Entries
    <2>4. EntryOk(c, f)'
        BY <1>6, <1>7, <1>11, <1>15, <2>2, <2>3 DEF EntryOk
    <2>5. k # server[c].i => f.path # p
        BY <1>1, <1>3, <1>4, <2>1 DEF SessionOk, ListPart
    <2>6. f.path # p /\ Right(c, f) => Right(c, f)'
        BY <1>11, <1>15, <2>3 DEF Right
    <2> QED
        BY <1>15, <2>1, <2>4, <2>5, <2>6
<1>18. ListPart(c)'
    BY <1>1, <1>3, <1>15, <1>17 DEF SessionOk, ListPart, Listed
<1>19. Right(c, e)'
    BY <1>4, <1>6, <1>7, <1>9, <1>11, <1>15 DEF Right
<1>20. e.path \in Subtree[c] /\ RowOf(e, blocks) # None /\ RowOf(e, blocks).blocks = blocks
    BY <1>3, <1>5, <1>6, <1>9 DEF EntryOk
<1> QED
    BY <1>12, <1>14, <1>16, <1>17, <1>18, <1>19, <1>20

\* The session is done with its entry and goes on to the next.
LEMMA AdvanceStep ==
    ASSUME BackupInv, NEW c \in Clients, NextEntry(c), ServerOnly, UNCHANGED <<conn, lock, holder>>,
           \/ AtEntry(c) /\ UNCHANGED toServer
           \/ server[c].pc \in {"echo", "data"} /\ toServer[c] # << >> /\ ServerReads(c),
           toClient' = toClient \/ ServerSends(c, Msg("corrupt")),
           \/ UNCHANGED mirror /\ (Counts(c) => Right(c, Entry(c)))
           \/ server[c].pc \in {"echo", "data"} /\ \E blocks : WritesRow(c, blocks)
    PROVE  BackupInv'
<1>1. SessionOk(c) /\ TypePart /\ client[c] \in ClientSet /\ server[c] \in ServerSet
    BY DEF BackupInv, TypePart
<1>2. PICK e : e = Entry(c)
    OBVIOUS
<1>3. /\ server[c].i \in DOMAIN client[c].list /\ server[c].list = client[c].list
      /\ e = client[c].list[server[c].i] /\ Live(c) /\ Holding(c)
    BY <1>2, TheEntry
<1>4. PICK n \in Nat \ {0} : n = server[c].i + 1
    BY <1>1 DEF ServerSet
<1>5. PICK s \in ServerSet : s = [server[c] EXCEPT !.pc = "entry", !.i = n]
    BY <1>1 DEF ServerSet
<1>6. server' = [server EXCEPT ![c] = s]
    BY <1>1, <1>4, <1>5 DEF NextEntry, TypePart
<1>7. /\ s.pc = "entry" /\ s.list = server[c].list /\ s.ioError = server[c].ioError /\ s.i = n
      /\ s.todo = server[c].todo
    BY <1>1, <1>5 DEF ServerSet
<1>8. server'[c] = s /\ client' = client /\ source' = source
    BY <1>1, <1>6 DEF TypePart, ServerOnly
<1>9. Live(c)' /\ Holding(c)'
    BY <1>7, <1>8 DEF Live, Holding
<1>10. toServer'[c] = << >>
    <2>1. CASE AtEntry(c) /\ UNCHANGED toServer
        BY <1>1, <2>1 DEF AtEntry, SessionOk, StreamPart
    <2>2. CASE server[c].pc \in {"echo", "data"} /\ toServer[c] # << >> /\ ServerReads(c)
        <3>1. PICK m : toServer[c] = <<m>>
            BY <1>1, <2>2 DEF SessionOk, StreamPart
        <3>2. toServer'[c] = Tail(toServer[c])
            BY <1>1, <2>2 DEF TypePart, ServerReads
        <3> QED
            BY <3>1, <3>2, Single
    <2> QED
        BY <2>1, <2>2
<1>11. \A k \in DOMAIN toClient[c] : toClient[c][k].type \notin {"item", "done"}
    <2>1. AnswerPart(c)
        BY <1>1 DEF SessionOk
    <2>2. NoDone(c)
        BY <1>3, <2>1 DEF AnswerPart
    <2>3. ~(server[c].pc \in {"echo", "data"} /\ toServer[c] = << >>) /\ Serving(c)
        BY <1>3 DEF AtEntry, Serving, Live
    <2>4. \A k \in DOMAIN toClient[c] : toClient[c][k].type # "item"
        BY <2>1, <2>3 DEF AnswerPart
    <2> QED
        BY <2>2, <2>4 DEF NoDone
<1>12. PICK corrupt \in Answers : corrupt = Msg("corrupt") /\ corrupt.type = "corrupt"
    BY DEF Msg, Answers
<1>13. \A k \in DOMAIN toClient'[c] : toClient'[c][k].type \notin {"item", "done"}
    BY <1>11, <1>12, ServerWrites
<1>14. /\ mirror' \in [Paths -> Rows \cup {None}] /\ RowsBy(c)
       /\ StampPart(c)' /\ ListPart(c)' /\ (Counts(c) => Right(c, e)')
       /\ \A k \in DOMAIN client[c].list :
            k # server[c].i /\ Right(c, client[c].list[k]) => Right(c, client[c].list[k])'
    <2>1. CASE UNCHANGED mirror /\ (Counts(c) => Right(c, e))
        <3>1. StampPart(c)' /\ ListPart(c)'
            BY <1>3, <2>1, ListKept
        <3>2. \A k \in DOMAIN client[c].list : Right(c, client[c].list[k]) => Right(c, client[c].list[k])'
            BY <1>8, <2>1 DEF Right
        <3>3. Right(c, e) => Right(c, e)'
            BY <1>8, <2>1 DEF Right
        <3> QED
            BY <1>1, <2>1, <3>1, <3>2, <3>3 DEF RowsBy, TypePart
    <2>2. CASE server[c].pc \in {"echo", "data"} /\ \E blocks : WritesRow(c, blocks)
        BY <1>2, <1>3, <2>2, RowWritten
    <2> QED
        BY <1>2, <2>1, <2>2
<1>15. PlacePart(c)'
    <2>1. server[c].pc # "list" /\ PlacePart(c)
        BY <1>1 DEF AtEntry, SessionOk
    <2>2. server[c].ioError = client[c].ioError
        BY <1>3, <2>1 DEF PlacePart
    <2> QED
        BY <1>3, <1>7, <1>8, <2>2 DEF PlacePart
<1>16. StreamPart(c)'
    BY <1>7, <1>8, <1>10 DEF StreamPart, Serving
<1>17. AnswerPart(c)'
    <2>1. NoDone(c)'
        BY <1>13 DEF NoDone
    <2>2. \/ client'[c].pc = "sending" /\ client'[c].phase = 0
          \/ client'[c].pc = "ended" /\ client'[c].rc # "ok"
        BY <1>1, <1>3, <1>8 DEF SessionOk, AnswerPart
    <2> QED
        BY <1>7, <1>8, <1>13, <2>1, <2>2 DEF AnswerPart
<1>18. ProgressPart(c)'
    <2>1. Counts(c)' <=> Counts(c)
        BY <1>8 DEF Counts
    <2>2. ASSUME Counts(c), NEW k \in DOMAIN client[c].list, k < n PROVE Right(c, client[c].list[k])'
        <3>1. CASE k = server[c].i
            <4>1. Right(c, e)'
                BY <1>14, <2>2
            <4>2. e = client'[c].list[k]
                BY <1>3, <1>8, <3>1
            <4> QED
                BY <1>8, <4>1, <4>2
        <3>2. CASE k # server[c].i
            <4>1. k < server[c].i
                BY <1>1, <1>4, <2>2, <3>2 DEF ClientSet, ServerSet
            <4> QED
                BY <1>1, <1>3, <1>14, <2>2, <3>2, <4>1 DEF SessionOk, ProgressPart
        <3> QED
            BY <3>1, <3>2
    <2>3. \A k \in DOMAIN client[c].list : Counts(c) /\ k < n => Right(c, client[c].list[k])'
        BY <2>2
    <2>4. ~Running(c)' /\ client'[c].rc = "ok" => FALSE
        BY <1>1, <1>3, <1>8 DEF SessionOk, ProgressPart, Running
    <2> QED
        BY <1>7, <1>8, <1>9, <2>1, <2>3, <2>4 DEF ProgressPart
<1>19. Holding(c)' <=> Holding(c)
    BY <1>3, <1>9
<1>20. /\ toServer' = toServer \/ ServerReads(c)
       /\ toClient' = toClient \/ \E m \in Answers : ServerSends(c, m)
    BY <1>12
<1> QED
    BY <1>6, <1>14, <1>15, <1>16, <1>17, <1>18, <1>19, <1>20, ServerGoes DEF SessionOk

\* A quick-check hit: the row has the mtime of the entry, so it has its contents.
LEMMA QuickCheckStep == ASSUME BackupInv, NEW c \in Clients, QuickCheck(c) PROVE BackupInv'
<1>1. /\ AtEntry(c) /\ Entry(c).kind = "file" /\ QuickHit(c) /\ NextEntry(c)
      /\ ServerOnly /\ UNCHANGED <<mirror, conn, toServer, toClient, lock, holder>>
    BY DEF QuickCheck
<1>2. EntryOk(c, Entry(c))
    BY <1>1, TheEntry
<1>3. Right(c, Entry(c))
    BY <1>1, <1>2 DEF EntryOk, Right, QuickHit, OldRow
<1> QED
    BY <1>1, <1>3, AdvanceStep

\* A directory, a link or a special file is offered.
LEMMA DriveStaticStep == ASSUME BackupInv, NEW c \in Clients, DriveStatic(c) PROVE BackupInv'
<1>1. /\ AtEntry(c) /\ Entry(c).kind # "file"
      /\ ServerSends(c, ItemMsg(server[c].i, None)) /\ Step(c, "echo")
      /\ ServerOnly /\ UNCHANGED <<mirror, conn, toServer, lock, holder>>
    BY DEF DriveStatic
<1> QED
    BY <1>1, RequestStep

\* A file is asked for.
LEMMA RequestFileStep == ASSUME BackupInv, NEW c \in Clients, RequestFile(c) PROVE BackupInv'
<1>1. AtEntry(c) /\ Entry(c).kind = "file" /\ ServerOnly /\ UNCHANGED <<mirror, holder>>
    BY DEF RequestFile
<1>2. client[c].dry \in BOOLEAN
    BY DEF BackupInv, TypePart, ClientSet
<1>3. CASE Leave(c, "failed") /\ UNCHANGED toClient
    <2>1. faults' \in 0 .. MaxFaults /\ Serving(c)
        BY <1>1 DEF BackupInv, TypePart, ServerOnly, AtEntry, Serving
    <2> QED
        BY <1>1, <1>3, <2>1, LeaveStep DEF ServerOnly
<1>4. CASE /\ client[c].dry /\ ServerSends(c, ItemMsg(server[c].i, None)) /\ Step(c, "echo")
           /\ UNCHANGED <<conn, toServer, lock>>
    BY <1>1, <1>4, RequestStep
<1>5. CASE /\ ~client[c].dry /\ ServerSends(c, ItemMsg(server[c].i, Basis(c))) /\ Step(c, "data")
           /\ UNCHANGED <<conn, toServer, lock>>
    <2>1. PICK b \in Blocks \cup {None} : b = Basis(c)
        BY <1>1, TheEntry, BasisBlocks
    <2> QED
        BY <1>1, <1>5, <2>1, RequestStep
<1> QED
    BY <1>2, <1>3, <1>4, <1>5 DEF RequestFile

\* The echo: applyStaticEntry, never in a dry run.
LEMMA EchoRow ==
    ASSUME BackupInv, NEW c \in Clients, ReceiveEcho(c)
    PROVE  /\ server[c].pc = "echo" /\ toServer[c] # << >> /\ ServerReads(c) /\ NextEntry(c)
           /\ ServerOnly /\ UNCHANGED <<conn, toClient, lock, holder>>
           /\ \/ UNCHANGED mirror /\ (Counts(c) => Right(c, Entry(c)))
              \/ ~client[c].dry /\ WritesRow(c, << >>)
<1>1. server[c].pc = "echo" /\ toServer[c] # << >> /\ ServerOnly /\ UNCHANGED holder
    BY DEF ReceiveEcho
<1>2. SessionOk(c) /\ TypePart
    BY DEF BackupInv
<1>3. Head(toServer[c]).type = "echo"
    <2>1. toServer[c] = <<Msg("echo")>>
        BY <1>1, <1>2 DEF SessionOk, StreamPart
    <2> QED
        BY <2>1, Single DEF Msg
<1>4. /\ ServerReads(c) /\ NextEntry(c) /\ UNCHANGED <<conn, toClient, lock>>
      /\ mirror' = IF Entry(c).kind = "static" /\ ~client[c].dry
                   THEN [mirror EXCEPT ![Entry(c).path] = RowOf(Entry(c), << >>)] ELSE mirror
    BY <1>3 DEF ReceiveEcho
<1>5. /\ Entry(c) \in Entries /\ EntryOk(c, Entry(c))
      /\ Entry(c).kind # "file" \/ client[c].dry
    <2>1. PlacePart(c)
        BY <1>2 DEF SessionOk
    <2> QED
        BY <1>1, <2>1, TheEntry DEF PlacePart
<1>6. CASE Entry(c).kind = "static" /\ ~client[c].dry
    <2>1. PICK p \in Paths : p = Entry(c).path
        BY <1>5 DEF Entries
    <2>2. << >> \in client[c].seen[p]
        BY <1>5, <1>6, <2>1 DEF EntryOk
    <2>3. source[c][p] # None /\ source[c][p].mtime = Entry(c).mtime => source[c][p].blocks = << >>
        BY <1>2, <1>5, <1>6, <2>1 DEF SessionOk, StampPart, EntryOk
    <2>4. WritesRow(c, << >>)
        BY <1>4, <1>6, <2>1, <2>2, <2>3 DEF WritesRow
    <2> QED
        BY <1>1, <1>4, <1>6, <2>4
<1>7. CASE ~(Entry(c).kind = "static" /\ ~client[c].dry)
    <2>1. Counts(c) => Entry(c).kind = "special"
        BY <1>5, <1>7 DEF Counts, Entries, Kinds
    <2>2. Counts(c) => Right(c, Entry(c))
        BY <2>1 DEF Right
    <2> QED
        BY <1>1, <1>4, <1>7, <2>2
<1> QED
    BY <1>6, <1>7

LEMMA ReceiveEchoStep == ASSUME BackupInv, NEW c \in Clients, ReceiveEcho(c) PROVE BackupInv'
BY EchoRow, AdvanceStep

\* The file, whole or damaged, or none.
LEMMA FileRow ==
    ASSUME BackupInv, NEW c \in Clients, ReceiveFile(c)
    PROVE  /\ server[c].pc = "data" /\ toServer[c] # << >> /\ ServerOnly /\ UNCHANGED holder
           /\ \/ MatchesGoBack /\ Leave(c, "refused") /\ UNCHANGED <<mirror, toClient>>
              \/ /\ ServerReads(c) /\ NextEntry(c) /\ UNCHANGED <<conn, lock>>
                 /\ toClient' = toClient \/ ServerSends(c, Msg("corrupt"))
                 /\ \/ UNCHANGED mirror /\ ~Counts(c)
                    \/ ~client[c].dry /\ \E blocks : WritesRow(c, blocks)
<1>1. server[c].pc = "data" /\ toServer[c] # << >> /\ ServerOnly /\ UNCHANGED holder
    BY DEF ReceiveFile
<1>2. SessionOk(c) /\ TypePart
    BY DEF BackupInv
<1>3. PICK m : toServer[c] = <<m>> /\ FileAnswer(c, m, Entry(c), Basis(c))
    BY <1>1, <1>2 DEF SessionOk, StreamPart
<1>4. m = Head(toServer[c])
    BY <1>3, Single
<1>5. \/ m.type = "data" /\ AcceptMatches(m.tokens) /\ Store(c, m)
      \/ m.type = "nosend" /\ m.ndx = server[c].i /\ Skip(c, m)
      \/ /\ ~(m.type = "data" /\ AcceptMatches(m.tokens))
         /\ ~(m.type = "nosend" /\ m.ndx = server[c].i) /\ Refuse(c)
    BY <1>4 DEF ReceiveFile
<1>6. CASE m.type = "data" /\ AcceptMatches(m.tokens) /\ Store(c, m)
    <2>1. ServerReads(c) /\ NextEntry(c) /\ UNCHANGED <<conn, lock>>
        BY <1>6 DEF Store
    <2>2. CASE m.good
        <3>1. /\ mirror' = [mirror EXCEPT ![Entry(c).path] = RowOf(Entry(c), Rebuild(m.tokens, Basis(c)))]
              /\ UNCHANGED toClient
            BY <1>6, <2>2 DEF Store
        <3>2. /\ Rebuild(m.tokens, Basis(c)) \in client[c].seen[Entry(c).path]
              /\ source[c][Entry(c).path] # None /\ source[c][Entry(c).path].mtime = Entry(c).mtime =>
                   Rebuild(m.tokens, Basis(c)) = source[c][Entry(c).path].blocks
            BY <1>3, <1>6, <2>2 DEF FileAnswer
        <3>3. Entry(c).kind = "file" /\ ~client[c].dry
            <4>1. PlacePart(c)
                BY <1>2 DEF SessionOk
            <4> QED
                BY <1>1, <4>1, TheEntry DEF PlacePart
        <3>4. WritesRow(c, Rebuild(m.tokens, Basis(c)))
            BY <3>1, <3>2, <3>3 DEF WritesRow
        <3> QED
            BY <1>1, <2>1, <3>1, <3>3, <3>4
    <2>3. CASE ~m.good
        <3>1. UNCHANGED mirror /\ ServerSends(c, Msg("corrupt"))
            BY <1>6, <2>3 DEF Store
        <3>2. ~Counts(c)
            BY <1>3, <1>6, <2>3 DEF FileAnswer, Counts
        <3> QED
            BY <1>1, <2>1, <3>1, <3>2
    <2> QED
        BY <2>2, <2>3
<1>7. CASE m.type = "nosend" /\ m.ndx = server[c].i /\ Skip(c, m)
    <2>1. ServerReads(c) /\ NextEntry(c) /\ UNCHANGED <<mirror, toClient, conn, lock>>
        BY <1>7 DEF Skip
    <2>2. ~Counts(c)
        BY <1>3, <1>7 DEF FileAnswer, Counts
    <2> QED
        BY <1>1, <2>1, <2>2
<1>8. CASE /\ ~(m.type = "data" /\ AcceptMatches(m.tokens))
           /\ ~(m.type = "nosend" /\ m.ndx = server[c].i) /\ Refuse(c)
    <2>1. MatchesGoBack
        BY <1>3, <1>8 DEF FileAnswer
    <2>2. Leave(c, "refused") /\ UNCHANGED <<mirror, toClient>>
        BY <1>8 DEF Refuse
    <2> QED
        BY <1>1, <2>1, <2>2
<1> QED
    BY <1>5, <1>6, <1>7, <1>8

LEMMA ReceiveFileStep == ASSUME BackupInv, NEW c \in Clients, ReceiveFile(c) PROVE BackupInv'
<1>1. server[c].pc = "data" /\ toServer[c] # << >> /\ ServerOnly /\ UNCHANGED holder
    BY FileRow
<1>2. CASE MatchesGoBack /\ Leave(c, "refused") /\ UNCHANGED <<mirror, toClient>>
    <2>1. faults' \in 0 .. MaxFaults /\ Serving(c)
        BY <1>1 DEF BackupInv, TypePart, ServerOnly, Serving
    <2> QED
        BY <1>1, <1>2, <2>1, LeaveStep DEF ServerOnly
<1>3. CASE /\ ServerReads(c) /\ NextEntry(c) /\ UNCHANGED <<conn, lock>>
           /\ toClient' = toClient \/ ServerSends(c, Msg("corrupt"))
           /\ \/ UNCHANGED mirror /\ ~Counts(c)
              \/ \E blocks : WritesRow(c, blocks)
    BY <1>1, <1>3, AdvanceStep
<1> QED
    BY <1>2, <1>3, FileRow

\* Past the list: the rows that --delete may remove are those not listed.
LEMMA StartDeleteStep == ASSUME BackupInv, NEW c \in Clients, StartDelete(c) PROVE BackupInv'
<1>1. /\ server[c].pc = "entry" /\ server[c].i > Len(server[c].list)
      /\ ServerOnly /\ UNCHANGED <<mirror, conn, toServer, toClient, lock, holder>>
    BY DEF StartDelete
<1>2. SessionOk(c) /\ TypePart /\ client[c] \in ClientSet /\ server[c] \in ServerSet
    BY DEF BackupInv, TypePart
<1>3. server[c].list = client[c].list /\ server[c].ioError = client[c].ioError /\ Live(c) /\ Holding(c)
    BY <1>1, <1>2 DEF SessionOk, PlacePart, Live, Holding
<1>4. \A k \in DOMAIN client[c].list : k < server[c].i
    BY <1>1, <1>2, <1>3 DEF ClientSet, ServerSet
<1>5. PICK rows : rows = Below(c) \ Listed(c)
    OBVIOUS
<1>6. IF client[c].delete /\ ~client[c].dry /\ ~client[c].ioError
      THEN server' = [server EXCEPT ![c].pc = "delete", ![c].todo = rows]
      ELSE server' = [server EXCEPT ![c].pc = "goodbye"]
    BY <1>3, <1>5 DEF StartDelete, Below, Listed, Step
<1>7. PICK s \in ServerSet :
        /\ server' = [server EXCEPT ![c] = s]
        /\ s.list = server[c].list /\ s.ioError = server[c].ioError /\ s.i = server[c].i
        /\ \/ s.pc = "delete" /\ s.todo = rows /\ client[c].delete /\ ~client[c].dry /\ ~client[c].ioError
           \/ s.pc = "goodbye" /\ ~(client[c].delete /\ ~client[c].dry /\ ~client[c].ioError)
    <2>1. CASE client[c].delete /\ ~client[c].dry /\ ~client[c].ioError
        <3>1. rows \in SUBSET Paths
            BY <1>5, SessionAssumption DEF Below
        <3>2. PICK s \in ServerSet : s = [server[c] EXCEPT !.pc = "delete", !.todo = rows]
            BY <1>2, <3>1 DEF ServerSet
        <3>3. server' = [server EXCEPT ![c] = s]
            BY <1>2, <1>6, <2>1, <3>2 DEF TypePart
        <3> QED
            BY <1>2, <2>1, <3>2, <3>3 DEF ServerSet
    <2>2. CASE ~(client[c].delete /\ ~client[c].dry /\ ~client[c].ioError)
        <3>1. PICK s \in ServerSet : s = [server[c] EXCEPT !.pc = "goodbye"]
            BY <1>2 DEF ServerSet
        <3>2. server' = [server EXCEPT ![c] = s]
            BY <1>6, <2>2, <3>1
        <3> QED
            BY <1>2, <2>2, <3>1, <3>2 DEF ServerSet
    <2> QED
        BY <2>1, <2>2
<1>8. /\ server'[c] = s /\ toServer'[c] = << >> /\ toClient'[c] = toClient[c]
      /\ client' = client /\ toServer[c] = << >>
    BY <1>1, <1>2, <1>7 DEF TypePart, ServerOnly, SessionOk, StreamPart
<1>9. StampPart(c)' /\ ListPart(c)'
    BY <1>1, <1>3, ListKept
<1>10. PlacePart(c)'
    BY <1>3, <1>7, <1>8 DEF PlacePart
<1>11. StreamPart(c)'
    BY <1>7, <1>8 DEF StreamPart, Serving
<1>12. AnswerPart(c)'
    <2>1. \A k \in DOMAIN toClient[c] : toClient[c][k].type # "item"
        BY <1>1, <1>2 DEF SessionOk, AnswerPart, Serving
    <2> QED
        BY <1>2, <1>3, <1>7, <1>8, <2>1 DEF SessionOk, AnswerPart, NoDone, Live
<1>13. ProgressPart(c)'
    <2>1. /\ Counts(c)' <=> Counts(c)
          /\ Below(c)' = Below(c) /\ Listed(c)' = Listed(c) /\ holder' = holder
          /\ \A k \in DOMAIN client[c].list : Right(c, client[c].list[k])' <=> Right(c, client[c].list[k])
        BY <1>1, <1>8 DEF Counts, Right, Below, Listed
    <2>2. Counts(c) => \A k \in DOMAIN client[c].list : Right(c, client[c].list[k])
        BY <1>2, <1>3, <1>4 DEF SessionOk, ProgressPart
    <2>3. CASE s.pc = "delete"
        <3>1. Below(c) \subseteq Listed(c) \cup rows /\ rows \subseteq Subtree[c] \ Listed(c)
            BY <1>5 DEF Below
        <3>2. /\ s.todo = rows /\ s.i = server[c].i
              /\ client[c].delete /\ ~client[c].dry /\ ~client[c].ioError
            BY <1>7, <2>3
        <3>3. Live(c)' /\ ~(~Running(c)' /\ client'[c].rc = "ok")
            BY <1>2, <1>3, <1>8, <2>3 DEF SessionOk, ProgressPart, Live, Running
        <3>4. Counts(c)' => \A k \in DOMAIN client'[c].list : Right(c, client[c].list[k])'
            BY <1>8, <2>1, <2>2
        <3>5. /\ server'[c].todo \subseteq Subtree[c] \ Listed(c)'
              /\ Below(c)' \subseteq Listed(c)' \cup server'[c].todo
            BY <1>8, <2>1, <3>1, <3>2
        <3>6. /\ client'[c].delete /\ ~client'[c].dry /\ ~client'[c].ioError
              /\ \A k \in DOMAIN client'[c].list : k < server'[c].i
            BY <1>4, <1>8, <3>2
        <3> QED
            BY <1>8, <2>3, <3>3, <3>4, <3>5, <3>6 DEF ProgressPart
    <2>4. CASE s.pc = "goodbye"
        <3>1. Converged(c)'
            BY <1>7, <1>8, <2>1, <2>2, <2>4 DEF Converged, Counts
        <3> QED
            BY <1>2, <1>3, <1>8, <2>4, <3>1 DEF SessionOk, ProgressPart, Live, Running
    <2> QED
        BY <1>7, <2>3, <2>4
<1>14. Holding(c)' <=> Holding(c)
    BY <1>3, <1>7, <1>8 DEF Holding
<1>15. RowsBy(c) /\ mirror' \in [Paths -> Rows \cup {None}]
    BY <1>1, <1>2 DEF RowsBy, TypePart
<1> QED
    BY <1>1, <1>7, <1>9, <1>10, <1>11, <1>12, <1>13, <1>14, <1>15, ServerGoes DEF SessionOk

\* One of them goes, or none is left.
LEMMA DeleteRowStep == ASSUME BackupInv, NEW c \in Clients, DeleteRow(c) PROVE BackupInv'
<1>1. /\ server[c].pc = "delete"
      /\ ServerOnly /\ UNCHANGED <<conn, toServer, toClient, lock, holder>>
    BY DEF DeleteRow
<1>2. SessionOk(c) /\ TypePart /\ LockPart /\ client[c] \in ClientSet /\ server[c] \in ServerSet
    BY DEF BackupInv, TypePart
<1>3. /\ server[c].list = client[c].list /\ server[c].ioError = client[c].ioError /\ Live(c) /\ Holding(c)
      /\ toServer[c] = << >> /\ lock = c
    BY <1>1, <1>2 DEF SessionOk, PlacePart, StreamPart, Live, Holding, LockPart
<1>4. /\ client[c].delete /\ ~client[c].dry /\ ~client[c].ioError
      /\ \A k \in DOMAIN client[c].list : k < server[c].i
      /\ server[c].todo \subseteq Subtree[c] \ Listed(c)
      /\ Below(c) \subseteq Listed(c) \cup server[c].todo
    BY <1>1, <1>2 DEF SessionOk, ProgressPart
<1>5. Counts(c) => \A k \in DOMAIN client[c].list : Right(c, client[c].list[k])
    BY <1>2, <1>3, <1>4 DEF SessionOk, ProgressPart
<1>6. client' = client /\ source' = source /\ edits' = edits /\ toServer'[c] = << >> /\ toClient'[c] = toClient[c]
    BY <1>1, <1>3 DEF ServerOnly
<1>7. \A k \in DOMAIN toClient[c] : toClient[c][k].type # "item"
    BY <1>1, <1>2 DEF SessionOk, AnswerPart, Serving
<1>8. CASE server[c].todo = {} /\ Step(c, "goodbye") /\ UNCHANGED mirror
    <2>1. PICK s \in ServerSet : s = [server[c] EXCEPT !.pc = "goodbye"]
        BY <1>2 DEF ServerSet
    <2>2. server' = [server EXCEPT ![c] = s]
        BY <1>8, <2>1 DEF Step
    <2>3. server'[c] = s /\ s.pc = "goodbye"
        BY <1>2, <2>1, <2>2 DEF TypePart, ServerSet
    <2>4. StampPart(c)' /\ ListPart(c)'
        BY <1>1, <1>3, <1>8, ListKept
    <2>5. PlacePart(c)' /\ StreamPart(c)'
        BY <1>6, <2>3 DEF PlacePart, StreamPart, Serving, Live
    <2>6. AnswerPart(c)'
        BY <1>6, <1>7, <2>3 DEF AnswerPart, Live
    <2>7. Converged(c)'
        BY <1>1, <1>4, <1>5, <1>6, <1>8 DEF Converged, Counts, Right, Below, Listed
    <2>8. ProgressPart(c)'
        BY <1>2, <1>3, <1>6, <2>3, <2>7 DEF SessionOk, ProgressPart, Live, Running
    <2>9. Holding(c)' <=> Holding(c)
        BY <1>3, <2>3 DEF Holding
    <2>10. RowsBy(c) /\ mirror' \in [Paths -> Rows \cup {None}]
        BY <1>2, <1>8 DEF RowsBy, TypePart
    <2> QED
        BY <1>1, <2>2, <2>4, <2>5, <2>6, <2>8, <2>9, <2>10, ServerGoes DEF SessionOk
<1>9. ASSUME NEW p \in server[c].todo, mirror' = [mirror EXCEPT ![p] = None],
             server' = [server EXCEPT ![c].todo = @ \ {p}]
      PROVE  BackupInv'
    <2>1. PICK s \in ServerSet : s = [server[c] EXCEPT !.todo = server[c].todo \ {p}]
        BY <1>2 DEF ServerSet
    <2>2. server' = [server EXCEPT ![c] = s]
        BY <1>2, <1>9, <2>1 DEF TypePart
    <2>3. /\ server'[c] = s /\ s.pc = "delete" /\ s.list = client[c].list /\ s.ioError = client[c].ioError
          /\ s.i = server[c].i /\ s.todo = server[c].todo \ {p}
        BY <1>1, <1>2, <1>3, <2>1, <2>2 DEF TypePart, ServerSet
    <2>4. p \in Paths /\ p \notin Listed(c)
        BY <1>4, SessionAssumption
    <2>5. mirror'[p] = None /\ \A r \in Paths \ {p} : mirror'[r] = mirror[r]
        BY <1>2, <1>9, <2>4 DEF TypePart
    <2>6. StampPart(c)'
        BY <1>2, <1>6, <2>5 DEF SessionOk, StampPart, Running
    <2>7. ASSUME NEW k \in DOMAIN client[c].list
          PROVE  /\ EntryOk(c, client[c].list[k])'
                 /\ Right(c, client[c].list[k]) => Right(c, client[c].list[k])'
        <3>1. PICK f : f = client[c].list[k]
            OBVIOUS
        <3>2. f \in Entries /\ EntryOk(c, f) /\ f.path # p
            BY <1>2, <1>3, <2>4, <3>1 DEF ClientSet, SessionOk, ListPart, Listed
        <3>3. f.path \in Paths
            BY <3>2 DEF Entries
        <3>4. mirror'[f.path] = mirror[f.path]
            BY <2>5, <3>2, <3>3
        <3>5. EntryOk(c, f)' /\ (Right(c, f) => Right(c, f)')
            BY <1>6, <3>2, <3>4 DEF EntryOk, Right
        <3> QED
            BY <1>6, <3>1, <3>5
    <2>8. ListPart(c)'
        BY <1>2, <1>3, <1>6, <2>7 DEF SessionOk, ListPart, Listed
    <2>9. PlacePart(c)' /\ StreamPart(c)'
        BY <1>6, <2>3 DEF PlacePart, StreamPart, Serving
    <2>10. AnswerPart(c)'
        BY <1>2, <1>3, <1>6, <1>7, <2>3 DEF SessionOk, AnswerPart, NoDone
    <2>11. Below(c)' \subseteq Listed(c) \cup s.todo
        <3>1. Below(c)' \subseteq Below(c) \ {p}
            BY <2>5, SessionAssumption DEF Below
        <3> QED
            BY <1>4, <2>3, <3>1
    <2>12. ProgressPart(c)'
        <3>1. Live(c)' /\ Listed(c)' = Listed(c) /\ (Counts(c)' <=> Counts(c)) /\ (Running(c)' <=> Running(c))
            BY <1>6, <2>3 DEF Live, Listed, Counts, Running
        <3>2. ~Running(c) /\ client[c].rc = "ok" => FALSE
            BY <1>2, <1>3 DEF SessionOk, ProgressPart
        <3> QED
            BY <1>4, <1>5, <1>6, <2>3, <2>7, <2>11, <3>1, <3>2 DEF ProgressPart
    <2>13. Holding(c)' <=> Holding(c)
        BY <1>3, <2>3 DEF Holding
    <2>14. RowsBy(c) /\ mirror' \in [Paths -> Rows \cup {None}]
        BY <1>2, <1>3, <1>9, <2>4, <2>5 DEF RowsBy, TypePart
    <2> QED
        BY <1>1, <2>2, <2>6, <2>8, <2>9, <2>10, <2>12, <2>13, <2>14, ServerGoes DEF SessionOk
<1> QED
    BY <1>8, <1>9 DEF DeleteRow

\* The goodbye of the session: messages only, the rows stay as they are.
LEMMA GoodbyeGoes ==
    ASSUME BackupInv, NEW c \in Clients, server[c].pc = "goodbye",
           server' = [server EXCEPT ![c].step = @ + 1],
           ServerOnly, UNCHANGED <<mirror, conn, lock, holder>>,
           \/ UNCHANGED toServer /\ ServerSends(c, Msg("done"))
           \/ UNCHANGED toClient /\ toServer[c] # << >> /\ ServerReads(c)
    PROVE  BackupInv'
<1>1. SessionOk(c) /\ TypePart /\ server[c] \in ServerSet
    BY DEF BackupInv, TypePart
<1>2. PICK n \in Nat : n = server[c].step + 1
    BY <1>1 DEF ServerSet
<1>3. PICK s \in ServerSet : s = [server[c] EXCEPT !.step = n]
    BY <1>1 DEF ServerSet
<1>4. server' = [server EXCEPT ![c] = s]
    BY <1>1, <1>2, <1>3 DEF TypePart
<1>5. server'[c] = s /\ s.pc = "goodbye" /\ client' = client
    BY <1>1, <1>3, <1>4 DEF TypePart, ServerSet, ServerOnly
<1>6. StampPart(c)' /\ ListPart(c)'
    BY <1>5, ListKept DEF Live
<1>7. PlacePart(c)'
    BY <1>5 DEF PlacePart, Live
<1>8. toServer'[c] \in Seq({Msg("done")})
    <2>1. toServer[c] \in Seq({Msg("done")})
        BY <1>1 DEF SessionOk, StreamPart
    <2>2. CASE toServer[c] # << >> /\ ServerReads(c)
        <3>1. PICK q \in Seq({Msg("done")}) : q = toServer[c]
            BY <2>1
        <3>2. toServer'[c] = Tail(q)
            BY <1>1, <2>2, <3>1 DEF TypePart, ServerReads
        <3> QED
            BY <2>2, <3>1, <3>2, Taken
    <2> QED
        BY <2>1, <2>2
<1>9. StreamPart(c)'
    BY <1>5, <1>8 DEF StreamPart, Serving
<1>10. PICK done \in Answers : done = Msg("done") /\ done.type = "done"
    BY DEF Msg, Answers
<1>11. AnswerPart(c)'
    <2>1. \A k \in DOMAIN toClient[c] : toClient[c][k].type # "item"
        BY <1>1 DEF SessionOk, AnswerPart, Serving
    <2>2. \A k \in DOMAIN toClient'[c] : toClient'[c][k].type # "item"
        BY <1>10, <2>1, ServerWrites
    <2> QED
        BY <1>5, <2>2 DEF AnswerPart, Live
<1>12. ProgressPart(c)'
    <2>1. Converged(c)'
        BY <1>1, <1>5 DEF SessionOk, ProgressPart, Converged, Counts, Right, Below, Listed
    <2> QED
        BY <1>1, <1>5, <2>1 DEF SessionOk, ProgressPart, Live, Running
<1>13. Holding(c)' <=> Holding(c)
    BY <1>5 DEF Holding
<1>14. RowsBy(c) /\ mirror' \in [Paths -> Rows \cup {None}]
    BY <1>1 DEF RowsBy, TypePart
<1>15. /\ toServer' = toServer \/ ServerReads(c)
       /\ toClient' = toClient \/ \E m \in Answers : ServerSends(c, m)
    BY <1>10
<1> QED
    BY <1>4, <1>6, <1>7, <1>9, <1>11, <1>12, <1>13, <1>14, <1>15, ServerGoes DEF SessionOk

\* processSession says DONE.
LEMMA SendDoneStep == ASSUME BackupInv, NEW c \in Clients, SendDone(c) PROVE BackupInv'
BY GoodbyeGoes DEF SendDone

\* processSession hears DONE: a client past its list says nothing else.
LEMMA ReceiveDoneStep == ASSUME BackupInv, NEW c \in Clients, ReceiveDone(c) PROVE BackupInv'
<1>1. server[c].pc = "goodbye" /\ toServer[c] # << >> /\ ServerOnly /\ UNCHANGED holder
    BY DEF ReceiveDone
<1>2. Head(toServer[c]).type = "done"
    <2>1. toServer[c] \in Seq({Msg("done")})
        BY <1>1 DEF BackupInv, SessionOk, StreamPart
    <2>2. Head(toServer[c]) \in {Msg("done")}
        BY <1>1, <2>1, Taken
    <2> QED
        BY <2>2 DEF Msg
<1>3. /\ ServerReads(c) /\ server' = [server EXCEPT ![c].step = @ + 1]
      /\ UNCHANGED <<mirror, conn, toClient, lock>>
    BY <1>2 DEF ReceiveDone
<1> QED
    BY <1>1, <1>3, GoodbyeGoes

\* The session ends well.
LEMMA FinishStep == ASSUME BackupInv, NEW c \in Clients, Finish(c) PROVE BackupInv'
<1>1. /\ server[c].pc = "goodbye" /\ server' = [server EXCEPT ![c] = NoServer] /\ lock' = None
      /\ conn' = [conn EXCEPT ![c] = IF @ = "open" THEN "closed" ELSE @]
      /\ toServer' = [toServer EXCEPT ![c] = << >>]
      /\ ServerOnly /\ UNCHANGED <<mirror, toClient, holder>>
    BY DEF Finish
<1>2. SessionOk(c) /\ TypePart /\ LockPart
    BY DEF BackupInv
<1>3. NoServer \in ServerSet /\ NoServer.pc = "done"
    <2>1. << >> \in Seq(Entries)
        OBVIOUS
    <2> QED
        BY <2>1 DEF NoServer, ServerSet
<1>4. PICK s \in ServerSet : s = NoServer /\ s.pc = "done"
    BY <1>3
<1>5. PICK v \in {"closed", "broken"} : v = IF conn[c] = "open" THEN "closed" ELSE conn[c]
    BY <1>2 DEF TypePart
<1>6. server' = [server EXCEPT ![c] = s] /\ conn' = [conn EXCEPT ![c] = v]
    BY <1>1, <1>2, <1>4, <1>5 DEF TypePart
<1>7. server'[c] = s /\ conn'[c] # "open" /\ toServer'[c] = << >> /\ client' = client
    BY <1>1, <1>2, <1>6 DEF TypePart, ServerOnly
<1>8. ~Live(c)' /\ ~Holding(c)' /\ ~Serving(c)' /\ Holding(c) /\ lock = c
    BY <1>1, <1>2, <1>4, <1>7 DEF Live, Holding, Serving, LockPart
<1>9. OthersSame(c) /\ RowsBy(c) /\ holder' \in {holder, c}
    BY <1>1, <1>2, <1>6 DEF OthersSame, Same, RowsBy, TypePart, ServerOnly
<1>10. TypePart' /\ LockPart'
    <2>1. LockPart'
        BY <1>1, <1>8, <1>9, LockMoves DEF OthersSame, Same
    <2>2. server' \in [Clients -> ServerSet] /\ conn' \in [Clients -> {"open", "closed", "broken"}]
          /\ DOMAIN toServer' = Clients
        BY <1>1, <1>2, <1>6 DEF TypePart
    <2> QED
        BY <1>1, <1>2, <2>1, <2>2 DEF TypePart, ServerOnly
<1>11. StampPart(c)' /\ ListPart(c)'
    BY <1>1, <1>8, ListKept
<1>12. PlacePart(c)'
    BY <1>4, <1>7, <1>8 DEF PlacePart
<1>13. StreamPart(c)'
    BY <1>4, <1>7 DEF StreamPart
<1>14. AnswerPart(c)'
    BY <1>1, <1>2, <1>4, <1>7, <1>8 DEF SessionOk, AnswerPart
<1>15. ProgressPart(c)'
    <2>1. Converged(c)'
        BY <1>1, <1>2, <1>7 DEF SessionOk, ProgressPart, Converged, Counts, Right, Below, Listed
    <2> QED
        BY <1>2, <1>4, <1>7, <1>8, <2>1 DEF SessionOk, ProgressPart, Running
<1> QED
    BY <1>9, <1>10, <1>11, <1>12, <1>13, <1>14, <1>15, StepOf DEF SessionOk

\* The connection is found broken, or the store fails.
LEMMA LoseClientStep == ASSUME BackupInv, NEW c \in Clients, LoseClient(c) PROVE BackupInv'
<1>1. Leave(c, "failed") /\ Serving(c) /\ ServerOnly /\ UNCHANGED <<mirror, toClient, holder>>
    BY DEF LoseClient
<1>2. faults' \in 0 .. MaxFaults
    BY <1>1 DEF BackupInv, TypePart, ServerOnly
<1> QED
    BY <1>1, <1>2, LeaveStep DEF ServerOnly

\* The manifest or the backend returns an error.
LEMMA StoreFailsStep == ASSUME BackupInv, NEW c \in Clients, StoreFails(c) PROVE BackupInv'
<1>1. /\ Leave(c, "failed") /\ UNCHANGED <<source, edits, client, mirror, toClient, holder>>
      /\ server[c].pc \in {"entry", "echo", "data", "delete"} /\ UseFault
    BY DEF StoreFails
<1>2. faults' \in 0 .. MaxFaults /\ Serving(c)
    BY <1>1, SessionAssumption DEF BackupInv, TypePart, UseFault, Serving
<1> QED
    BY <1>1, <1>2, LeaveStep

-----------------------------------------------------------------------------
(* All steps.                                                              *)

\* Before the first session.
LEMMA InitOk == ASSUME Init PROVE BackupInv
<1>1. << >> \in Seq(Entries) /\ << >> \in Seq(Answers)
    OBVIOUS
<1>2. source \in [Clients -> [Paths -> Items \cup {None}]]
    <2>1. ASSUME NEW c \in Clients, NEW p \in Paths, Tree[c][p] # None
          PROVE  Item("file", Tree[c][p], <<c, 0>>) \in Items
        <3>1. Tree[c][p] \in Blocks
            BY <2>1, SessionAssumption DEF Blocks
        <3> QED
            BY <3>1 DEF Item, Items, Kinds, Stamps
    <2> QED
        BY <2>1 DEF Init
<1>3. NoClient \in ClientSet /\ NoServer \in ServerSet
    BY <1>1 DEF NoClient, ClientSet, NoServer, ServerSet
<1>4. TypePart
    <2>1. edits \in [Clients -> Nat] /\ mirror \in [Paths -> Rows \cup {None}]
        BY DEF Init
    <2>2. client \in [Clients -> ClientSet] /\ server \in [Clients -> ServerSet]
        BY <1>3 DEF Init
    <2>3. /\ conn \in [Clients -> {"open", "closed", "broken"}]
          /\ toClient \in [Clients -> Seq(Answers)] /\ DOMAIN toServer = Clients
        BY <1>1 DEF Init
    <2> QED
        BY <1>2, <2>1, <2>2, <2>3, SessionAssumption DEF Init, TypePart
<1>5. ASSUME NEW c \in Clients
      PROVE  /\ server[c].pc = "done" /\ client[c].pc = "ended" /\ client[c].rc = "none"
             /\ toServer[c] = << >> /\ toClient[c] = << >> /\ conn[c] = "closed" /\ edits[c] = 0
    BY DEF Init, NoClient, NoServer
<1>6. LockPart
    BY <1>5, SessionAssumption DEF Init, LockPart, Holding
<1>7. ASSUME NEW c \in Clients PROVE SessionOk(c)
    <2>1. StampPart(c)
        <3> SUFFICES ASSUME NEW p \in Paths
                     PROVE  /\ source[c][p] # None =>
                                 /\ p \in Subtree[c] /\ source[c][p].mtime[1] = c /\ source[c][p].mtime[2] <= edits[c]
                                 /\ source[c][p].kind = "file"
                            /\ mirror[p] = None
            BY <1>5 DEF StampPart, Running
        <3>1. source[c][p] # None => p \in Subtree[c] /\ source[c][p] = Item("file", Tree[c][p], <<c, 0>>)
            BY DEF Init
        <3> QED
            BY <1>5, <3>1 DEF Init, Item
    <2>2. ListPart(c) /\ PlacePart(c)
        BY <1>5 DEF ListPart, PlacePart, Live
    <2>3. StreamPart(c) /\ AnswerPart(c)
        BY <1>5 DEF StreamPart, AnswerPart, Live, Serving
    <2>4. ProgressPart(c)
        BY <1>5 DEF ProgressPart, Live, Converged, Counts
    <2> QED
        BY <2>1, <2>2, <2>3, <2>4 DEF SessionOk
<1> QED
    BY <1>4, <1>6, <1>7 DEF BackupInv

\* Every step keeps what ties the sessions together.
LEMMA StepOk == ASSUME BackupInv, [Next]_vars PROVE BackupInv'
<1>1. CASE UNCHANGED vars
    <2>1. TypePart'
        BY <1>1 DEF BackupInv, TypePart, vars
    <2>2. LockPart'
        BY <1>1 DEF BackupInv, LockPart, Holding, vars
    <2>3. ASSUME NEW c \in Clients PROVE SessionOk(c)'
        <3>1. SessionOk(c) /\ Same(c) /\ mirror' = mirror /\ holder' = holder
            BY <1>1 DEF BackupInv, Same, vars
        <3> QED
            BY <3>1, Untouched
    <2> QED
        BY <2>1, <2>2, <2>3 DEF BackupInv
<1>2. ASSUME NEW c \in Clients,
             \/ EditSource(c) \/ Connect(c) \/ Break(c) \/ StoreFails(c)
             \/ ClientStep(c) \/ TakeLock(c) \/ ServerStep(c)
      PROVE  BackupInv'
    <2>1. EditSource(c) => BackupInv'
        BY EditStep
    <2>2. Connect(c) => BackupInv'
        BY ConnectStep
    <2>3. Break(c) => BackupInv'
        BY BreakStep
    <2>4. StoreFails(c) => BackupInv'
        BY StoreFailsStep
    <2>5. TakeLock(c) => BackupInv'
        BY TakeLockStep
    <2>6. ClientStep(c) => BackupInv'
        BY EchoStep, FileStep, NoteStep, PhaseStep, GoodbyeStep, ClientFailsStep DEF ClientStep
    <2>7. ServerStep(c) => BackupInv'
        BY ReceiveListStep, DriveStaticStep, QuickCheckStep, RequestFileStep, ReceiveEchoStep, ReceiveFileStep,
           StartDeleteStep, DeleteRowStep, SendDoneStep, ReceiveDoneStep, FinishStep, LoseClientStep DEF ServerStep
    <2> QED
        BY <1>2, <2>1, <2>2, <2>3, <2>4, <2>5, <2>6, <2>7
<1> QED
    BY <1>1, <1>2 DEF Next

\* Whose rows are written and removed, and which.
LEMMA RowsMove ==
    ASSUME BackupInv, Next
    PROVE  \/ UNCHANGED mirror
           \/ \E c \in Clients :
                /\ lock = c /\ ~client[c].dry
                /\ \/ \E p \in Subtree[c] :
                        /\ mirror' = [mirror EXCEPT ![p] = None]
                        /\ client[c].delete /\ (~Filters => p \in client[c].absent)
                   \/ \E p \in Subtree[c] : \E row :
                        /\ mirror' = [mirror EXCEPT ![p] = row]
                        /\ row # None /\ row.blocks \in client[c].seen[p]
<1>1. PICK c \in Clients :
        \/ EditSource(c) \/ Connect(c) \/ Break(c) \/ StoreFails(c)
        \/ ClientStep(c) \/ TakeLock(c) \/ ServerStep(c)
    BY DEF Next
<1>2. SessionOk(c) /\ LockPart
    BY DEF BackupInv
<1>3. EditSource(c) \/ Connect(c) \/ Break(c) \/ StoreFails(c) \/ TakeLock(c) => UNCHANGED mirror
    BY DEF EditSource, Connect, Break, StoreFails, TakeLock, ClientOnly
<1>4. ClientStep(c) => UNCHANGED mirror
    BY DEF ClientStep, ClientEchoes, ClientSendsFile, ClientNotesError, ClientDone, ClientGoodbye, ClientFails,
           ClientOnly
<1>5. ReceiveList(c) \/ DriveStatic(c) \/ QuickCheck(c) \/ RequestFile(c) \/ StartDelete(c)
        \/ SendDone(c) \/ Finish(c) \/ LoseClient(c) => UNCHANGED mirror
    BY DEF ReceiveList, DriveStatic, QuickCheck, RequestFile, StartDelete, SendDone, Finish, LoseClient
<1>6. ReceiveDone(c) => UNCHANGED mirror
    BY DEF ReceiveDone, Refuse
<1>7. ASSUME NEW blocks, WritesRow(c, blocks), server[c].pc \in {"echo", "data"}, ServerOnly
      PROVE  /\ lock = c
             /\ \E p \in Subtree[c] : \E row :
                  /\ mirror' = [mirror EXCEPT ![p] = row]
                  /\ row # None /\ row.blocks \in client[c].seen[p]
    <2>1. Live(c)
        BY <1>7 DEF Live
    <2>2. PICK e : e = Entry(c)
        OBVIOUS
    <2>3. lock = c /\ e.path \in Subtree[c] /\ RowOf(e, blocks) # None /\ RowOf(e, blocks).blocks = blocks
        BY <1>7, <2>1, <2>2, RowWritten
    <2>4. mirror' = [mirror EXCEPT ![e.path] = RowOf(e, blocks)] /\ blocks \in client[c].seen[e.path]
        BY <1>7, <2>2 DEF WritesRow
    <2> QED
        BY <2>3, <2>4
<1>8. CASE ReceiveEcho(c)
    BY <1>7, <1>8, EchoRow
<1>9. CASE ReceiveFile(c)
    BY <1>7, <1>9, FileRow
<1>10. CASE DeleteRow(c)
    <2>1. server[c].pc = "delete" /\ Live(c) /\ Holding(c)
        BY <1>10 DEF DeleteRow, Live, Holding
    <2>2. lock = c
        BY <1>2, <2>1 DEF LockPart
    <2>3. /\ client[c].delete /\ ~client[c].dry /\ ~client[c].ioError
          /\ server[c].todo \subseteq Subtree[c] \ Listed(c)
        BY <1>2, <2>1 DEF SessionOk, ProgressPart
    <2>4. ~Filters => Subtree[c] \ client[c].absent \subseteq Listed(c)
        BY <1>2, <2>1, <2>3 DEF SessionOk, ListPart
    <2>5. UNCHANGED mirror \/ \E p \in server[c].todo : mirror' = [mirror EXCEPT ![p] = None]
        BY <1>10 DEF DeleteRow
    <2> QED
        BY <2>2, <2>3, <2>4, <2>5
<1> QED
    BY <1>1, <1>3, <1>4, <1>5, <1>6, <1>8, <1>9, <1>10 DEF ServerStep

\* Sessions that back up, and restores, which do not touch any of it.
LEMMA BackupInvariant == ConnSpec => []BackupInv
<1>1. ConnInit => BackupInv
    BY InitOk DEF ConnInit
<1>2. BackupInv /\ [ConnNext]_connvars => BackupInv'
    <2> SUFFICES ASSUME BackupInv, [ConnNext]_connvars PROVE BackupInv'
        OBVIOUS
    <2>1. [Next]_vars
        BY DEF ConnNext, connvars
    <2> QED
        BY <2>1, StepOk
<1> QED
    BY <1>1, <1>2, PTL DEF ConnSpec

-----------------------------------------------------------------------------
(* The theorems.                                                           *)

\* The values of the variables, for any clients, trees and options.
THEOREM RsyncTypeOK == ConnSpec => []TypeOK
<1>1. BackupInv => TypeOK
    <2> SUFFICES ASSUME BackupInv PROVE TypeOK
        OBVIOUS
    <2>1. \A c \in Clients : client[c] \in ClientSet /\ server[c] \in ServerSet
                             /\ conn[c] \in {"open", "closed", "broken"}
        BY DEF BackupInv, TypePart
    <2>2. /\ \A p \in Paths : mirror[p] = None \/ mirror[p] \in Rows
          /\ lock \in Clients \cup {None} /\ faults \in 0 .. MaxFaults
        BY DEF BackupInv, TypePart
    <2> QED
        BY <2>1, <2>2 DEF TypeOK, ClientSet, ServerSet
<1> QED
    BY <1>1, BackupInvariant, PTL

\* A client that exits with success finds the manifest converged to its tree
\* (receiver.go: the goodbye comes after everything was persisted), however its
\* session was interleaved with edits of the tree and with other sessions.
THEOREM RsyncSuccess == ConnSpec => []SuccessMeansConverged
<1>1. BackupInv => SuccessMeansConverged
    <2> SUFFICES ASSUME BackupInv, NEW c \in Clients,
                        ~Running(c), client[c].rc = "ok", ~client[c].dry, holder = c
                 PROVE  /\ \A k \in DOMAIN client[c].list : Right(c, client[c].list[k])
                        /\ client[c].delete => Below(c) \subseteq Listed(c)
        BY DEF SuccessMeansConverged, Right, Below, Listed
    <2>1. ~client[c].ioError /\ (Converged(c) \/ Broken(c))
        BY DEF BackupInv, SessionOk, ProgressPart
    <2>2. ~Broken(c) /\ Counts(c)
        BY DEF Broken, Running, Counts
    <2> QED
        BY <2>1, <2>2 DEF Converged
<1> QED
    BY <1>1, BackupInvariant, PTL

\* As long as matches go forward (receiver.go refuses others, which a client may
\* send), no session is ended by the protocol: whatever a client skips, resends,
\* fails to read or tells of, the receiver is where it expects that.
THEOREM RsyncServed == ~MatchesGoBack /\ ConnSpec => []ConformingClientServed
<1>1. ~MatchesGoBack /\ BackupInv => ConformingClientServed
    BY DEF BackupInv, SessionOk, ProgressPart, ConformingClientServed
<1>2. CASE MatchesGoBack
    BY <1>2
<1>3. CASE ~MatchesGoBack
    <2>1. BackupInv => ConformingClientServed
        BY <1>1, <1>3
    <2> QED
        BY <2>1, BackupInvariant, PTL
<1> QED
    BY <1>2, <1>3

\* A row is written by the session that holds the lock, below its root, never in
\* a dry run, and whole: receiveFileDelta and its whole-file checksum.
THEOREM RsyncWrites == ConnSpec => WritesAreWhole
<1>1. BackupInv /\ [ConnNext]_connvars =>
        [\A p \in Paths : mirror'[p] \notin {mirror[p], None} =>
           /\ lock # None /\ ~client[lock].dry /\ p \in Subtree[lock]
           /\ mirror'[p].kind = "file" => mirror'[p].blocks \in client[lock].seen[p]]_vars
    <2> SUFFICES ASSUME BackupInv, Next, NEW p \in Paths, mirror'[p] \notin {mirror[p], None}
                 PROVE  /\ lock # None /\ ~client[lock].dry /\ p \in Subtree[lock]
                        /\ mirror'[p].kind = "file" => mirror'[p].blocks \in client[lock].seen[p]
        BY DEF ConnNext, connvars
    <2>1. mirror \in [Paths -> Rows \cup {None}] /\ None \notin Clients
        BY SessionAssumption DEF BackupInv, TypePart
    <2>2. PICK c \in Clients :
            /\ lock = c /\ ~client[c].dry
            /\ \/ \E r \in Subtree[c] : mirror' = [mirror EXCEPT ![r] = None]
               \/ \E r \in Subtree[c] : \E row :
                    /\ mirror' = [mirror EXCEPT ![r] = row]
                    /\ row # None /\ row.blocks \in client[c].seen[r]
        BY RowsMove
    <2>3. PICK r \in Subtree[c] : \E row :
            /\ mirror' = [mirror EXCEPT ![r] = row]
            /\ row # None /\ row.blocks \in client[c].seen[r]
        BY <2>1, <2>2
    <2>4. r = p
        BY <2>1, <2>3
    <2> QED
        BY <2>1, <2>2, <2>3, <2>4
<1> QED
    BY <1>1, BackupInvariant, PTL DEF ConnSpec, WritesAreWhole

\* Where the client sends no filter rules, a row goes away only if the client's
\* tree did not have it when it made its list, which it could read completely.
THEOREM RsyncDeletes == ~Filters /\ ConnSpec => DeletesOnlyVanished
<1>1. ~Filters /\ BackupInv /\ [ConnNext]_connvars =>
        [\A p \in Paths : mirror[p] # None /\ mirror'[p] = None =>
           /\ lock # None /\ client[lock].delete /\ ~client[lock].dry
           /\ p \in client[lock].absent]_vars
    <2> SUFFICES ASSUME ~Filters, BackupInv, Next, NEW p \in Paths, mirror[p] # None, mirror'[p] = None
                 PROVE  /\ lock # None /\ client[lock].delete /\ ~client[lock].dry
                        /\ p \in client[lock].absent
        BY DEF ConnNext, connvars
    <2>1. mirror \in [Paths -> Rows \cup {None}] /\ None \notin Clients
        BY SessionAssumption DEF BackupInv, TypePart
    <2>2. PICK c \in Clients :
            /\ lock = c /\ ~client[c].dry
            /\ \/ \E r \in Subtree[c] :
                    /\ mirror' = [mirror EXCEPT ![r] = None]
                    /\ client[c].delete /\ r \in client[c].absent
               \/ \E r \in Subtree[c] : \E row : mirror' = [mirror EXCEPT ![r] = row] /\ row # None
        BY RowsMove
    <2>3. PICK r \in Subtree[c] : /\ mirror' = [mirror EXCEPT ![r] = None]
                                  /\ client[c].delete /\ r \in client[c].absent
        BY <2>1, <2>2
    <2>4. r = p
        BY <2>1, <2>3
    <2> QED
        BY <2>1, <2>2, <2>3, <2>4
<1>2. CASE Filters
    BY <1>2
<1>3. CASE ~Filters
    <2>1. BackupInv /\ [ConnNext]_connvars =>
            [\A p \in Paths : mirror[p] # None /\ mirror'[p] = None =>
               /\ lock # None /\ client[lock].delete /\ ~client[lock].dry
               /\ p \in client[lock].absent]_vars
        BY <1>1, <1>3
    <2> QED
        BY <2>1, BackupInvariant, PTL DEF ConnSpec, DeletesOnlyVanished
<1> QED
    BY <1>2, <1>3
-----------------------------------------------------------------------------
(* Restores.  What a session brings is tied to the list at both ends: an   *)
(* entry that is not yet there is to be asked for, asked for, streamed or  *)
(* on its way (FilesPart); what is streamed is one version of the row      *)
(* since the list was made (ReadsPart, DataPart); the first DONE comes     *)
(* after all of it (PhasesPart, ItemsPart).  What is not asked for is      *)
(* there: a stamp belongs to one version (StampsPart).                     *)

\* Rows, entries, messages and the two ends of a session.
PullRows    == [kind : {"file", "static"}, blocks : Blocks, mtime : Nat]
PullEntries == [path : Paths, kind : {"file", "static"}, size : Nat, mtime : Nat]
PullBlocks  == UNION {{s[i] : i \in DOMAIN s} : s \in Contents}
Listing(l)  == [type |-> "list", list |-> l]
ReqSet == [type : {"item"}, ndx : Nat, transfer : BOOLEAN] \cup [type : {"done", "delstats"}]
AnsSet == [type : {"list"}, list : Seq(PullEntries)] \cup [type : {"data"}, ndx : Nat, blocks : Blocks]
             \cup [type : {"error", "echo", "done", "delstats"}, ndx : {0}, blocks : {<< >>}]
PullerSet == [pc : {"list", "loop", "goodbye", "last", "ended"}, rc : {"none", "ok", "partial", "failed"},
              dry : BOOLEAN, list : Seq(PullEntries), todo : SUBSET Nat, phase : Nat, acks : Nat]
SenderSet == [pc : {"done", "flist", "loop", "blocks", "get", "goodbye", "last"}, dry : BOOLEAN,
              list : Seq(PullEntries), phase : Nat, ndx : Nat, size : Nat, plan : PullRows \cup {None},
              sent : Seq(PullBlocks)]

\* Types of the variables.
PullTypes ==
    /\ manifest \in [Paths -> PullRows \cup {None}] /\ copy \in [Paths -> PullRows \cup {None}]
    /\ changes \in Nat /\ versions \in [Paths -> SUBSET Blocks]
    /\ puller \in PullerSet /\ sender \in SenderSet
    /\ wire \in {"open", "closed", "broken"}
    /\ requests \in Seq(ReqSet) /\ answers \in Seq(AnsSet)

\* A row or an entry of a file.
IsFile(r) == r # None /\ r.kind = "file"

\* No stamp is given twice: rows of one stamp are one version.
StampsPart == \A p \in Paths :
    /\ manifest[p] # None => /\ manifest[p].mtime <= changes
                             /\ manifest[p].kind = "static" => manifest[p].blocks = << >>
    /\ copy[p] # None => copy[p].mtime <= changes
    /\ IsFile(manifest[p]) /\ IsFile(copy[p]) /\ manifest[p].mtime = copy[p].mtime =>
         manifest[p].blocks = copy[p].blocks

\* A list has one entry for a path.
ListOk(l) ==
    /\ \A i, j \in DOMAIN l : l[i].path = l[j].path => l[i] = l[j]
    /\ \A i \in DOMAIN l :
         /\ l[i].mtime <= changes
         /\ l[i].kind = "file" /\ IsFile(copy[l[i].path]) /\ copy[l[i].path].mtime = l[i].mtime =>
              copy[l[i].path].blocks \in versions[l[i].path]

\* The list in use at both ends and on its way.
Lists == {puller.list, sender.list}
           \cup {answers[j].list : j \in {k \in DOMAIN answers : answers[k].type = "list"}}
ListsPart == \A l \in Lists : ListOk(l)

\* No DONE is on its way to the client.
NoneDone == \A j \in DOMAIN answers : answers[j].type # "done"

\* Until the list has come.
StartPart ==
    /\ sender.pc = "flist" =>
         /\ answers = << >> /\ requests = << >> /\ puller.list = << >>
         /\ puller.pc \in {"list", "ended"}
    /\ puller.pc = "list" =>
         /\ puller.list = << >> /\ puller.phase = 0 /\ requests = << >>
         /\ sender.pc \in {"flist", "loop", "done"}
         /\ \A j \in DOMAIN answers :
              /\ answers[j].type \in {"error", "list"}
              /\ answers[j].type = "list" =>
                   /\ j = Len(answers)
                   /\ sender.pc = "done" \/ sender.list = answers[j].list
    /\ puller.pc \in {"loop", "goodbye", "last"} => \A j \in DOMAIN answers : answers[j].type # "list"

\* The two ends of one session.
SessionPart ==
    /\ puller.pc = "ended" \/ sender.pc = "done" \/ puller.dry = sender.dry
    /\ puller.pc \in {"loop", "goodbye", "last"} \/ puller.list # << >> =>
         sender.pc = "done" \/ (sender.list = puller.list /\ sender.dry = puller.dry)
    /\ puller.todo \subseteq DOMAIN puller.list
    /\ puller.todo # {} => puller.pc = "loop" /\ puller.phase = 0

\* The first DONE and its answer come after all items and all files.
PhasesPart ==
    /\ puller.pc \in {"list", "loop"} /\ puller.phase = 0 =>
         /\ puller.acks = 0 /\ NoneDone /\ sender.phase = 0
         /\ \A j \in DOMAIN requests : requests[j].type # "done"
    /\ sender.phase = 0 /\ sender.pc # "done" => NoneDone
    /\ puller.acks > 0 => sender.pc = "done" \/ sender.phase > 0
    /\ sender.pc \in {"goodbye", "last"} => sender.phase > 0
    /\ puller.pc \in {"goodbye", "last"} => puller.acks > 0 /\ puller.todo = {}
    /\ wire = "open" => sender.pc # "done"
    /\ requests # << >> => wire = "open" /\ sender.pc # "flist"

\* Items are for the list, and come before the first DONE.
ItemsPart == \A j \in DOMAIN requests : requests[j].type = "item" =>
    /\ sender.phase = 0
    /\ requests[j].ndx \in DOMAIN sender.list
    /\ requests[j].transfer => sender.list[requests[j].ndx].kind = "file"
    /\ \A i \in DOMAIN requests : i < j => requests[i].type # "done"

\* What the sender has read of a file is one version of it.
ReadsPart ==
    /\ sender.pc \in {"loop", "blocks", "get"} =>
         \A p \in Paths : IsFile(manifest[p]) => manifest[p].blocks \in versions[p]
    /\ sender.pc \in {"blocks", "get"} =>
         /\ sender.phase = 0 /\ ~sender.dry
         /\ sender.ndx \in DOMAIN sender.list /\ sender.list[sender.ndx].kind = "file"
         /\ sender.size = 0 => << >> \in versions[sender.list[sender.ndx].path]
    /\ sender.pc \in {"flist", "loop", "blocks"} => sender.sent = << >>
    /\ sender.pc = "get" =>
         LET e == sender.list[sender.ndx]
         IN /\ IsFile(sender.plan) => sender.plan.blocks \in versions[e.path]
            /\ ~IsFile(sender.plan) => Pulls!Plan = << >>
            /\ IsFile(manifest[e.path]) /\ manifest[e.path].mtime = e.mtime => sender.plan = manifest[e.path]
            /\ Len(sender.sent) <= Len(Pulls!Plan)
            /\ \A i \in DOMAIN sender.sent : sender.sent[i] = Pulls!Plan[i]

\* The file of a message is a version of its entry, the last one when the times agree.
Fits(m) ==
    /\ m.ndx \in DOMAIN puller.list
    /\ LET e == puller.list[m.ndx]
       IN /\ e.kind = "file" /\ m.blocks \in versions[e.path]
          /\ IsFile(manifest[e.path]) /\ manifest[e.path].mtime = e.mtime => m.blocks = manifest[e.path].blocks

\* A file on its way fits, and comes before the first DONE.
DataPart == puller.pc # "ended" => \A j \in DOMAIN answers : answers[j].type = "data" =>
    /\ puller.acks = 0
    /\ Fits(answers[j])
    /\ \A i \in DOMAIN answers : i < j => answers[i].type # "done"

\* The copy has what the entry says.
Good(e) ==
    /\ copy[e.path] # None /\ copy[e.path].kind = e.kind
    /\ e.kind = "file" => copy[e.path].blocks \in versions[e.path]

\* Where a file is that is not yet there.
UnderWay(k) ==
    \/ \E j \in DOMAIN requests : requests[j].type = "item" /\ requests[j].ndx = k /\ requests[j].transfer
    \/ sender.pc \in {"blocks", "get"} /\ sender.ndx = k
    \/ \E j \in DOMAIN answers : answers[j].type = "data" /\ answers[j].ndx = k
    \/ wire # "open" /\ NoneDone

\* Every entry is there, or has still to come.
FilesPart == ~puller.dry => \A k \in DOMAIN puller.list :
    \/ Good(puller.list[k])
    \/ k \in puller.todo
    \/ puller.pc # "ended" /\ puller.acks = 0 /\ puller.list[k].kind = "file" /\ UnderWay(k)

\* The inductive invariant of restores.
PullInv ==
    /\ PullTypes /\ StampsPart /\ ListsPart /\ StartPart /\ SessionPart /\ PhasesPart /\ ItemsPart
    /\ ReadsPart /\ DataPart /\ FilesPart

\* A stream before and after a message was added.
LEMMA Grown ==
    ASSUME NEW S, NEW s \in Seq(S), NEW m \in S, NEW t, t = Append(s, m)
    PROVE  /\ t \in Seq(S) /\ t # << >>
           /\ \A j \in DOMAIN s : j \in DOMAIN t /\ t[j] = s[j] /\ j < Len(s) + 1
           /\ Len(s) + 1 \in DOMAIN t /\ t[Len(s) + 1] = m
           /\ \A j \in DOMAIN t : (j \in DOMAIN s /\ t[j] = s[j]) \/ (j = Len(s) + 1 /\ t[j] = m)
           /\ \A i, j \in DOMAIN t : i < j => i \in DOMAIN s /\ t[i] = s[i]
OBVIOUS

\* A stream before and after its head was read.
LEMMA Shifted ==
    ASSUME NEW S, NEW s \in Seq(S), s # << >>, NEW t, t = Tail(s)
    PROVE  /\ t \in Seq(S) /\ 1 \in DOMAIN s /\ Head(s) = s[1] /\ s[1] \in S
           /\ \A j \in DOMAIN t : j + 1 \in DOMAIN s /\ t[j] = s[j + 1] /\ 1 < j + 1
           /\ \A j \in DOMAIN s : j = 1 \/ (j - 1 \in DOMAIN t /\ t[j - 1] = s[j])
           /\ \A i, j \in DOMAIN t : i < j => i + 1 < j + 1
           /\ \A j \in DOMAIN t : j = Len(t) <=> j + 1 = Len(s)
           /\ \A j \in DOMAIN s : j # 1 => 1 < j
           /\ Len(s) = 1 => t = << >>
<1>1. /\ t \in Seq(S) /\ Len(t) = Len(s) - 1 /\ Len(s) \in Nat \ {0}
      /\ DOMAIN s = 1 .. Len(s) /\ DOMAIN t = 1 .. Len(s) - 1
      /\ \A j \in 1 .. Len(s) - 1 : t[j] = s[j + 1]
    OBVIOUS
<1>2. 1 \in DOMAIN s /\ Head(s) = s[1] /\ s[1] \in S
    OBVIOUS
<1>3. \A j \in DOMAIN s : j = 1 \/ (j - 1 \in 1 .. Len(s) - 1 /\ (j - 1) + 1 = j)
    BY <1>1
<1>4. \A j \in DOMAIN s : j = 1 \/ (j - 1 \in DOMAIN t /\ t[j - 1] = s[j])
    BY <1>1, <1>3
<1> QED
    BY <1>1, <1>2, <1>4

\* What every file of the session needs of a step.
LEMMA FilesKept ==
    ASSUME FilesPart, puller' = puller,
           \A k \in DOMAIN puller.list : Good(puller.list[k]) => Good(puller.list[k])',
           \A k \in DOMAIN puller.list :
             puller.pc # "ended" /\ puller.acks = 0 /\ puller.list[k].kind = "file" /\ UnderWay(k) =>
               UnderWay(k)' \/ Good(puller.list[k])'
    PROVE  FilesPart'
BY DEF FilesPart

\* The client reads.
LEMMA AnswerTaken ==
    ASSUME PullInv, answers # << >>, answers' = Tail(answers)
    PROVE  /\ answers' \in Seq(AnsSet) /\ 1 \in DOMAIN answers /\ Head(answers) = answers[1]
           /\ Head(answers) \in AnsSet
           /\ \A j \in DOMAIN answers' : j + 1 \in DOMAIN answers /\ answers'[j] = answers[j + 1] /\ 1 < j + 1
           /\ \A j \in DOMAIN answers : j = 1 \/ (j - 1 \in DOMAIN answers' /\ answers'[j - 1] = answers[j])
           /\ \A i, j \in DOMAIN answers' : i < j => i + 1 < j + 1
           /\ \A j \in DOMAIN answers' : j = Len(answers') <=> j + 1 = Len(answers)
           /\ Len(answers) = 1 => answers' = << >>
           /\ NoneDone => NoneDone'
<1>1. answers \in Seq(AnsSet)
    BY DEF PullInv, PullTypes
<1>2. /\ answers' \in Seq(AnsSet) /\ 1 \in DOMAIN answers /\ Head(answers) = answers[1]
      /\ Head(answers) \in AnsSet
      /\ \A j \in DOMAIN answers' : j + 1 \in DOMAIN answers /\ answers'[j] = answers[j + 1] /\ 1 < j + 1
      /\ \A j \in DOMAIN answers : j = 1 \/ (j - 1 \in DOMAIN answers' /\ answers'[j - 1] = answers[j])
      /\ \A i, j \in DOMAIN answers' : i < j => i + 1 < j + 1
      /\ \A j \in DOMAIN answers' : j = Len(answers') <=> j + 1 = Len(answers)
      /\ Len(answers) = 1 => answers' = << >>
    BY <1>1, Shifted
<1>3. NoneDone => NoneDone'
    BY <1>2 DEF NoneDone
<1> QED
    BY <1>2, <1>3

\* What the files on their way need of a step that adds none.
LEMMA DataKept ==
    ASSUME PullInv, UNCHANGED <<manifest, versions>>,
           puller'.list = puller.list, puller'.acks = puller.acks,
           puller'.pc # "ended" => puller.pc # "ended",
           answers' = answers \/ (answers # << >> /\ answers' = Tail(answers))
    PROVE  DataPart'
<1>1. \A m : Fits(m) => Fits(m)'
    BY DEF Fits, IsFile
<1>2. DataPart
    BY DEF PullInv
<1>3. CASE answers' = answers
    BY <1>1, <1>2, <1>3 DEF DataPart
<1>4. CASE answers # << >> /\ answers' = Tail(answers)
    <2>1. /\ 1 \in DOMAIN answers
          /\ \A j \in DOMAIN answers' : j + 1 \in DOMAIN answers /\ answers'[j] = answers[j + 1]
          /\ \A i, j \in DOMAIN answers' : i < j => i + 1 < j + 1
        BY <1>4, AnswerTaken
    <2> QED
        BY <1>1, <1>2, <2>1 DEF DataPart
<1> QED
    BY <1>3, <1>4

\* The server reads.
LEMMA RequestTaken ==
    ASSUME PullInv, requests # << >>, requests' = Tail(requests)
    PROVE  /\ requests' \in Seq(ReqSet) /\ 1 \in DOMAIN requests /\ Head(requests) = requests[1]
           /\ Head(requests) \in ReqSet
           /\ \A j \in DOMAIN requests' : j + 1 \in DOMAIN requests /\ requests'[j] = requests[j + 1] /\ 1 < j + 1
           /\ \A j \in DOMAIN requests : j = 1 \/ (j - 1 \in DOMAIN requests' /\ requests'[j - 1] = requests[j])
           /\ \A i, j \in DOMAIN requests' : i < j => i + 1 < j + 1
<1>1. requests \in Seq(ReqSet)
    BY DEF PullInv, PullTypes
<1> QED
    BY <1>1, Shifted

\* The server writes; where the connection is gone, nothing happens.
LEMMA AnswerMade ==
    ASSUME PullInv, NEW m \in AnsSet, Pulls!Answers(m)
    PROVE  /\ answers' \in Seq(AnsSet)
           /\ \A j \in DOMAIN answers : j \in DOMAIN answers' /\ answers'[j] = answers[j]
           /\ \A j \in DOMAIN answers' :
                \/ j \in DOMAIN answers /\ answers'[j] = answers[j]
                \/ wire = "open" /\ j = Len(answers) + 1 /\ answers'[j] = m
           /\ \A i, j \in DOMAIN answers' : i < j => i \in DOMAIN answers /\ answers'[i] = answers[i]
           /\ wire = "open" => Len(answers) + 1 \in DOMAIN answers' /\ answers'[Len(answers) + 1] = m
           /\ NoneDone /\ (m.type # "done" \/ wire # "open") => NoneDone'
<1>1. answers \in Seq(AnsSet)
    BY DEF PullInv, PullTypes
<1>2. CASE wire = "open"
    <2>1. answers' = Append(answers, m)
        BY <1>2 DEF Pulls!Answers
    <2>2. /\ answers' \in Seq(AnsSet)
          /\ \A j \in DOMAIN answers : j \in DOMAIN answers' /\ answers'[j] = answers[j]
          /\ \A j \in DOMAIN answers' :
               \/ j \in DOMAIN answers /\ answers'[j] = answers[j]
               \/ wire = "open" /\ j = Len(answers) + 1 /\ answers'[j] = m
          /\ \A i, j \in DOMAIN answers' : i < j => i \in DOMAIN answers /\ answers'[i] = answers[i]
          /\ wire = "open" => Len(answers) + 1 \in DOMAIN answers' /\ answers'[Len(answers) + 1] = m
        BY <1>1, <1>2, <2>1, Grown
    <2>3. NoneDone /\ m.type # "done" => NoneDone'
        BY <2>2 DEF NoneDone
    <2> QED
        BY <1>2, <2>2, <2>3
<1>3. CASE wire # "open"
    <2>1. answers' = answers
        BY <1>3 DEF Pulls!Answers
    <2> QED
        BY <1>1, <1>3, <2>1 DEF NoneDone
<1> QED
    BY <1>2, <1>3

\* The client writes; where the connection is gone, nothing happens.
LEMMA RequestMade ==
    ASSUME PullInv, NEW m \in ReqSet, Pulls!Asks(m)
    PROVE  /\ requests' \in Seq(ReqSet)
           /\ \A j \in DOMAIN requests : j \in DOMAIN requests' /\ requests'[j] = requests[j]
           /\ \A j \in DOMAIN requests' :
                \/ j \in DOMAIN requests /\ requests'[j] = requests[j]
                \/ wire = "open" /\ j = Len(requests) + 1 /\ requests'[j] = m
           /\ \A i, j \in DOMAIN requests' : i < j => i \in DOMAIN requests /\ requests'[i] = requests[i]
           /\ wire = "open" => Len(requests) + 1 \in DOMAIN requests' /\ requests'[Len(requests) + 1] = m
           /\ requests' # << >> => wire = "open"
<1>1. requests \in Seq(ReqSet)
    BY DEF PullInv, PullTypes
<1>2. CASE wire = "open"
    <2>1. requests' = Append(requests, m)
        BY <1>2 DEF Pulls!Asks
    <2> QED
        BY <1>1, <1>2, <2>1, Grown
<1>3. CASE wire # "open"
    <2>1. requests' = requests /\ requests = << >>
        BY <1>3 DEF Pulls!Asks, PullInv, PhasesPart
    <2> QED
        BY <1>1, <1>3, <2>1
<1> QED
    BY <1>2, <1>3

\* An error message changes the exit code only.
LEMMA PullerNotesErrorStep == ASSUME PullInv, Pulls!PullerNotesError PROVE PullInv'
<1>1. /\ puller.pc # "ended" /\ answers # << >> /\ Head(answers).type = "error"
      /\ answers' = Tail(answers) /\ puller' = [puller EXCEPT !.rc = "partial"]
      /\ UNCHANGED <<manifest, changes, versions, sender, wire, requests, copy>>
    BY DEF Pulls!PullerNotesError, Pulls!Comes
<1>2. answers \in Seq(AnsSet) /\ puller \in PullerSet
    BY DEF PullInv, PullTypes
<1>3. /\ puller' \in PullerSet
      /\ \A f \in {"pc", "dry", "list", "todo", "phase", "acks"} : puller'[f] = puller[f]
    BY <1>1, <1>2 DEF PullerSet
<1>4. /\ puller'.pc = puller.pc /\ puller'.dry = puller.dry /\ puller'.list = puller.list
      /\ puller'.todo = puller.todo /\ puller'.phase = puller.phase /\ puller'.acks = puller.acks
    BY <1>3
<1>5. /\ answers' \in Seq(AnsSet) /\ 1 \in DOMAIN answers /\ Head(answers) = answers[1]
      /\ \A j \in DOMAIN answers' : j + 1 \in DOMAIN answers /\ answers'[j] = answers[j + 1]
      /\ \A j \in DOMAIN answers : j = 1 \/ (j - 1 \in DOMAIN answers' /\ answers'[j - 1] = answers[j])
      /\ \A i, j \in DOMAIN answers' : i < j => i + 1 < j + 1
      /\ \A j \in DOMAIN answers' : j = Len(answers') <=> j + 1 = Len(answers)
    BY <1>1, AnswerTaken
<1>6. PullTypes'
    BY <1>1, <1>3, <1>5 DEF PullInv, PullTypes
<1>7. StampsPart' /\ ItemsPart' /\ ReadsPart'
    BY <1>1 DEF PullInv, StampsPart, ItemsPart, ReadsPart, IsFile, Pulls!Plan
<1>8. StartPart'
    BY <1>1, <1>4, <1>5 DEF PullInv, StartPart
<1>9. SessionPart' /\ ListsPart'
    <2>1. \A l : ListOk(l) => ListOk(l)'
        BY <1>1 DEF ListOk, IsFile
    <2>2. Lists' \subseteq Lists
        BY <1>1, <1>4, <1>5 DEF Lists
    <2> QED
        BY <1>1, <1>4, <2>1, <2>2 DEF PullInv, SessionPart, ListsPart
<1>10. NoneDone => NoneDone'
    BY <1>1, AnswerTaken
<1>11. PhasesPart'
    BY <1>1, <1>4, <1>10 DEF PullInv, PhasesPart
<1>12. DataPart'
    BY <1>1, <1>4, DataKept
<1>13. FilesPart'
    <2>1. \A k : UnderWay(k) => UnderWay(k)'
        BY <1>1, <1>5, <1>10, ZenonT(30) DEF UnderWay
    <2>2. \A e : Good(e) => Good(e)'
        BY <1>1 DEF Good
    <2> QED
        BY <1>1, <1>4, <2>1, <2>2 DEF PullInv, FilesPart
<1> QED
    BY <1>6, <1>7, <1>8, <1>9, <1>11, <1>12, <1>13 DEF PullInv

\* An echo says nothing about a file.
LEMMA PullerGetsEchoStep == ASSUME PullInv, Pulls!PullerGetsEcho PROVE PullInv'
<1>1. /\ puller.pc = "loop" /\ answers # << >> /\ Head(answers).type = "echo" /\ answers' = Tail(answers)
      /\ UNCHANGED <<manifest, changes, versions, puller, sender, wire, requests, copy>>
    BY DEF Pulls!PullerGetsEcho, Pulls!Comes
<1>2. /\ answers' \in Seq(AnsSet) /\ 1 \in DOMAIN answers /\ Head(answers) = answers[1]
      /\ \A j \in DOMAIN answers' : j + 1 \in DOMAIN answers /\ answers'[j] = answers[j + 1]
      /\ \A j \in DOMAIN answers : j = 1 \/ (j - 1 \in DOMAIN answers' /\ answers'[j - 1] = answers[j])
      /\ \A i, j \in DOMAIN answers' : i < j => i + 1 < j + 1
      /\ NoneDone => NoneDone'
    BY <1>1, AnswerTaken
<1>3. PullTypes'
    BY <1>1, <1>2 DEF PullInv, PullTypes
<1>4. StampsPart' /\ ItemsPart' /\ ReadsPart' /\ SessionPart'
    BY <1>1 DEF PullInv, StampsPart, ItemsPart, ReadsPart, SessionPart, IsFile, Pulls!Plan
<1>5. ListsPart' /\ StartPart'
    <2>1. \A l : ListOk(l) => ListOk(l)'
        BY <1>1 DEF ListOk, IsFile
    <2>2. Lists' \subseteq Lists
        BY <1>1, <1>2 DEF Lists
    <2> QED
        BY <1>1, <1>2, <2>1, <2>2 DEF PullInv, ListsPart, StartPart
<1>6. PhasesPart'
    BY <1>1, <1>2 DEF PullInv, PhasesPart
<1>15. DataPart'
    BY <1>1, DataKept
<1>7. FilesPart'
    <2>1. \A k : UnderWay(k) => UnderWay(k)'
        BY <1>1, <1>2 DEF UnderWay
    <2>2. \A e : Good(e) => Good(e)'
        BY <1>1 DEF Good
    <2> QED
        BY <1>1, <2>1, <2>2 DEF PullInv, FilesPart
<1> QED
    BY <1>3, <1>4, <1>5, <1>6, <1>15, <1>7 DEF PullInv

\* A DONE that comes is not the first thing that comes of the files: they are there.
LEMMA PullerGetsDoneStep == ASSUME PullInv, Pulls!PullerGetsDone PROVE PullInv'
<1>1. /\ puller.pc = "loop" /\ answers # << >> /\ Head(answers).type = "done" /\ answers' = Tail(answers)
      /\ puller' = [puller EXCEPT !.acks = @ + 1, !.pc = IF puller.acks + 1 = 3 THEN "goodbye" ELSE @]
      /\ UNCHANGED <<manifest, changes, versions, sender, wire, requests, copy>>
    BY DEF Pulls!PullerGetsDone, Pulls!Comes
<1>2. /\ answers' \in Seq(AnsSet) /\ 1 \in DOMAIN answers /\ Head(answers) = answers[1]
      /\ \A j \in DOMAIN answers' : j + 1 \in DOMAIN answers /\ answers'[j] = answers[j + 1] /\ 1 < j + 1
      /\ NoneDone => NoneDone'
    BY <1>1, AnswerTaken
<1>3. puller \in PullerSet
    BY DEF PullInv, PullTypes
<1>4. /\ puller' \in PullerSet /\ puller'.pc \in {"loop", "goodbye"} /\ puller'.acks > 0
      /\ puller'.dry = puller.dry /\ puller'.list = puller.list /\ puller'.todo = puller.todo
      /\ puller'.phase = puller.phase
    <2>1. puller.acks + 1 \in Nat \ {0}
        BY <1>3 DEF PullerSet
    <2>2. PICK pc \in {"loop", "goodbye"}, n \in Nat \ {0} : puller' = [puller EXCEPT !.acks = n, !.pc = pc]
        BY <1>1, <2>1
    <2>3. PICK q : q = [puller EXCEPT !.acks = n]
        OBVIOUS
    <2>4. /\ q \in PullerSet /\ q.acks > 0
          /\ q.dry = puller.dry /\ q.list = puller.list /\ q.todo = puller.todo /\ q.phase = puller.phase
        BY <1>3, <2>3 DEF PullerSet
    <2>5. puller' = [q EXCEPT !.pc = pc]
        BY <2>2, <2>3
    <2> QED
        BY <2>4, <2>5 DEF PullerSet
<1>5. ~NoneDone
    BY <1>1, <1>2 DEF NoneDone
<1>6. puller.phase # 0 /\ puller.todo = {}
    BY <1>1, <1>5 DEF PullInv, PhasesPart, SessionPart
<1>7. \A j \in DOMAIN answers : answers[j].type # "data"
    <2>1. \A j \in DOMAIN answers : j = 1 \/ 1 < j
        BY DEF PullInv, PullTypes
    <2> QED
        BY <1>1, <1>2, <2>1 DEF PullInv, DataPart
<1>8. PullTypes'
    BY <1>1, <1>2, <1>4 DEF PullInv, PullTypes
<1>9. StampsPart' /\ ItemsPart' /\ ReadsPart'
    BY <1>1 DEF PullInv, StampsPart, ItemsPart, ReadsPart, IsFile, Pulls!Plan
<1>10. ListsPart' /\ StartPart' /\ SessionPart'
    <2>1. \A l : ListOk(l) => ListOk(l)'
        BY <1>1 DEF ListOk, IsFile
    <2>2. Lists' \subseteq Lists
        BY <1>1, <1>2, <1>4 DEF Lists
    <2>3. StartPart'
        BY <1>1, <1>2, <1>4 DEF PullInv, StartPart
    <2>4. SessionPart'
        BY <1>1, <1>4, <1>6 DEF PullInv, SessionPart
    <2> QED
        BY <2>1, <2>2, <2>3, <2>4 DEF PullInv, ListsPart
<1>11. PhasesPart'
    <2>1. sender.phase \in Nat
        BY DEF PullInv, PullTypes, SenderSet
    <2>2. sender.pc = "done" \/ sender.phase > 0
        BY <1>5, <2>1 DEF PullInv, PhasesPart
    <2> QED
        BY <1>1, <1>2, <1>4, <1>6, <2>2 DEF PullInv, PhasesPart
<1>12. DataPart'
    BY <1>2, <1>7 DEF DataPart
<1>13. FilesPart'
    <2>1. \A k : UnderWay(k) => sender.phase = 0 /\ sender.pc # "done"
        BY <1>5, <1>7 DEF PullInv, UnderWay, ItemsPart, ReadsPart, PhasesPart
    <2>2. \A k : ~UnderWay(k)
        BY <1>5, <2>1 DEF PullInv, PhasesPart
    <2>3. \A e : Good(e) => Good(e)'
        BY <1>1 DEF Good
    <2> QED
        BY <1>1, <1>4, <1>6, <2>2, <2>3 DEF PullInv, FilesPart
<1> QED
    BY <1>8, <1>9, <1>10, <1>11, <1>12, <1>13 DEF PullInv

\* The first DONE follows every item that was asked for.
LEMMA PullerDoneStep == ASSUME PullInv, Pulls!PullerDone PROVE PullInv'
<1> DEFINE m == [type |-> "done"]
<1>1. /\ puller.pc = "loop" /\ puller.todo = {} /\ Pulls!Asks(m)
      /\ puller' = [puller EXCEPT !.phase = @ + 1]
      /\ UNCHANGED <<manifest, changes, versions, sender, wire, answers, copy>>
    BY DEF Pulls!PullerDone
<1>2. m \in ReqSet /\ m.type = "done"
    BY DEF ReqSet
<1> HIDE DEF m
<1>3. /\ requests' \in Seq(ReqSet)
      /\ \A j \in DOMAIN requests : j \in DOMAIN requests' /\ requests'[j] = requests[j]
      /\ \A j \in DOMAIN requests' :
           \/ j \in DOMAIN requests /\ requests'[j] = requests[j]
           \/ wire = "open" /\ j = Len(requests) + 1 /\ requests'[j] = m
      /\ \A i, j \in DOMAIN requests' : i < j => i \in DOMAIN requests /\ requests'[i] = requests[i]
      /\ requests' # << >> => wire = "open"
    BY <1>1, <1>2, RequestMade
<1>4. puller \in PullerSet
    BY DEF PullInv, PullTypes
<1>5. /\ puller' \in PullerSet /\ puller'.pc = "loop" /\ puller'.phase > 0
      /\ puller'.dry = puller.dry /\ puller'.list = puller.list /\ puller'.todo = {}
      /\ puller'.acks = puller.acks
    BY <1>1, <1>4 DEF PullerSet
<1>6. PullTypes'
    BY <1>1, <1>3, <1>5 DEF PullInv, PullTypes
<1>7. StampsPart' /\ ReadsPart'
    BY <1>1 DEF PullInv, StampsPart, ReadsPart, IsFile, Pulls!Plan
<1>8. ListsPart' /\ StartPart' /\ SessionPart'
    <2>1. \A l : ListOk(l) => ListOk(l)'
        BY <1>1 DEF ListOk, IsFile
    <2>2. Lists' = Lists
        BY <1>1, <1>5 DEF Lists
    <2>3. StartPart'
        BY <1>1, <1>5 DEF PullInv, StartPart
    <2>4. SessionPart'
        BY <1>1, <1>5 DEF PullInv, SessionPart
    <2> QED
        BY <2>1, <2>2, <2>3, <2>4 DEF PullInv, ListsPart
<1>9. NoneDone' = NoneDone
    BY <1>1 DEF NoneDone
<1>10. sender.pc # "flist"
    BY <1>1 DEF PullInv, StartPart
<1>11. PhasesPart'
    BY <1>1, <1>3, <1>5, <1>9, <1>10 DEF PullInv, PhasesPart
<1>12. ItemsPart'
    BY <1>1, <1>2, <1>3 DEF PullInv, ItemsPart
<1>13. DataPart'
    BY <1>1, <1>5, DataKept
<1>14. FilesPart'
    <2>1. \A k : UnderWay(k) => UnderWay(k)'
        BY <1>1, <1>3, <1>9 DEF UnderWay
    <2>2. \A e : Good(e) => Good(e)'
        BY <1>1 DEF Good
    <2> QED
        BY <1>1, <1>5, <2>1, <2>2 DEF PullInv, FilesPart
<1> QED
    BY <1>6, <1>7, <1>8, <1>11, <1>12, <1>13, <1>14 DEF PullInv

\* An entry of a list names a path.
LEMMA PathsOf ==
    ASSUME NEW l \in Seq(PullEntries)
    PROVE  \A k \in DOMAIN l : l[k] \in PullEntries /\ l[k].path \in Paths
<1>1. \A k \in DOMAIN l : l[k] \in PullEntries
    OBVIOUS
<1> QED
    BY <1>1 DEF PullEntries

\* Rows and entries are what they should be.
LEMMA ListsTyped ==
    ASSUME PullInv
    PROVE  /\ \A l \in Lists : l \in Seq(PullEntries)
           /\ puller.list \in Seq(PullEntries) /\ sender.list \in Seq(PullEntries)
           /\ \A k \in DOMAIN puller.list : puller.list[k] \in PullEntries
           /\ \A k \in DOMAIN sender.list : sender.list[k] \in PullEntries
           /\ ListOk(puller.list) /\ ListOk(sender.list)
<1>1. puller.list \in Seq(PullEntries) /\ sender.list \in Seq(PullEntries)
    BY DEF PullInv, PullTypes, PullerSet, SenderSet
<1>2. ASSUME NEW j \in DOMAIN answers, answers[j].type = "list" PROVE answers[j].list \in Seq(PullEntries)
    <2>1. answers[j] \in AnsSet
        BY DEF PullInv, PullTypes
    <2> QED
        BY <1>2, <2>1 DEF AnsSet
<1>3. ListOk(puller.list) /\ ListOk(sender.list)
    BY DEF PullInv, ListsPart, Lists
<1> QED
    BY <1>1, <1>2, <1>3 DEF Lists

\* A row that is written is a row, and not None.
LEMMA RowTyped ==
    ASSUME NEW kind \in {"file", "static"}, NEW blocks \in Blocks, NEW mtime \in Nat,
           NEW r, r = Pulls!Row(kind, blocks, mtime)
    PROVE  r \in PullRows /\ r # None /\ r.kind = kind /\ r.blocks = blocks /\ r.mtime = mtime
<1>1. None \notin PullRows
    BY RestoreAssumption DEF PullRows, Blocks
<1> QED
    BY <1>1 DEF PullRows, Pulls!Row

\* A file that arrives is a version of the session, and at its place in the list.
LEMMA PullerGetsFileStep == ASSUME PullInv, Pulls!PullerGetsFile PROVE PullInv'
<1> DEFINE m == Head(answers)
           e == puller.list[m.ndx]
           r == Pulls!Row("file", m.blocks, e.mtime)
<1>1. /\ puller.pc = "loop" /\ answers # << >> /\ m.type = "data" /\ answers' = Tail(answers)
      /\ copy' = [copy EXCEPT ![e.path] = r]
      /\ UNCHANGED <<manifest, changes, versions, puller, sender, wire, requests>>
    BY DEF Pulls!PullerGetsFile, Pulls!Comes
<1>2. /\ answers' \in Seq(AnsSet) /\ 1 \in DOMAIN answers /\ m = answers[1] /\ m \in AnsSet
      /\ \A j \in DOMAIN answers' : j + 1 \in DOMAIN answers /\ answers'[j] = answers[j + 1]
      /\ \A j \in DOMAIN answers : j = 1 \/ (j - 1 \in DOMAIN answers' /\ answers'[j - 1] = answers[j])
      /\ \A i, j \in DOMAIN answers' : i < j => i + 1 < j + 1
      /\ NoneDone => NoneDone'
    BY <1>1, AnswerTaken
<1>3. /\ m.ndx \in DOMAIN puller.list /\ e.kind = "file" /\ m.blocks \in versions[e.path]
      /\ IsFile(manifest[e.path]) /\ manifest[e.path].mtime = e.mtime => m.blocks = manifest[e.path].blocks
    BY <1>1, <1>2 DEF PullInv, DataPart, Fits
<1>4. /\ e \in PullEntries /\ \A k \in DOMAIN puller.list : puller.list[k].path = e.path => puller.list[k] = e
      /\ e.mtime <= changes
    BY <1>3, ListsTyped DEF ListOk
<1>5. e.path \in Paths /\ e.mtime \in Nat /\ m.blocks \in Blocks
    BY <1>1, <1>2, <1>4 DEF PullEntries, AnsSet
<1>6. PICK row : row = r
    OBVIOUS
<1>7. row \in PullRows /\ row # None /\ row.kind = "file" /\ row.blocks = m.blocks /\ row.mtime = e.mtime
    BY <1>5, <1>6, RowTyped
<1>8. PICK en, me : en = e /\ me = m
    OBVIOUS
<1>9. copy' = [copy EXCEPT ![en.path] = row] /\ copy \in [Paths -> PullRows \cup {None}]
    BY <1>1, <1>6, <1>8 DEF PullInv, PullTypes
<1> HIDE DEF m, e, r
<1>10. \A p \in Paths : copy'[p] = IF p = en.path THEN row ELSE copy[p]
    BY <1>5, <1>8, <1>9
<1>11. PullTypes'
    <2>1. copy' \in [Paths -> PullRows \cup {None}]
        BY <1>7, <1>9
    <2> QED
        BY <1>1, <1>2, <2>1 DEF PullInv, PullTypes
<1>12. StampsPart'
    BY <1>1, <1>3, <1>4, <1>5, <1>7, <1>8, <1>10 DEF PullInv, StampsPart, IsFile
<1>13. ItemsPart' /\ ReadsPart' /\ SessionPart'
    BY <1>1 DEF PullInv, ItemsPart, ReadsPart, SessionPart, IsFile, Pulls!Plan
<1>14. ListsPart' /\ StartPart'
    <2>1. ASSUME NEW l \in Seq(PullEntries), ListOk(l) PROVE ListOk(l)'
        <3>1. \A i \in DOMAIN l : l[i].path \in Paths
            BY PathsOf
        <3> QED
            BY <1>1, <1>3, <1>7, <1>8, <1>10, <2>1, <3>1 DEF ListOk, IsFile
    <2>2. Lists' \subseteq Lists
        BY <1>1, <1>2 DEF Lists
    <2>3. StartPart'
        BY <1>1, <1>2 DEF PullInv, StartPart
    <2> QED
        BY <2>1, <2>2, <2>3, ListsTyped DEF PullInv, ListsPart
<1>15. PhasesPart'
    BY <1>1, <1>2 DEF PullInv, PhasesPart
<1>18. DataPart'
    BY <1>1, DataKept
<1>16. FilesPart'
    <2>1. Good(en)'
        BY <1>1, <1>3, <1>5, <1>7, <1>8, <1>10 DEF Good
    <2>2. ASSUME NEW k \in DOMAIN puller.list, Good(puller.list[k]) PROVE Good(puller.list[k])'
        <3>1. CASE puller.list[k].path = en.path
            BY <1>1, <1>4, <1>8, <2>1, <3>1 DEF Good
        <3>2. CASE puller.list[k].path # en.path
            <4>1. puller.list[k].path \in Paths
                BY ListsTyped DEF PullEntries
            <4> QED
                BY <1>1, <1>10, <2>2, <3>2, <4>1 DEF Good
        <3> QED
            BY <3>1, <3>2
    <2>3. ASSUME NEW k \in DOMAIN puller.list, UnderWay(k) PROVE UnderWay(k)' \/ Good(puller.list[k])'
        <3>1. CASE k = m.ndx
            BY <1>1, <1>8, <2>1, <3>1 DEF Good, e
        <3>2. CASE k # m.ndx
            BY <1>1, <1>2, <2>3, <3>2 DEF UnderWay
        <3> QED
            BY <3>1, <3>2
    <2> QED
        BY <1>1, <2>2, <2>3, FilesKept DEF PullInv
<1> QED
    BY <1>11, <1>12, <1>13, <1>14, <1>15, <1>18, <1>16 DEF PullInv

\* A file that is asked for is under way; a directory or link is made.
LEMMA PullerAsksStep == ASSUME PullInv, Pulls!PullerAsks PROVE PullInv'
<1>1. PICK i \in puller.todo :
        /\ puller.pc = "loop"
        /\ Pulls!Asks([type |-> "item", ndx |-> i, transfer |-> puller.list[i].kind = "file"])
        /\ copy' = IF puller.list[i].kind = "static" /\ ~puller.dry
                   THEN [copy EXCEPT ![puller.list[i].path] = Pulls!Row("static", << >>, puller.list[i].mtime)]
                   ELSE copy
        /\ puller' = [puller EXCEPT !.todo = @ \ {i}]
        /\ UNCHANGED <<manifest, changes, versions, sender, wire, answers>>
    BY DEF Pulls!PullerAsks
<1>2. puller \in PullerSet /\ i \in DOMAIN puller.list /\ i \in Nat /\ puller.phase = 0
    BY DEF PullInv, PullTypes, SessionPart, PullerSet
<1>3. PICK e : e = puller.list[i]
    OBVIOUS
<1>4. /\ e \in PullEntries /\ e.path \in Paths /\ e.kind \in {"file", "static"} /\ e.mtime \in Nat
      /\ \A k \in DOMAIN puller.list : puller.list[k].path = e.path => puller.list[k] = e
      /\ e.mtime <= changes
    BY <1>2, <1>3, ListsTyped DEF ListOk, PullEntries
<1>5. PICK m : m = [type |-> "item", ndx |-> i, transfer |-> e.kind = "file"]
    OBVIOUS
<1>6. m \in ReqSet /\ m.type = "item" /\ m.ndx = i /\ (m.transfer <=> e.kind = "file")
    BY <1>2, <1>5 DEF ReqSet
<1>7. /\ requests' \in Seq(ReqSet)
      /\ \A j \in DOMAIN requests : j \in DOMAIN requests' /\ requests'[j] = requests[j]
      /\ \A j \in DOMAIN requests' :
           \/ j \in DOMAIN requests /\ requests'[j] = requests[j]
           \/ wire = "open" /\ j = Len(requests) + 1 /\ requests'[j] = m
      /\ \A j, k \in DOMAIN requests' : j < k => j \in DOMAIN requests /\ requests'[j] = requests[j]
      /\ wire = "open" => Len(requests) + 1 \in DOMAIN requests' /\ requests'[Len(requests) + 1] = m
      /\ requests' # << >> => wire = "open"
    BY <1>1, <1>3, <1>5, <1>6, RequestMade
<1>8. /\ puller' \in PullerSet /\ puller'.pc = "loop" /\ puller'.phase = 0
      /\ puller'.dry = puller.dry /\ puller'.list = puller.list /\ puller'.todo = puller.todo \ {i}
      /\ puller'.acks = puller.acks
    <2>1. puller.phase = 0 /\ puller.pc = "loop" /\ puller' = [puller EXCEPT !.todo = @ \ {i}]
        BY <1>1, <1>2
    <2>2. puller \in PullerSet
        BY <1>2
    <2> QED
        BY <2>1, <2>2 DEF PullerSet
<1>9. PICK row : row = Pulls!Row("static", << >>, e.mtime)
    OBVIOUS
<1>10. row \in PullRows /\ row # None /\ row.kind = "static" /\ row.mtime = e.mtime
    <2>1. "static" \in {"file", "static"} /\ << >> \in Blocks /\ e.mtime \in Nat
        BY <1>4 DEF Blocks
    <2> QED
        BY <1>9, <2>1, RowTyped
<1>11. copy \in [Paths -> PullRows \cup {None}]
    BY DEF PullInv, PullTypes
<1>12. /\ copy' \in [Paths -> PullRows \cup {None}]
       /\ \A p \in Paths : copy'[p] = copy[p] \/ (p = e.path /\ copy'[p] = row /\ e.kind = "static")
       /\ e.kind = "static" /\ ~puller.dry => copy'[e.path] = row
    <2>1. CASE e.kind = "static" /\ ~puller.dry
        <3>1. copy' = [copy EXCEPT ![e.path] = row]
            BY <1>1, <1>3, <1>9, <2>1
        <3> QED
            BY <1>4, <1>10, <1>11, <2>1, <3>1
    <2>2. CASE ~(e.kind = "static" /\ ~puller.dry)
        BY <1>1, <1>3, <1>11, <2>2
    <2> QED
        BY <2>1, <2>2
<1>13. PullTypes'
    BY <1>1, <1>7, <1>8, <1>12 DEF PullInv, PullTypes
<1>14. StampsPart'
    BY <1>1, <1>4, <1>10, <1>12 DEF PullInv, StampsPart, IsFile
<1>15. ReadsPart'
    BY <1>1 DEF PullInv, ReadsPart, IsFile, Pulls!Plan
<1>16. ListsPart' /\ StartPart' /\ SessionPart'
    <2>1. ASSUME NEW l \in Seq(PullEntries), ListOk(l) PROVE ListOk(l)'
        <3>1. \A k \in DOMAIN l : l[k].path \in Paths
            BY PathsOf
        <3> QED
            BY <1>1, <1>10, <1>12, <2>1, <3>1 DEF ListOk, IsFile
    <2>2. Lists' = Lists
        BY <1>1, <1>8 DEF Lists
    <2>3. StartPart'
        BY <1>1, <1>8 DEF PullInv, StartPart
    <2>4. SessionPart'
        BY <1>1, <1>8 DEF PullInv, SessionPart
    <2> QED
        BY <2>1, <2>2, <2>3, <2>4, ListsTyped DEF PullInv, ListsPart
<1>17. sender.pc # "flist" /\ NoneDone' = NoneDone
    BY <1>1 DEF PullInv, StartPart, NoneDone
<1>18. PhasesPart'
    BY <1>1, <1>2, <1>6, <1>7, <1>8, <1>17 DEF PullInv, PhasesPart
<1>19. ItemsPart'
    <2>1. wire = "open" => sender.list = puller.list
        BY <1>1 DEF PullInv, SessionPart, PhasesPart
    <2>2. sender.phase = 0 /\ \A j \in DOMAIN requests : requests[j].type # "done"
        BY <1>1, <1>2 DEF PullInv, PhasesPart
    <2> QED
        BY <1>1, <1>2, <1>3, <1>6, <1>7, <2>1, <2>2 DEF PullInv, ItemsPart
<1>20. DataPart'
    BY <1>1, <1>8, DataKept
<1>21. FilesPart'
    <2>1. \A k : UnderWay(k) => UnderWay(k)'
        BY <1>1, <1>7, <1>17 DEF UnderWay
    <2>2. ASSUME NEW k \in DOMAIN puller.list, Good(puller.list[k]) PROVE Good(puller.list[k])'
        <3>1. puller.list[k].path \in Paths
            BY ListsTyped DEF PullEntries
        <3> QED
            BY <1>1, <1>4, <1>8, <1>10, <1>12, <2>2, <3>1 DEF Good
    <2>3. ASSUME ~puller.dry PROVE Good(e)' \/ (e.kind = "file" /\ puller.acks = 0 /\ UnderWay(i)')
        <3>1. CASE e.kind = "static"
            BY <1>4, <1>10, <1>12, <2>3, <3>1 DEF Good
        <3>2. CASE e.kind = "file" /\ wire = "open"
            BY <1>1, <1>2, <1>6, <1>7, <3>2 DEF PullInv, PhasesPart, UnderWay
        <3>3. CASE e.kind = "file" /\ wire # "open"
            BY <1>1, <1>2, <1>17, <3>3 DEF PullInv, PhasesPart, UnderWay
        <3> QED
            BY <1>4, <3>1, <3>2, <3>3
    <2>4. ASSUME ~puller.dry, NEW k \in DOMAIN puller.list
          PROVE  \/ Good(puller.list[k])'
                 \/ k \in puller'.todo
                 \/ puller.acks = 0 /\ puller.list[k].kind = "file" /\ UnderWay(k)'
        <3>1. CASE k = i
            BY <1>3, <2>3, <2>4, <3>1, <1>8 DEF Good
        <3>2. CASE k # i
            BY <1>8, <2>1, <2>2, <2>4, <3>2 DEF PullInv, FilesPart
        <3> QED
            BY <3>1, <3>2
    <2> QED
        BY <1>8, <2>4 DEF FilesPart, Good
<1> QED
    BY <1>13, <1>14, <1>15, <1>16, <1>18, <1>19, <1>20, <1>21 DEF PullInv

\* What the copy need not ask for it has already, in a version of the session.
LEMMA PullerGetsListStep == ASSUME PullInv, Pulls!PullerGetsList PROVE PullInv'
<1> DEFINE list == Head(answers).list
           todo == {i \in DOMAIN list : Pulls!Differs(list[i])}
<1>1. /\ puller.pc = "list" /\ answers # << >> /\ Head(answers).type = "list" /\ answers' = Tail(answers)
      /\ \/ /\ puller' = [Pulls!NoPuller EXCEPT !.rc = "failed"] /\ wire' = "broken"
         \/ /\ puller' = [Pulls!NoPuller EXCEPT !.rc = puller.rc] /\ wire' = "broken"
         \/ /\ puller' = [puller EXCEPT !.pc = "loop", !.list = list, !.todo = todo] /\ UNCHANGED wire
      /\ UNCHANGED <<manifest, changes, versions, sender, requests, copy>>
    BY DEF Pulls!PullerGetsList, Pulls!Comes
<1>2. /\ 1 \in DOMAIN answers /\ Head(answers) = answers[1]
      /\ Len(answers) = 1 => answers' = << >>
    BY <1>1, AnswerTaken
<1>3. puller \in PullerSet /\ wire \in {"open", "closed", "broken"}
    BY DEF PullInv, PullTypes
<1>4. /\ list \in Lists /\ 1 = Len(answers)
      /\ sender.pc = "done" \/ sender.list = list
      /\ requests = << >> /\ puller.phase = 0
    BY <1>1, <1>2 DEF PullInv, StartPart, Lists
<1>5. answers' = << >> /\ NoneDone'
    BY <1>2, <1>4 DEF NoneDone
<1>6. list \in Seq(PullEntries) /\ ListOk(list)
    BY <1>4, ListsTyped DEF PullInv, ListsPart
<1>7. sender.pc # "flist"
    BY <1>1 DEF PullInv, StartPart
<1>8. todo \subseteq DOMAIN list /\ todo \subseteq Nat
    BY <1>6
<1>9. ASSUME NEW k \in DOMAIN list, k \notin todo PROVE Good(list[k])
    <2>1. ~Pulls!Differs(list[k])
        BY <1>9
    <2> QED
        BY <1>6, <2>1 DEF Pulls!Differs, ListOk, IsFile, Good
<1>10. PICK l, td : l = list /\ td = todo
    OBVIOUS
<1> HIDE DEF list, todo
<1>11. StampsPart' /\ ItemsPart' /\ ReadsPart'
    BY <1>1 DEF PullInv, StampsPart, ItemsPart, ReadsPart, IsFile, Pulls!Plan
<1>12. \A s : ListOk(s) => ListOk(s)'
    BY <1>1 DEF ListOk, IsFile
<1>13. \A e : Good(e) => Good(e)'
    BY <1>1 DEF Good
<1>14. DataPart'
    BY <1>5 DEF DataPart
<1>15. manifest' \in [Paths -> PullRows \cup {None}] /\ copy' \in [Paths -> PullRows \cup {None}]
       /\ changes' \in Nat /\ versions' \in [Paths -> SUBSET Blocks] /\ sender' \in SenderSet
       /\ requests' \in Seq(ReqSet)
    BY <1>1 DEF PullInv, PullTypes
<1>16. answers' \in Seq(AnsSet)
    BY <1>5
<1>17. << >> \in Seq(PullEntries) /\ ListOk(<< >>)
    BY DEF ListOk
<1>18. ASSUME NEW rc \in {"none", "ok", "partial", "failed"},
              puller' = [Pulls!NoPuller EXCEPT !.rc = rc], wire' = "broken"
       PROVE  PullInv'
    <2>1. /\ puller' \in PullerSet /\ puller'.pc = "ended" /\ puller'.list = << >> /\ puller'.todo = {}
          /\ puller'.phase = 0 /\ puller'.acks = 0
        BY <1>17, <1>18 DEF PullerSet, Pulls!NoPuller
    <2>2. PullTypes'
        BY <1>15, <1>16, <1>18, <2>1 DEF PullTypes
    <2>3. ListsPart'
        <3>1. Lists' \subseteq Lists \cup {<< >>}
            BY <1>1, <1>5, <2>1 DEF Lists
        <3> QED
            BY <1>12, <1>17, <3>1 DEF PullInv, ListsPart
    <2>4. StartPart' /\ SessionPart'
        BY <1>1, <1>4, <1>5, <2>1 DEF PullInv, StartPart, SessionPart
    <2>5. PhasesPart' /\ FilesPart'
        BY <1>1, <1>4, <1>5, <1>18, <2>1 DEF PullInv, PhasesPart, FilesPart
    <2> QED
        BY <1>11, <1>14, <2>2, <2>3, <2>4, <2>5 DEF PullInv
<1>19. ASSUME puller' = [puller EXCEPT !.pc = "loop", !.list = l, !.todo = td], UNCHANGED wire PROVE PullInv'
    <2>1. PICK q : q = [puller EXCEPT !.pc = "loop", !.list = l]
        OBVIOUS
    <2>2. /\ q \in PullerSet /\ q.pc = "loop" /\ q.list = l /\ q.phase = puller.phase /\ q.acks = puller.acks
          /\ q.dry = puller.dry
        BY <1>3, <1>6, <1>10, <2>1 DEF PullerSet
    <2>3. puller' = [q EXCEPT !.todo = td]
        BY <1>19, <2>1
    <2>4. /\ puller' \in PullerSet /\ puller'.pc = "loop" /\ puller'.list = l /\ puller'.todo = td
          /\ puller'.phase = 0 /\ puller'.acks = puller.acks /\ puller'.dry = puller.dry
        BY <1>4, <1>8, <1>10, <2>2, <2>3 DEF PullerSet
    <2>5. PullTypes'
        BY <1>3, <1>15, <1>16, <1>19, <2>4 DEF PullTypes
    <2>6. ListsPart'
        <3>1. Lists' \subseteq Lists
            BY <1>1, <1>4, <1>5, <1>10, <2>4 DEF Lists
        <3> QED
            BY <1>12, <3>1 DEF PullInv, ListsPart
    <2>7. StartPart'
        BY <1>1, <1>5, <1>7, <2>4 DEF StartPart
    <2>8. SessionPart'
        BY <1>1, <1>4, <1>8, <1>10, <2>4 DEF PullInv, SessionPart
    <2>9. PhasesPart'
        BY <1>1, <1>4, <1>5, <1>19, <2>4 DEF PullInv, PhasesPart
    <2>10. FilesPart'
        BY <1>9, <1>10, <1>13, <2>4 DEF FilesPart
    <2> QED
        BY <1>11, <1>14, <2>5, <2>6, <2>7, <2>8, <2>9, <2>10 DEF PullInv
<1>20. puller.rc \in {"none", "ok", "partial", "failed"}
    BY <1>3 DEF PullerSet
<1> QED
    BY <1>1, <1>10, <1>18, <1>19, <1>20

\* A stream grows by one message.
LEMMA Joined ==
    ASSUME NEW S, NEW s \in Seq(S), NEW m \in S
    PROVE  s \o <<m>> = Append(s, m) /\ Append(s, m) \in Seq(S)
OBVIOUS

\* The goodbye comes when no file is under way any more.
LEMMA PullerGoodbyeStep == ASSUME PullInv, Pulls!PullerGoodbye PROVE PullInv'
<1> DEFINE stats == [type |-> "delstats"]
           done  == [type |-> "done"]
<1>1. /\ puller.pc = "goodbye" /\ puller' = [puller EXCEPT !.pc = "last"]
      /\ UNCHANGED <<manifest, changes, versions, sender, wire, answers, copy>>
      /\ \/ wire # "open" /\ requests' = requests
         \/ wire = "open" /\ requests' = (requests \o <<stats>>) \o <<done>>
         \/ wire = "open" /\ requests' = (requests \o << >>) \o <<done>>
    BY DEF Pulls!PullerGoodbye
<1>2. stats \in ReqSet /\ done \in ReqSet /\ stats.type = "delstats" /\ done.type = "done"
    BY DEF ReqSet
<1>3. PICK st, dn : st = stats /\ dn = done
    OBVIOUS
<1> HIDE DEF stats, done
<1>4. requests \in Seq(ReqSet) /\ puller \in PullerSet
    BY DEF PullInv, PullTypes
<1>5. /\ requests' \in Seq(ReqSet)
      /\ \A j \in DOMAIN requests : j \in DOMAIN requests' /\ requests'[j] = requests[j]
      /\ \A j \in DOMAIN requests' : \/ j \in DOMAIN requests /\ requests'[j] = requests[j]
                                     \/ requests'[j] \in {st, dn}
      /\ \A i, j \in DOMAIN requests' : i < j /\ j \in DOMAIN requests => i \in DOMAIN requests
      /\ requests' = requests \/ wire = "open"
    <2>1. ASSUME requests' = (requests \o <<st>>) \o <<dn>>
          PROVE  /\ requests' \in Seq(ReqSet)
                 /\ \A j \in DOMAIN requests : j \in DOMAIN requests' /\ requests'[j] = requests[j]
                 /\ \A j \in DOMAIN requests' : \/ j \in DOMAIN requests /\ requests'[j] = requests[j]
                                                \/ requests'[j] \in {st, dn}
                 /\ \A i, j \in DOMAIN requests' : i < j /\ j \in DOMAIN requests => i \in DOMAIN requests
        <3>2. PICK r : r = Append(requests, st)
            OBVIOUS
        <3>6. r = requests \o <<st>> /\ r \in Seq(ReqSet)
            BY <1>2, <1>3, <1>4, <3>2, Joined
        <3>1. requests' = Append(r, dn)
            BY <1>2, <1>3, <2>1, <3>6, Joined
        <3>3. /\ r \in Seq(ReqSet)
              /\ \A j \in DOMAIN requests : j \in DOMAIN r /\ r[j] = requests[j]
              /\ \A j \in DOMAIN r : (j \in DOMAIN requests /\ r[j] = requests[j]) \/ r[j] = st
            BY <1>2, <1>3, <1>4, <3>2, Grown
        <3>4. /\ requests' \in Seq(ReqSet)
              /\ \A j \in DOMAIN r : j \in DOMAIN requests' /\ requests'[j] = r[j]
              /\ \A j \in DOMAIN requests' : (j \in DOMAIN r /\ requests'[j] = r[j]) \/ requests'[j] = dn
            BY <1>2, <1>3, <3>1, <3>3, Grown
        <3>5. \A i, j \in DOMAIN requests' : i < j /\ j \in DOMAIN requests => i \in DOMAIN requests
            BY <1>4, <3>4
        <3> QED
            BY <3>3, <3>4, <3>5
    <2>2. ASSUME requests' = (requests \o << >>) \o <<dn>>
          PROVE  /\ requests' \in Seq(ReqSet)
                 /\ \A j \in DOMAIN requests : j \in DOMAIN requests' /\ requests'[j] = requests[j]
                 /\ \A j \in DOMAIN requests' : \/ j \in DOMAIN requests /\ requests'[j] = requests[j]
                                                \/ requests'[j] \in {st, dn}
                 /\ \A i, j \in DOMAIN requests' : i < j /\ j \in DOMAIN requests => i \in DOMAIN requests
        <3>1. requests' = Append(requests, dn)
            <4>1. requests \o << >> = requests
                BY <1>4
            <4> QED
                BY <1>2, <1>3, <1>4, <2>2, <4>1, Joined
        <3>2. /\ requests' \in Seq(ReqSet)
              /\ \A j \in DOMAIN requests : j \in DOMAIN requests' /\ requests'[j] = requests[j]
              /\ \A j \in DOMAIN requests' : (j \in DOMAIN requests /\ requests'[j] = requests[j]) \/ requests'[j] = dn
            BY <1>2, <1>3, <1>4, <3>1, Grown
        <3>3. \A i, j \in DOMAIN requests' : i < j /\ j \in DOMAIN requests => i \in DOMAIN requests
            BY <1>4, <3>2
        <3> QED
            BY <3>2, <3>3
    <2>3. CASE wire # "open"
        BY <1>1, <1>4, <2>3
    <2>4. CASE wire = "open"
        BY <1>1, <1>3, <2>1, <2>2, <2>4
    <2> QED
        BY <2>3, <2>4
<1>6. /\ puller' \in PullerSet /\ puller'.pc = "last" /\ puller'.phase = puller.phase
      /\ puller'.dry = puller.dry /\ puller'.list = puller.list /\ puller'.todo = puller.todo
      /\ puller'.acks = puller.acks
    BY <1>1, <1>4 DEF PullerSet
<1>7. PullTypes'
    BY <1>1, <1>5, <1>6 DEF PullInv, PullTypes
<1>8. StampsPart' /\ ReadsPart'
    BY <1>1 DEF PullInv, StampsPart, ReadsPart, IsFile, Pulls!Plan
<1>9. ListsPart' /\ StartPart' /\ SessionPart'
    <2>1. \A l : ListOk(l) => ListOk(l)'
        BY <1>1 DEF ListOk, IsFile
    <2>2. Lists' = Lists
        BY <1>1, <1>6 DEF Lists
    <2>3. StartPart'
        BY <1>1, <1>6 DEF PullInv, StartPart
    <2>4. SessionPart'
        BY <1>1, <1>6 DEF PullInv, SessionPart, PhasesPart
    <2> QED
        BY <2>1, <2>2, <2>3, <2>4 DEF PullInv, ListsPart
<1>10. sender.pc # "flist" /\ NoneDone' = NoneDone
    BY <1>1 DEF PullInv, StartPart, NoneDone
<1>11. PhasesPart'
    BY <1>1, <1>5, <1>6, <1>10 DEF PullInv, PhasesPart
<1>12. ItemsPart'
    BY <1>1, <1>2, <1>3, <1>5 DEF PullInv, ItemsPart
<1>13. DataPart'
    BY <1>1, <1>6, DataKept
<1>14. FilesPart'
    <2>1. \A e : Good(e) => Good(e)'
        BY <1>1 DEF Good
    <2> QED
        BY <1>1, <1>6, <2>1 DEF PullInv, PhasesPart, FilesPart
<1> QED
    BY <1>7, <1>8, <1>9, <1>11, <1>12, <1>13, <1>14 DEF PullInv

\* The pull ends with nothing under way.
LEMMA PullerLastStep == ASSUME PullInv, Pulls!PullerLast PROVE PullInv'
<1> DEFINE done == [type |-> "done"]
<1>1. /\ puller.pc = "last" /\ answers # << >> /\ answers' = Tail(answers)
      /\ \/ Pulls!Asks(done) /\ puller' = [puller EXCEPT !.pc = "ended"]
         \/ UNCHANGED <<requests, puller>>
      /\ UNCHANGED <<manifest, changes, versions, sender, wire, copy>>
    BY DEF Pulls!PullerLast
<1>2. done \in ReqSet /\ done.type = "done"
    BY DEF ReqSet
<1>3. PICK dn : dn = done
    OBVIOUS
<1> HIDE DEF done
<1>4. requests \in Seq(ReqSet) /\ puller \in PullerSet
    BY DEF PullInv, PullTypes
<1>5. /\ requests' \in Seq(ReqSet)
      /\ \A j \in DOMAIN requests : j \in DOMAIN requests' /\ requests'[j] = requests[j]
      /\ \A j \in DOMAIN requests' : \/ j \in DOMAIN requests /\ requests'[j] = requests[j]
                                     \/ j = Len(requests) + 1 /\ requests'[j] = dn
      /\ \A i, j \in DOMAIN requests' : i < j => i \in DOMAIN requests /\ requests'[i] = requests[i]
      /\ requests' = requests \/ wire = "open"
    <2>1. CASE Pulls!Asks(done)
        <3>1. Pulls!Asks(dn) /\ dn \in ReqSet
            BY <1>2, <1>3, <2>1
        <3>2. wire # "open" => requests' = requests
            BY <3>1 DEF Pulls!Asks
        <3> QED
            BY <3>1, <3>2, RequestMade
    <2>2. CASE UNCHANGED <<requests, puller>>
        BY <1>4, <2>2
    <2> QED
        BY <1>1, <2>1, <2>2
<1>6. /\ answers' \in Seq(AnsSet)
      /\ \A j \in DOMAIN answers' : j + 1 \in DOMAIN answers /\ answers'[j] = answers[j + 1] /\ 1 < j + 1
      /\ \A i, j \in DOMAIN answers' : i < j => i + 1 < j + 1
      /\ NoneDone => NoneDone'
    BY <1>1, AnswerTaken
<1>7. /\ puller' \in PullerSet /\ puller'.pc \in {"last", "ended"} /\ puller'.phase = puller.phase
      /\ puller'.dry = puller.dry /\ puller'.list = puller.list /\ puller'.todo = puller.todo
      /\ puller'.acks = puller.acks
    <2>1. CASE puller' = puller
        BY <1>1, <1>4, <2>1
    <2>2. CASE puller' = [puller EXCEPT !.pc = "ended"]
        BY <1>4, <2>2 DEF PullerSet
    <2> QED
        BY <1>1, <2>1, <2>2
<1>8. PullTypes'
    BY <1>1, <1>5, <1>6, <1>7 DEF PullInv, PullTypes
<1>9. StampsPart' /\ ReadsPart'
    BY <1>1 DEF PullInv, StampsPart, ReadsPart, IsFile, Pulls!Plan
<1>10. puller.acks > 0 /\ puller.todo = {} /\ sender.pc # "flist"
    BY <1>1 DEF PullInv, PhasesPart, StartPart
<1>11. ListsPart' /\ StartPart' /\ SessionPart'
    <2>1. \A l : ListOk(l) => ListOk(l)'
        BY <1>1 DEF ListOk, IsFile
    <2>2. Lists' \subseteq Lists
        BY <1>1, <1>6, <1>7 DEF Lists
    <2>3. StartPart'
        BY <1>1, <1>6, <1>7, <1>10 DEF PullInv, StartPart
    <2>4. SessionPart'
        BY <1>1, <1>7, <1>10 DEF PullInv, SessionPart
    <2> QED
        BY <2>1, <2>2, <2>3, <2>4 DEF PullInv, ListsPart
<1>12. PhasesPart'
    BY <1>1, <1>5, <1>6, <1>7, <1>10 DEF PullInv, PhasesPart
<1>13. ItemsPart'
    BY <1>1, <1>2, <1>3, <1>5 DEF PullInv, ItemsPart
<1>14. DataPart'
    BY <1>1, <1>7, DataKept
<1>15. FilesPart'
    <2>1. \A e : Good(e) => Good(e)'
        BY <1>1 DEF Good
    <2>2. puller.acks # 0
        BY <1>4, <1>10 DEF PullerSet
    <2> QED
        BY <1>1, <1>7, <1>10, <2>1, <2>2 DEF PullInv, FilesPart
<1> QED
    BY <1>8, <1>9, <1>11, <1>12, <1>13, <1>14, <1>15 DEF PullInv

\* A client that lost its connection forgets the list.
LEMMA PullerFailsStep == ASSUME PullInv, Pulls!PullerFails PROVE PullInv'
<1>1. PICK rc \in {"partial", "failed"} :
        /\ puller' = [Pulls!NoPuller EXCEPT !.rc = rc] /\ wire # "open"
        /\ UNCHANGED <<manifest, changes, versions, sender, wire, requests, answers, copy>>
    BY DEF Pulls!PullerFails
<1>2. << >> \in Seq(PullEntries) /\ ListOk(<< >>)
    BY DEF ListOk
<1>3. /\ puller' \in PullerSet /\ puller'.pc = "ended" /\ puller'.list = << >> /\ puller'.todo = {}
      /\ puller'.phase = 0 /\ puller'.acks = 0
    BY <1>1, <1>2 DEF PullerSet, Pulls!NoPuller
<1>4. PullTypes'
    BY <1>1, <1>3 DEF PullInv, PullTypes
<1>5. StampsPart' /\ ItemsPart' /\ ReadsPart'
    BY <1>1 DEF PullInv, StampsPart, ItemsPart, ReadsPart, IsFile, Pulls!Plan
<1>6. ListsPart'
    <2>1. \A l : ListOk(l) => ListOk(l)'
        BY <1>1 DEF ListOk, IsFile
    <2>2. Lists' \subseteq Lists \cup {<< >>}
        BY <1>1, <1>3 DEF Lists
    <2> QED
        BY <1>2, <2>1, <2>2 DEF PullInv, ListsPart
<1>7. StartPart' /\ SessionPart'
    BY <1>1, <1>3 DEF PullInv, StartPart, SessionPart
<1>8. PhasesPart'
    BY <1>1, <1>3 DEF PullInv, PhasesPart, NoneDone
<1>9. DataPart' /\ FilesPart'
    BY <1>3 DEF DataPart, FilesPart
<1> QED
    BY <1>4, <1>5, <1>6, <1>7, <1>8, <1>9 DEF PullInv

\* A connection that breaks takes its messages along.
LEMMA PullBreaksStep == ASSUME PullInv, Pulls!PullBreaks PROVE PullInv'
<1>1. /\ wire' = "broken" /\ requests' = << >> /\ answers' = << >>
      /\ UNCHANGED <<manifest, changes, versions, puller, sender, copy>>
    BY DEF Pulls!PullBreaks
<1>2. PullTypes'
    BY <1>1 DEF PullInv, PullTypes
<1>3. StampsPart' /\ ItemsPart' /\ ReadsPart' /\ SessionPart'
    BY <1>1 DEF PullInv, StampsPart, ItemsPart, ReadsPart, SessionPart, IsFile, Pulls!Plan
<1>4. ListsPart' /\ StartPart'
    <2>1. \A l : ListOk(l) => ListOk(l)'
        BY <1>1 DEF ListOk, IsFile
    <2>2. Lists' \subseteq Lists
        BY <1>1 DEF Lists
    <2> QED
        BY <1>1, <2>1, <2>2 DEF PullInv, ListsPart, StartPart
<1>5. NoneDone'
    BY <1>1 DEF NoneDone
<1>6. PhasesPart' /\ DataPart'
    BY <1>1, <1>5 DEF PullInv, PhasesPart, DataPart
<1>7. FilesPart'
    <2>1. \A k : UnderWay(k)'
        BY <1>1, <1>5 DEF UnderWay
    <2>2. \A e : Good(e) => Good(e)'
        BY <1>1 DEF Good
    <2> QED
        BY <1>1, <2>1, <2>2 DEF PullInv, FilesPart
<1> QED
    BY <1>2, <1>3, <1>4, <1>6, <1>7 DEF PullInv

\* A new session starts without list, items and answers.
LEMMA PullStep == ASSUME PullInv, Pulls!Pull PROVE PullInv'
<1>1. PICK dry \in BOOLEAN :
        /\ puller' = [Pulls!NoPuller EXCEPT !.pc = "list", !.rc = "ok", !.dry = dry]
        /\ sender' = [Pulls!NoSender EXCEPT !.pc = "flist", !.dry = dry]
        /\ wire' = "open" /\ requests' = << >> /\ answers' = << >>
        /\ UNCHANGED <<manifest, changes, versions, copy>>
    BY DEF Pulls!Pull
<1>2. << >> \in Seq(PullEntries) /\ << >> \in Seq(PullBlocks)
    OBVIOUS
<1>3. puller' = [pc |-> "list", rc |-> "ok", dry |-> dry, list |-> << >>, todo |-> {}, phase |-> 0, acks |-> 0]
    BY <1>1 DEF Pulls!NoPuller
<1>4. sender' = [pc |-> "flist", dry |-> dry, list |-> << >>, phase |-> 0, ndx |-> 0,
                 size |-> 0, plan |-> None, sent |-> << >>]
    BY <1>1 DEF Pulls!NoSender
<1>5. puller' \in PullerSet
    BY <1>2, <1>3 DEF PullerSet
<1>6. sender' \in SenderSet
    BY <1>2, <1>4 DEF SenderSet
<1>7. PullTypes'
    BY <1>1, <1>5, <1>6 DEF PullInv, PullTypes
<1>8. StampsPart'
    BY <1>1 DEF PullInv, StampsPart, IsFile
<1>13. /\ puller'.pc = "list" /\ puller'.list = << >> /\ puller'.todo = {} /\ puller'.phase = 0
       /\ puller'.acks = 0 /\ puller'.dry = dry
    BY <1>3
<1>14. /\ sender'.pc = "flist" /\ sender'.list = << >> /\ sender'.phase = 0 /\ sender'.dry = dry
       /\ sender'.sent = << >>
    BY <1>4
<1>15. /\ DOMAIN answers' = {} /\ DOMAIN requests' = {} /\ DOMAIN puller'.list = {}
    BY <1>1, <1>13
<1>9. ListsPart'
    <2>1. Lists' = {<< >>}
        BY <1>13, <1>14, <1>15 DEF Lists
    <2>2. \A l : l = << >> => ListOk(l)'
        BY DEF ListOk
    <2> QED
        BY <2>1, <2>2 DEF ListsPart
<1>16. StartPart'
    BY <1>1, <1>13, <1>14, <1>15 DEF StartPart
<1>17. SessionPart'
    BY <1>13, <1>14 DEF SessionPart
<1>18. ItemsPart'
    BY <1>15 DEF ItemsPart
<1>19. ReadsPart'
    BY <1>14 DEF ReadsPart
<1>20. NoneDone'
    BY <1>15 DEF NoneDone
<1>10. PhasesPart'
    BY <1>1, <1>13, <1>14, <1>15, <1>20 DEF PhasesPart
<1>11. DataPart'
    BY <1>15 DEF DataPart
<1>12. FilesPart'
    BY <1>15 DEF FilesPart
<1> QED
    BY <1>7, <1>8, <1>9, <1>10, <1>11, <1>12, <1>16, <1>17, <1>18, <1>19 DEF PullInv

\* A version that comes later has a stamp that nobody has yet.
LEMMA ChangeStep == ASSUME PullInv, Pulls!Change PROVE PullInv'
<1>1. PICK p \in Paths, r \in {None, Pulls!Row("static", << >>, changes + 1)}
                               \cup {Pulls!Row("file", s, changes + 1) : s \in Contents} :
        /\ changes' = changes + 1
        /\ manifest' = [manifest EXCEPT ![p] = r]
        /\ versions' = [versions EXCEPT ![p] = @ \cup Pulls!Content(r)]
        /\ UNCHANGED <<puller, sender, wire, requests, answers, copy>>
    BY DEF Pulls!Change, Pulls!session
<1>2. /\ manifest \in [Paths -> PullRows \cup {None}] /\ changes \in Nat
      /\ versions \in [Paths -> SUBSET Blocks] /\ copy \in [Paths -> PullRows \cup {None}]
    BY DEF PullInv, PullTypes
<1>3. /\ r \in PullRows \cup {None}
      /\ r # None => r.mtime = changes + 1 /\ (r.kind = "static" => r.blocks = << >>)
    <2>1. changes + 1 \in Nat /\ << >> \in Blocks /\ Contents \subseteq Blocks
        BY <1>2 DEF Blocks
    <2> QED
        BY <2>1, RowTyped
<1>4. PICK c : c = Pulls!Content(r)
    OBVIOUS
<1>5. c \subseteq Blocks /\ (IsFile(r) => r.blocks \in c)
    BY <1>3, <1>4 DEF Pulls!Content, IsFile, PullRows
<1>6. /\ manifest' \in [Paths -> PullRows \cup {None}]
      /\ \A q \in Paths : manifest'[q] = IF q = p THEN r ELSE manifest[q]
    BY <1>1, <1>2, <1>3
<1>7. /\ versions' \in [Paths -> SUBSET Blocks]
      /\ \A q \in Paths : versions[q] \subseteq versions'[q]
      /\ c \subseteq versions'[p]
    <2>1. versions' = [versions EXCEPT ![p] = versions[p] \cup c]
        BY <1>1, <1>4
    <2> QED
        BY <1>2, <1>5, <2>1
<1>8. changes' \in Nat /\ changes < changes'
    BY <1>1, <1>2
<1>9. PullTypes'
    BY <1>1, <1>6, <1>7, <1>8 DEF PullInv, PullTypes
<1>10. StampsPart'
    <2>1. \A q \in Paths : /\ manifest[q] # None => manifest[q].mtime \in Nat
                           /\ copy[q] # None => copy[q].mtime \in Nat
        BY <1>2 DEF PullRows
    <2> QED
        BY <1>1, <1>2, <1>3, <1>6, <2>1 DEF PullInv, StampsPart, IsFile
<1>11. ListsPart'
    <2>1. ASSUME NEW l \in Seq(PullEntries), ListOk(l) PROVE ListOk(l)'
        <3>1. \A i \in DOMAIN l : l[i].path \in Paths /\ l[i].mtime \in Nat
            BY PathsOf DEF PullEntries
        <3> QED
            BY <1>1, <1>2, <1>7, <1>8, <2>1, <3>1 DEF ListOk, IsFile
    <2>2. Lists' = Lists
        BY <1>1 DEF Lists
    <2> QED
        BY <2>1, <2>2, ListsTyped DEF PullInv, ListsPart
<1>12. StartPart' /\ SessionPart' /\ ItemsPart'
    BY <1>1 DEF PullInv, StartPart, SessionPart, ItemsPart
<1>13. PhasesPart'
    BY <1>1 DEF PullInv, PhasesPart, NoneDone
<1>14. ReadsPart'
    <2>1. sender.pc \in {"loop", "blocks", "get"} =>
            \A q \in Paths : IsFile(manifest[q])' => manifest'[q].blocks \in versions'[q]
        BY <1>5, <1>6, <1>7 DEF PullInv, ReadsPart, IsFile
    <2>2. ASSUME sender.pc \in {"blocks", "get"}
          PROVE  /\ sender.phase = 0 /\ ~sender.dry
                 /\ sender.ndx \in DOMAIN sender.list /\ sender.list[sender.ndx].kind = "file"
                 /\ sender.size = 0 => << >> \in versions'[sender.list[sender.ndx].path]
        BY <1>7, <2>2, ListsTyped DEF PullInv, ReadsPart, PullEntries
    <2>3. ASSUME sender.pc = "get", NEW e, e = sender.list[sender.ndx]
          PROVE  /\ IsFile(sender.plan) => sender.plan.blocks \in versions'[e.path]
                 /\ ~IsFile(sender.plan) => Pulls!Plan = << >>
                 /\ IsFile(manifest[e.path])' /\ manifest'[e.path].mtime = e.mtime =>
                      sender.plan = manifest'[e.path]
                 /\ Len(sender.sent) <= Len(Pulls!Plan)
                 /\ \A i \in DOMAIN sender.sent : sender.sent[i] = Pulls!Plan[i]
        <3>1. e.path \in Paths /\ e.mtime \in Nat /\ e.mtime <= changes
            BY <2>3, ListsTyped DEF PullInv, ReadsPart, PullEntries, ListOk
        <3>2. /\ IsFile(sender.plan) => sender.plan.blocks \in versions[e.path]
              /\ ~IsFile(sender.plan) => Pulls!Plan = << >>
              /\ IsFile(manifest[e.path]) /\ manifest[e.path].mtime = e.mtime =>
                      sender.plan = manifest[e.path]
              /\ Len(sender.sent) <= Len(Pulls!Plan)
              /\ \A i \in DOMAIN sender.sent : sender.sent[i] = Pulls!Plan[i]
            BY <2>3 DEF PullInv, ReadsPart
        <3>3. IsFile(manifest[e.path])' /\ manifest'[e.path].mtime = e.mtime => manifest'[e.path] = manifest[e.path]
            BY <1>2, <1>3, <1>6, <3>1 DEF IsFile
        <3> QED
            BY <1>7, <3>1, <3>2, <3>3 DEF IsFile
    <2>4. sender' = sender /\ Pulls!Plan' = Pulls!Plan
        BY <1>1 DEF Pulls!Plan
    <2> QED
        BY <2>1, <2>2, <2>3, <2>4 DEF PullInv, ReadsPart, IsFile
<1>15. DataPart'
    <2>1. \A e \in PullEntries : e.mtime <= changes /\ IsFile(manifest[e.path])' /\ manifest'[e.path].mtime = e.mtime =>
                                   manifest'[e.path] = manifest[e.path]
        BY <1>2, <1>3, <1>6 DEF IsFile, PullEntries
    <2>2. \A k \in DOMAIN puller.list : puller.list[k] \in PullEntries /\ puller.list[k].mtime <= changes
        BY ListsTyped DEF ListOk
    <2>3. \A e \in PullEntries : versions[e.path] \subseteq versions'[e.path]
        BY <1>7 DEF PullEntries
    <2> QED
        <3>1. \A j \in DOMAIN puller.list : puller.list[j] \in PullEntries /\ puller.list[j].mtime <= changes
            BY <2>2
        <3>2. \A m : Fits(m) => Fits(m)'
            BY <1>1, <2>1, <2>3, <3>1 DEF Fits
        <3>3. DataPart
            BY DEF PullInv
        <3> QED
            BY <1>1, <3>2, <3>3 DEF DataPart
<1>16. FilesPart'
    <2>1. \A e \in PullEntries : Good(e) => Good(e)'
        BY <1>1, <1>7 DEF Good, PullEntries
    <2>2. \A k : UnderWay(k) => UnderWay(k)'
        BY <1>1 DEF UnderWay, NoneDone
    <2> QED
        BY <1>1, <2>1, <2>2, ListsTyped, FilesKept DEF PullInv
<1> QED
    BY <1>9, <1>10, <1>11, <1>12, <1>13, <1>14, <1>15, <1>16 DEF PullInv

\* The error returns: nothing more is read, and what was written can still be read.
LEMMA SenderLeavesStep ==
    ASSUME PullInv, Pulls!SenderLeaves, sender.pc # "done",
           UNCHANGED <<manifest, changes, versions, puller, answers, copy>>
    PROVE  PullInv'
<1>1. /\ sender' = Pulls!NoSender /\ requests' = << >>
      /\ wire' \in {"open", "closed", "broken"} /\ wire' # "open"
      /\ wire # "open" => wire' = wire
    BY DEF Pulls!SenderLeaves, PullInv, PullTypes
<1>2. << >> \in Seq(PullEntries) /\ << >> \in Seq(PullBlocks)
    OBVIOUS
<1>3. /\ sender' \in SenderSet /\ sender'.pc = "done" /\ sender'.list = << >> /\ sender'.phase = 0
    BY <1>1, <1>2 DEF SenderSet, Pulls!NoSender
<1>4. PullTypes'
    BY <1>1, <1>3 DEF PullInv, PullTypes
<1>5. StampsPart'
    BY DEF PullInv, StampsPart, IsFile
<1>6. ListsPart'
    <2>1. \A l : ListOk(l) => ListOk(l)'
        BY DEF ListOk, IsFile
    <2>2. Lists' \subseteq Lists \cup {<< >>}
        BY <1>3 DEF Lists
    <2>3. ListOk(<< >>)
        BY DEF ListOk
    <2> QED
        BY <2>1, <2>2, <2>3 DEF PullInv, ListsPart
<1>7. StartPart'
    BY <1>1, <1>3 DEF PullInv, StartPart
<1>8. SessionPart'
    BY <1>3 DEF PullInv, SessionPart
<1>9. NoneDone' = NoneDone
    BY DEF NoneDone
<1>10. PhasesPart'
    BY <1>1, <1>3, <1>9 DEF PullInv, PhasesPart
<1>11. ItemsPart' /\ ReadsPart'
    BY <1>1, <1>3 DEF ItemsPart, ReadsPart
<1>12. DataPart'
    BY DataKept
<1>13. FilesPart'
    <2>1. \A e : Good(e) => Good(e)'
        BY DEF Good
    <2>2. ASSUME NEW k, UnderWay(k) PROVE UnderWay(k)'
        <3>1. CASE \E j \in DOMAIN answers : answers[j].type = "data" /\ answers[j].ndx = k
            BY <3>1 DEF UnderWay
        <3>2. CASE sender.phase = 0 \/ NoneDone
            BY <1>1, <1>9, <3>2 DEF PullInv, PhasesPart, UnderWay
        <3> QED
            BY <2>2, <3>1, <3>2 DEF PullInv, ItemsPart, ReadsPart, UnderWay
    <2> QED
        BY <2>1, <2>2, FilesKept DEF PullInv
<1> QED
    BY <1>4, <1>5, <1>6, <1>7, <1>8, <1>10, <1>11, <1>12, <1>13 DEF PullInv

\* The server leaves when the client is gone.
LEMMA SenderLosesPullerStep == ASSUME PullInv, Pulls!SenderLosesPuller PROVE PullInv'
BY SenderLeavesStep DEF Pulls!SenderLosesPuller

\* The block list that is read is a version that the row has now.
LEMMA StreamPlanStep == ASSUME PullInv, Pulls!StreamPlan PROVE PullInv'
<1>1. /\ sender.pc = "blocks" /\ sender' = [sender EXCEPT !.pc = "get", !.plan = Pulls!Streamed]
      /\ UNCHANGED <<manifest, changes, versions, puller, wire, requests, answers, copy>>
    BY DEF Pulls!StreamPlan
<1>2. sender \in SenderSet /\ manifest \in [Paths -> PullRows \cup {None}]
    BY DEF PullInv, PullTypes
<1>3. PICK e : e = sender.list[sender.ndx]
    OBVIOUS
<1>4. /\ e \in PullEntries /\ e.path \in Paths /\ sender.phase = 0 /\ ~sender.dry /\ sender.sent = << >>
      /\ sender.ndx \in DOMAIN sender.list /\ e.kind = "file"
      /\ sender.size = 0 => << >> \in versions[e.path]
    BY <1>1, <1>3, ListsTyped DEF PullInv, ReadsPart, PullEntries
<1>5. PICK r : r = manifest[e.path]
    OBVIOUS
<1>6. Pulls!Streamed = r /\ r \in PullRows \cup {None}
    BY <1>2, <1>3, <1>4, <1>5 DEF Pulls!Streamed
<1>7. PICK q : q = [sender EXCEPT !.pc = "get"]
    OBVIOUS
<1>8. /\ q \in SenderSet /\ q.pc = "get" /\ q.dry = sender.dry /\ q.list = sender.list /\ q.phase = sender.phase
      /\ q.ndx = sender.ndx /\ q.size = sender.size /\ q.sent = sender.sent
    BY <1>2, <1>7 DEF SenderSet
<1>9. sender' = [q EXCEPT !.plan = r]
    BY <1>1, <1>6, <1>7
<1>10. /\ sender' \in SenderSet /\ sender'.pc = "get" /\ sender'.dry = sender.dry /\ sender'.list = sender.list
       /\ sender'.phase = sender.phase /\ sender'.ndx = sender.ndx /\ sender'.size = sender.size
       /\ sender'.sent = sender.sent /\ sender'.plan = r
    BY <1>6, <1>8, <1>9 DEF SenderSet
<1>11. PullTypes'
    BY <1>1, <1>10 DEF PullInv, PullTypes
<1>12. StampsPart'
    BY <1>1 DEF PullInv, StampsPart, IsFile
<1>21. DataPart'
    BY <1>1, DataKept
<1>13. ListsPart'
    <2>1. \A l : ListOk(l) => ListOk(l)'
        BY <1>1 DEF ListOk, IsFile
    <2>2. Lists' = Lists
        BY <1>1, <1>10 DEF Lists
    <2> QED
        BY <2>1, <2>2 DEF PullInv, ListsPart
<1>14. StartPart'
    BY <1>1, <1>10 DEF PullInv, StartPart
<1>15. SessionPart'
    BY <1>1, <1>10 DEF PullInv, SessionPart
<1>16. NoneDone' = NoneDone
    BY <1>1 DEF NoneDone
<1>17. PhasesPart'
    BY <1>1, <1>10, <1>16 DEF PullInv, PhasesPart
<1>18. ItemsPart'
    BY <1>1, <1>10 DEF PullInv, ItemsPart
<1>19. ReadsPart'
    <2>1. \A p \in Paths : IsFile(manifest[p]) => manifest[p].blocks \in versions[p]
        BY <1>1 DEF PullInv, ReadsPart
    <2>2. Pulls!Plan' = IF r = None THEN << >> ELSE r.blocks
        BY <1>10 DEF Pulls!Plan
    <2>3. ~IsFile(r) => Pulls!Plan' = << >>
        BY <1>4, <1>5, <1>6, <2>2 DEF PullInv, StampsPart, IsFile, PullRows
    <2>4. Pulls!Plan' \in Blocks
        BY <1>6, <2>2 DEF PullRows, Blocks
    <2>5. 0 <= Len(Pulls!Plan')
        BY <2>4, BlocksAreSequences
    <2>6. sender'.list[sender'.ndx] = e
        BY <1>3, <1>10
    <2>7. IsFile(r) => r.blocks \in versions[e.path]
        BY <1>4, <1>5, <2>1
    <2> QED
        BY <1>1, <1>4, <1>5, <1>10, <2>1, <2>3, <2>5, <2>6, <2>7 DEF ReadsPart, IsFile
<1>20. FilesPart'
    <2>1. \A e1 : Good(e1) => Good(e1)'
        BY <1>1 DEF Good
    <2>2. \A k : UnderWay(k) => UnderWay(k)'
        BY <1>1, <1>10, <1>16 DEF UnderWay
    <2> QED
        BY <1>1, <2>1, <2>2, FilesKept DEF PullInv
<1> QED
    BY <1>11, <1>12, <1>21, <1>13, <1>14, <1>15, <1>17, <1>18, <1>19, <1>20 DEF PullInv

\* Only what is not transferred is answered without data.
LEMMA SendEchoStep == ASSUME PullInv, Pulls!SendEcho PROVE PullInv'
<1> DEFINE echo == Pulls!Answer("echo")
<1>1. /\ sender.pc = "loop" /\ requests # << >> /\ Head(requests).type = "item"
      /\ ~Head(requests).transfer \/ sender.dry
      /\ requests' = Tail(requests) /\ Pulls!Answers(echo)
      /\ UNCHANGED <<manifest, changes, versions, puller, sender, wire, copy>>
    BY DEF Pulls!SendEcho, Pulls!Looping, Pulls!Reads, Pulls!Comes
<1>2. echo \in AnsSet /\ echo.type = "echo"
    BY DEF AnsSet, Pulls!Answer
<1>3. PICK m : m = echo
    OBVIOUS
<1> HIDE DEF echo
<1>4. m \in AnsSet /\ m.type = "echo" /\ Pulls!Answers(m)
    BY <1>1, <1>2, <1>3
<1>5. /\ answers' \in Seq(AnsSet)
      /\ \A j \in DOMAIN answers : j \in DOMAIN answers' /\ answers'[j] = answers[j]
      /\ \A j \in DOMAIN answers' :
           \/ j \in DOMAIN answers /\ answers'[j] = answers[j]
           \/ wire = "open" /\ j = Len(answers) + 1 /\ answers'[j] = m
      /\ \A i, j \in DOMAIN answers' : i < j => i \in DOMAIN answers /\ answers'[i] = answers[i]
      /\ NoneDone => NoneDone'
    BY <1>4, AnswerMade
<1>6. /\ requests' \in Seq(ReqSet) /\ 1 \in DOMAIN requests /\ Head(requests) = requests[1]
      /\ \A j \in DOMAIN requests' : j + 1 \in DOMAIN requests /\ requests'[j] = requests[j + 1] /\ 1 < j + 1
      /\ \A j \in DOMAIN requests : j = 1 \/ (j - 1 \in DOMAIN requests' /\ requests'[j - 1] = requests[j])
      /\ \A i, j \in DOMAIN requests' : i < j => i + 1 < j + 1
    BY <1>1, RequestTaken
<1>7. PullTypes'
    BY <1>1, <1>5, <1>6 DEF PullInv, PullTypes
<1>8. StampsPart' /\ ReadsPart'
    BY <1>1 DEF PullInv, StampsPart, ReadsPart, IsFile, Pulls!Plan
<1>9. ListsPart'
    <2>1. \A l : ListOk(l) => ListOk(l)'
        BY <1>1 DEF ListOk, IsFile
    <2>2. Lists' \subseteq Lists
        BY <1>1, <1>4, <1>5 DEF Lists
    <2> QED
        BY <2>1, <2>2 DEF PullInv, ListsPart
<1>10. StartPart'
    BY <1>1, <1>4, <1>5, <1>6 DEF PullInv, StartPart
<1>11. SessionPart'
    BY <1>1 DEF PullInv, SessionPart
<1>12. PhasesPart'
    BY <1>1, <1>5, <1>6 DEF PullInv, PhasesPart
<1>13. ItemsPart'
    BY <1>1, <1>6 DEF PullInv, ItemsPart
<1>14. DataPart'
    <2>1. \A n : Fits(n) => Fits(n)'
        BY <1>1 DEF Fits, IsFile
    <2>2. DataPart
        BY DEF PullInv
    <2> QED
        BY <1>1, <1>4, <1>5, <2>1, <2>2 DEF DataPart
<1>15. FilesPart'
    <2>1. \A e : Good(e) => Good(e)'
        BY <1>1 DEF Good
    <2>2. ASSUME ~puller.dry, puller.pc # "ended" PROVE ~Head(requests).transfer
        BY <1>1, <2>2 DEF PullInv, SessionPart
    <2>3. ASSUME ~puller.dry, NEW k, puller.pc # "ended", UnderWay(k) PROVE UnderWay(k)'
        <3>1. CASE \E j \in DOMAIN requests : requests[j].type = "item" /\ requests[j].ndx = k /\ requests[j].transfer
            BY <1>6, <2>2, <2>3, <3>1 DEF UnderWay
        <3>2. CASE \E j \in DOMAIN answers : answers[j].type = "data" /\ answers[j].ndx = k
            BY <1>5, <3>2 DEF UnderWay
        <3>3. CASE wire # "open" /\ NoneDone
            BY <1>1, <1>5, <3>3 DEF UnderWay
        <3> QED
            BY <1>1, <2>3, <3>1, <3>2, <3>3 DEF UnderWay
    <2> QED
        BY <1>1, <2>1, <2>3 DEF PullInv, FilesPart
<1> QED
    BY <1>7, <1>8, <1>9, <1>10, <1>11, <1>12, <1>13, <1>14, <1>15 DEF PullInv

\* The size of a row is zero only for an empty file.
LEMMA SizeTyped ==
    ASSUME NEW r \in PullRows
    PROVE  /\ r # None /\ Pulls!Size(r) \in Nat
           /\ Pulls!Size(r) = 0 => IsFile(r) /\ r.blocks = << >>
<1>1. r # None
    BY RestoreAssumption DEF PullRows, Blocks
<1>2. r.blocks \in Blocks
    BY DEF PullRows
<1>3. PICK s : s = r.blocks
    OBVIOUS
<1>4. Len(s) \in Nat /\ (Len(s) = 0 => s = << >>)
    BY <1>2, <1>3, BlocksAreSequences
<1>5. CASE r.kind = "file"
    BY <1>1, <1>3, <1>4, <1>5 DEF Pulls!Size, IsFile
<1>6. CASE r.kind # "file"
    BY <1>1, <1>6 DEF Pulls!Size
<1> QED
    BY <1>1, <1>5, <1>6

\* An item becomes the file that is streamed.
LEMMA StreamSizeStep == ASSUME PullInv, Pulls!StreamSize PROVE PullInv'
<1> DEFINE k == Head(requests).ndx
           e == sender.list[k]
           r == manifest[e.path]
<1>1. /\ sender.pc = "loop" /\ requests # << >> /\ Head(requests).type = "item"
      /\ Head(requests).transfer /\ ~sender.dry
      /\ \/ Pulls!SenderLeaves
         \/ /\ r # None /\ sender' = [sender EXCEPT !.pc = "blocks", !.ndx = k, !.size = Pulls!Size(r)]
            /\ requests' = Tail(requests) /\ UNCHANGED wire
      /\ UNCHANGED <<manifest, changes, versions, puller, answers, copy>>
    BY DEF Pulls!StreamSize, Pulls!Looping, Pulls!Reads, Pulls!Comes
<1>2. CASE Pulls!SenderLeaves
    BY <1>1, <1>2, SenderLeavesStep
<1>3. CASE /\ r # None /\ sender' = [sender EXCEPT !.pc = "blocks", !.ndx = k, !.size = Pulls!Size(r)]
           /\ requests' = Tail(requests) /\ UNCHANGED wire
    <2>1. /\ requests' \in Seq(ReqSet) /\ 1 \in DOMAIN requests /\ Head(requests) = requests[1]
          /\ \A j \in DOMAIN requests' : j + 1 \in DOMAIN requests /\ requests'[j] = requests[j + 1] /\ 1 < j + 1
          /\ \A j \in DOMAIN requests : j = 1 \/ (j - 1 \in DOMAIN requests' /\ requests'[j - 1] = requests[j])
          /\ \A i, j \in DOMAIN requests' : i < j => i + 1 < j + 1
        BY <1>1, <1>3, RequestTaken
    <2>2. /\ sender.phase = 0 /\ k \in DOMAIN sender.list /\ e.kind = "file"
        BY <1>1, <2>1 DEF PullInv, ItemsPart
    <2>3. sender \in SenderSet /\ manifest \in [Paths -> PullRows \cup {None}]
        BY DEF PullInv, PullTypes
    <2>4. /\ e \in PullEntries /\ e.path \in Paths /\ k \in Nat
        BY <2>2, <2>3, ListsTyped DEF PullEntries, SenderSet
    <2>5. r \in PullRows
        BY <1>3, <2>3, <2>4
    <2>6. Pulls!Size(r) \in Nat /\ (Pulls!Size(r) = 0 => IsFile(r) /\ r.blocks = << >>)
        BY <2>5, SizeTyped
    <2>7. Pulls!Size(r) = 0 => << >> \in versions[e.path]
        BY <1>1, <2>4, <2>6 DEF PullInv, ReadsPart
    <2>8. PICK k0, n, e0 : k0 = k /\ n = Pulls!Size(r) /\ e0 = e
        OBVIOUS
    <2> HIDE DEF r, e, k
    <2>9. PICK q1 : q1 = [sender EXCEPT !.pc = "blocks"]
        OBVIOUS
    <2>10. /\ q1 \in SenderSet /\ q1.pc = "blocks" /\ q1.dry = sender.dry /\ q1.list = sender.list
           /\ q1.phase = sender.phase /\ q1.sent = sender.sent
        BY <2>3, <2>9 DEF SenderSet
    <2>11. PICK q2 : q2 = [q1 EXCEPT !.ndx = k0]
        OBVIOUS
    <2>12. /\ q2 \in SenderSet /\ q2.pc = "blocks" /\ q2.dry = sender.dry /\ q2.list = sender.list
           /\ q2.phase = sender.phase /\ q2.sent = sender.sent /\ q2.ndx = k0
        BY <2>4, <2>8, <2>10, <2>11 DEF SenderSet
    <2>13. sender' = [q2 EXCEPT !.size = n]
        BY <1>3, <2>8, <2>9, <2>11
    <2>14. /\ sender' \in SenderSet /\ sender'.pc = "blocks" /\ sender'.dry = sender.dry /\ sender'.list = sender.list
           /\ sender'.phase = sender.phase /\ sender'.sent = sender.sent /\ sender'.ndx = k0 /\ sender'.size = n
        BY <2>6, <2>8, <2>12, <2>13 DEF SenderSet
    <2>15. PullTypes'
        BY <1>1, <1>3, <2>1, <2>14 DEF PullInv, PullTypes
    <2>16. StampsPart'
        BY <1>1 DEF PullInv, StampsPart, IsFile
    <2>30. DataPart'
        BY <1>1, DataKept
    <2>17. ListsPart'
        <3>1. \A l : ListOk(l) => ListOk(l)'
            BY <1>1 DEF ListOk, IsFile
        <3>2. Lists' = Lists
            BY <1>1, <2>14 DEF Lists
        <3> QED
            BY <3>1, <3>2 DEF PullInv, ListsPart
    <2>18. StartPart'
        BY <1>1, <2>1, <2>14 DEF PullInv, StartPart
    <2>19. SessionPart'
        BY <1>1, <2>14 DEF PullInv, SessionPart
    <2>20. NoneDone' = NoneDone
        BY <1>1 DEF NoneDone
    <2>21. PhasesPart'
        BY <1>1, <1>3, <2>1, <2>14, <2>20 DEF PullInv, PhasesPart
    <2>22. ItemsPart'
        BY <1>1, <2>1, <2>14 DEF PullInv, ItemsPart
    <2>23. ReadsPart'
        <3>1. \A p \in Paths : IsFile(manifest[p]) => manifest[p].blocks \in versions[p]
            BY <1>1 DEF PullInv, ReadsPart
        <3>2. sender.sent = << >>
            BY <1>1 DEF PullInv, ReadsPart
        <3>3. sender'.list[sender'.ndx] = e0 /\ k0 \in DOMAIN sender.list /\ e0.kind = "file"
            BY <2>2, <2>8, <2>14 DEF e
        <3>4. n = 0 => << >> \in versions[e0.path]
            BY <2>7, <2>8
        <3> QED
            BY <1>1, <2>2, <2>14, <3>1, <3>2, <3>3, <3>4 DEF ReadsPart, IsFile
    <2>24. FilesPart'
        <3>1. \A e1 : Good(e1) => Good(e1)'
            BY <1>1 DEF Good
        <3>2. ASSUME NEW i, UnderWay(i) PROVE UnderWay(i)'
            <4>1. CASE \E j \in DOMAIN requests : requests[j].type = "item" /\ requests[j].ndx = i /\ requests[j].transfer
                BY <2>1, <2>8, <2>14, <4>1 DEF UnderWay, k
            <4> QED
                BY <1>1, <1>3, <2>20, <3>2, <4>1 DEF UnderWay
        <3> QED
            BY <1>1, <3>1, <3>2, FilesKept DEF PullInv
    <2> QED
        BY <2>15, <2>16, <2>30, <2>17, <2>18, <2>19, <2>21, <2>22, <2>23, <2>24 DEF PullInv
<1> QED
    BY <1>1, <1>2, <1>3

\* What is sent grows along the block list that was read.
LEMMA StreamBlockStep == ASSUME PullInv, Pulls!StreamBlock PROVE PullInv'
<1>1. /\ sender.pc = "get" /\ Len(sender.sent) < Len(Pulls!Plan)
      /\ \/ /\ sender' = [sender EXCEPT !.sent = Append(@, Pulls!Plan[Len(@) + 1])]
            /\ UNCHANGED <<wire, requests>>
         \/ Pulls!SenderLeaves
      /\ UNCHANGED <<manifest, changes, versions, puller, answers, copy>>
    BY DEF Pulls!StreamBlock
<1>2. CASE Pulls!SenderLeaves
    BY <1>1, <1>2, SenderLeavesStep
<1>3. CASE /\ sender' = [sender EXCEPT !.sent = Append(@, Pulls!Plan[Len(@) + 1])]
           /\ UNCHANGED <<wire, requests>>
    <2>1. sender \in SenderSet
        BY DEF PullInv, PullTypes
    <2>2. PICK plan, sent : plan = Pulls!Plan /\ sent = sender.sent
        OBVIOUS
    <2>3. /\ sent \in Seq(PullBlocks) /\ Len(sent) < Len(plan) /\ plan \in Blocks
          /\ \A i \in DOMAIN sent : sent[i] = plan[i]
        <3>1. plan \in Blocks
            BY <2>1, <2>2 DEF SenderSet, Pulls!Plan, PullRows, Blocks
        <3> QED
            BY <1>1, <2>1, <2>2, <3>1 DEF PullInv, ReadsPart, SenderSet
    <2>4. PICK b : b = plan[Len(sent) + 1]
        OBVIOUS
    <2>5. Len(plan) \in Nat /\ DOMAIN plan = 1 .. Len(plan)
        BY <2>3, BlocksAreSequences
    <2>6. Len(sent) + 1 \in DOMAIN plan /\ Len(sent) \in Nat
        BY <2>3, <2>5
    <2>7. b \in PullBlocks
        BY <2>3, <2>4, <2>6 DEF Blocks, PullBlocks
    <2>8. PICK t : t = Append(sent, b)
        OBVIOUS
    <2>9. /\ t \in Seq(PullBlocks) /\ Len(t) <= Len(plan) /\ \A i \in DOMAIN t : t[i] = plan[i]
        <3>1. /\ t \in Seq(PullBlocks) /\ Len(t) = Len(sent) + 1
              /\ \A k \in DOMAIN t : (k \in DOMAIN sent /\ t[k] = sent[k]) \/ (k = Len(sent) + 1 /\ t[k] = b)
            BY <2>3, <2>7, <2>8, Appended
        <3> QED
            BY <2>3, <2>4, <2>5, <2>6, <3>1
    <2>10. sender' = [sender EXCEPT !.sent = t]
        BY <1>3, <2>2, <2>4, <2>8
    <2>11. /\ sender' \in SenderSet /\ sender'.pc = "get" /\ sender'.dry = sender.dry /\ sender'.list = sender.list
           /\ sender'.phase = sender.phase /\ sender'.ndx = sender.ndx /\ sender'.size = sender.size
           /\ sender'.plan = sender.plan /\ sender'.sent = t
        BY <1>1, <2>1, <2>9, <2>10 DEF SenderSet
    <2>12. PullTypes'
        BY <1>1, <1>3, <2>11 DEF PullInv, PullTypes
    <2>13. StampsPart'
        BY <1>1 DEF PullInv, StampsPart, IsFile
    <2>30. DataPart'
        BY <1>1, DataKept
    <2>14. ListsPart'
        <3>1. \A l : ListOk(l) => ListOk(l)'
            BY <1>1 DEF ListOk, IsFile
        <3>2. Lists' = Lists
            BY <1>1, <2>11 DEF Lists
        <3> QED
            BY <3>1, <3>2 DEF PullInv, ListsPart
    <2>15. StartPart'
        BY <1>1, <1>3, <2>11 DEF PullInv, StartPart
    <2>16. SessionPart'
        BY <1>1, <2>11 DEF PullInv, SessionPart
    <2>17. NoneDone' = NoneDone
        BY <1>1 DEF NoneDone
    <2>18. PhasesPart'
        BY <1>1, <1>3, <2>11, <2>17 DEF PullInv, PhasesPart
    <2>19. ItemsPart'
        BY <1>3, <2>11 DEF PullInv, ItemsPart
    <2>20. ReadsPart'
        <3>1. Pulls!Plan' = plan
            BY <2>2, <2>11 DEF Pulls!Plan
        <3>2. sender.ndx \in DOMAIN sender.list /\ sender.pc \in {"loop", "blocks", "get"}
            BY <1>1 DEF PullInv, ReadsPart
        <3> QED
            BY <1>1, <2>2, <2>9, <2>11, <3>1, <3>2 DEF PullInv, ReadsPart, IsFile
    <2>21. FilesPart'
        <3>1. \A e : Good(e) => Good(e)'
            BY <1>1 DEF Good
        <3>2. \A k : UnderWay(k) => UnderWay(k)'
            BY <1>1, <1>3, <2>11, <2>17 DEF UnderWay
        <3> QED
            BY <1>1, <3>1, <3>2, FilesKept DEF PullInv
    <2> QED
        BY <2>12, <2>13, <2>30, <2>14, <2>15, <2>16, <2>18, <2>19, <2>20, <2>21 DEF PullInv
<1> QED
    BY <1>1, <1>2, <1>3

\* Whatever was replaced meanwhile: what has been read is one version, and if the row
\* is still the one of the list, that version.
LEMMA StreamEndStep == ASSUME PullInv, Pulls!StreamEnd PROVE PullInv'
<1> DEFINE data == [type |-> "data", ndx |-> sender.ndx, blocks |-> sender.sent]
<1>1. /\ sender.pc = "get" /\ Len(sender.sent) >= Len(Pulls!Plan)
      /\ \/ Pulls!SenderLeaves /\ UNCHANGED answers
         \/ /\ Len(sender.sent) = sender.size /\ Pulls!Answers(data)
            /\ sender' = [sender EXCEPT !.pc = "loop", !.plan = None, !.sent = << >>]
            /\ UNCHANGED <<wire, requests>>
      /\ UNCHANGED <<manifest, changes, versions, puller, copy>>
    BY DEF Pulls!StreamEnd
<1>2. CASE Pulls!SenderLeaves /\ UNCHANGED answers
    BY <1>1, <1>2, SenderLeavesStep
<1>3. CASE /\ Len(sender.sent) = sender.size /\ Pulls!Answers(data)
           /\ sender' = [sender EXCEPT !.pc = "loop", !.plan = None, !.sent = << >>]
           /\ UNCHANGED <<wire, requests>>
    <2>1. sender \in SenderSet
        BY DEF PullInv, PullTypes
    <2>2. PICK plan, sent, e : plan = Pulls!Plan /\ sent = sender.sent /\ e = sender.list[sender.ndx]
        OBVIOUS
    <2>3. /\ sender.phase = 0 /\ ~sender.dry /\ sender.ndx \in DOMAIN sender.list /\ e.kind = "file"
          /\ sender.size = 0 => << >> \in versions[e.path]
          /\ IsFile(sender.plan) => sender.plan.blocks \in versions[e.path]
          /\ ~IsFile(sender.plan) => plan = << >>
          /\ IsFile(manifest[e.path]) /\ manifest[e.path].mtime = e.mtime => sender.plan = manifest[e.path]
          /\ Len(sent) <= Len(plan) /\ \A i \in DOMAIN sent : sent[i] = plan[i]
        BY <1>1, <2>2 DEF PullInv, ReadsPart
    <2>4. plan \in Blocks /\ (IsFile(sender.plan) => plan = sender.plan.blocks)
        BY <2>1, <2>2 DEF SenderSet, Pulls!Plan, PullRows, Blocks, IsFile
    <2>5. e \in PullEntries /\ e.path \in Paths /\ sender.ndx \in Nat
        BY <2>1, <2>2, <2>3, ListsTyped DEF PullEntries, SenderSet
    <2>6. sent = plan
        <3>1. sent \in Seq(PullBlocks)
            BY <2>1, <2>2 DEF SenderSet
        <3>2. /\ Len(plan) \in Nat /\ DOMAIN plan = 1 .. Len(plan) /\ plan = [i \in DOMAIN plan |-> plan[i]]
            BY <2>4, BlocksAreSequences
        <3>3. /\ Len(sent) \in Nat /\ DOMAIN sent = 1 .. Len(sent) /\ sent = [i \in DOMAIN sent |-> sent[i]]
            BY <3>1
        <3>4. Len(sent) = Len(plan)
            BY <1>1, <2>2, <2>3, <3>2, <3>3
        <3> QED
            BY <2>3, <3>2, <3>3, <3>4
    <2>7. /\ sent \in versions[e.path] /\ sent \in Blocks
          /\ IsFile(manifest[e.path]) /\ manifest[e.path].mtime = e.mtime => sent = manifest[e.path].blocks
        <3>1. CASE IsFile(sender.plan)
            BY <2>3, <2>4, <2>6, <3>1
        <3>2. CASE ~IsFile(sender.plan)
            <4>1. sent = << >> /\ Len(sent) = 0
                BY <2>3, <2>6, <3>2
            <4>2. << >> \in versions[e.path]
                BY <1>3, <2>2, <2>3, <4>1
            <4>3. ~(IsFile(manifest[e.path]) /\ manifest[e.path].mtime = e.mtime)
                BY <2>3, <3>2 DEF IsFile
            <4> QED
                BY <2>4, <2>6, <4>1, <4>2, <4>3
        <3> QED
            BY <3>1, <3>2
    <2>8. data \in AnsSet /\ data.type = "data" /\ data.ndx = sender.ndx /\ data.blocks = sent
        BY <2>2, <2>5, <2>7 DEF AnsSet
    <2>9. PICK m : m = data
        OBVIOUS
    <2> HIDE DEF data
    <2>10. m \in AnsSet /\ m.type = "data" /\ m.ndx = sender.ndx /\ m.blocks = sent /\ Pulls!Answers(m)
        BY <1>3, <2>8, <2>9
    <2>11. /\ answers' \in Seq(AnsSet)
           /\ \A j \in DOMAIN answers : j \in DOMAIN answers' /\ answers'[j] = answers[j]
           /\ \A j \in DOMAIN answers' :
                \/ j \in DOMAIN answers /\ answers'[j] = answers[j]
                \/ wire = "open" /\ j = Len(answers) + 1 /\ answers'[j] = m
           /\ \A i, j \in DOMAIN answers' : i < j => i \in DOMAIN answers /\ answers'[i] = answers[i]
           /\ wire = "open" => Len(answers) + 1 \in DOMAIN answers' /\ answers'[Len(answers) + 1] = m
           /\ NoneDone => NoneDone'
        BY <2>10, AnswerMade
    <2>12. NoneDone /\ NoneDone'
        BY <1>1, <2>3, <2>11 DEF PullInv, PhasesPart
    <2>13. PICK q1 : q1 = [sender EXCEPT !.pc = "loop"]
        OBVIOUS
    <2>14. /\ q1 \in SenderSet /\ q1.pc = "loop" /\ q1.dry = sender.dry /\ q1.list = sender.list
           /\ q1.phase = sender.phase
        BY <2>1, <2>13 DEF SenderSet
    <2>15. PICK q2 : q2 = [q1 EXCEPT !.plan = None]
        OBVIOUS
    <2>16. /\ q2 \in SenderSet /\ q2.pc = "loop" /\ q2.dry = sender.dry /\ q2.list = sender.list
           /\ q2.phase = sender.phase
        BY <2>14, <2>15 DEF SenderSet
    <2>17. sender' = [q2 EXCEPT !.sent = << >>]
        BY <1>3, <2>13, <2>15
    <2>18. /\ sender' \in SenderSet /\ sender'.pc = "loop" /\ sender'.dry = sender.dry /\ sender'.list = sender.list
           /\ sender'.phase = sender.phase /\ sender'.sent = << >>
        <3>1. << >> \in Seq(PullBlocks)
            OBVIOUS
        <3> QED
            BY <2>16, <2>17, <3>1 DEF SenderSet
    <2>19. PullTypes'
        BY <1>1, <1>3, <2>11, <2>18 DEF PullInv, PullTypes
    <2>20. StampsPart'
        BY <1>1 DEF PullInv, StampsPart, IsFile
    <2>21. ListsPart'
        <3>1. \A l : ListOk(l) => ListOk(l)'
            BY <1>1 DEF ListOk, IsFile
        <3>2. Lists' \subseteq Lists
            BY <1>1, <2>10, <2>11, <2>18 DEF Lists
        <3> QED
            BY <3>1, <3>2 DEF PullInv, ListsPart
    <2>22. StartPart'
        BY <1>1, <1>3, <2>10, <2>11, <2>18 DEF PullInv, StartPart
    <2>23. SessionPart'
        BY <1>1, <2>18 DEF PullInv, SessionPart
    <2>24. PhasesPart'
        BY <1>1, <1>3, <2>12, <2>18 DEF PullInv, PhasesPart
    <2>25. ItemsPart'
        BY <1>3, <2>18 DEF PullInv, ItemsPart
    <2>26. ReadsPart'
        BY <1>1, <2>18 DEF PullInv, ReadsPart, IsFile
    <2>27. DataPart'
        <3>1. puller.pc # "ended" => puller.list = sender.list /\ puller.acks = 0
            <4>1. puller.acks = 0
                BY <1>1, <2>3 DEF PullInv, PhasesPart, PullTypes, PullerSet
            <4>2. puller.pc \in {"list", "loop", "goodbye", "last", "ended"}
                BY DEF PullInv, PullTypes, PullerSet
            <4> QED
                BY <1>1, <4>1, <4>2 DEF PullInv, StartPart, SessionPart
        <3>2. \A j \in DOMAIN answers' : answers'[j].type # "done"
            BY <2>12 DEF NoneDone
        <3>3. \A n : Fits(n) => Fits(n)'
            BY <1>1 DEF Fits, IsFile
        <3>4. puller.pc # "ended" => Fits(m)
            BY <2>2, <2>3, <2>7, <2>10, <3>1 DEF Fits
        <3>5. ASSUME puller.pc # "ended", NEW j \in DOMAIN answers', answers'[j].type = "data",
                     NEW n, n = answers'[j]
              PROVE  Fits(n)'
            <4>1. CASE j \in DOMAIN answers /\ answers'[j] = answers[j]
                BY <3>3, <3>5, <4>1 DEF PullInv, DataPart
            <4>2. CASE answers'[j] = m
                BY <3>3, <3>4, <3>5, <4>2
            <4> QED
                BY <2>11, <4>1, <4>2
        <3> QED
            BY <1>1, <3>1, <3>2, <3>5 DEF DataPart
    <2>28. FilesPart'
        <3>1. \A f : Good(f) => Good(f)'
            BY <1>1 DEF Good
        <3>2. ASSUME NEW k, UnderWay(k) PROVE UnderWay(k)'
            <4>1. CASE sender.ndx = k
                BY <1>3, <2>10, <2>11, <2>12, <4>1 DEF UnderWay
            <4>2. CASE \E j \in DOMAIN answers : answers[j].type = "data" /\ answers[j].ndx = k
                BY <2>11, <4>2 DEF UnderWay
            <4> QED
                BY <1>3, <2>12, <3>2, <4>1, <4>2 DEF UnderWay
        <3> QED
            BY <1>1, <3>1, <3>2, FilesKept DEF PullInv
    <2> QED
        BY <2>19, <2>20, <2>21, <2>22, <2>23, <2>24, <2>25, <2>26, <2>27, <2>28 DEF PullInv
<1> QED
    BY <1>1, <1>2, <1>3

\* When a DONE is read, no item is left to be answered.
LEMMA SendPhaseDoneStep == ASSUME PullInv, Pulls!SendPhaseDone PROVE PullInv'
<1> DEFINE done == Pulls!Answer("done")
<1>1. /\ sender.pc = "loop" /\ requests # << >> /\ Head(requests).type = "done"
      /\ requests' = Tail(requests) /\ Pulls!Answers(done)
      /\ sender' = [sender EXCEPT !.phase = @ + 1, !.pc = IF sender.phase + 1 > 2 THEN "goodbye" ELSE @]
      /\ UNCHANGED <<manifest, changes, versions, puller, wire, copy>>
    BY DEF Pulls!SendPhaseDone, Pulls!Looping, Pulls!Reads, Pulls!Comes
<1>2. done \in AnsSet /\ done.type = "done"
    BY DEF AnsSet, Pulls!Answer
<1>3. PICK m : m = done
    OBVIOUS
<1> HIDE DEF done
<1>4. m \in AnsSet /\ m.type = "done" /\ Pulls!Answers(m)
    BY <1>1, <1>2, <1>3
<1>5. /\ answers' \in Seq(AnsSet)
      /\ \A j \in DOMAIN answers : j \in DOMAIN answers' /\ answers'[j] = answers[j]
      /\ \A j \in DOMAIN answers' :
           \/ j \in DOMAIN answers /\ answers'[j] = answers[j]
           \/ wire = "open" /\ j = Len(answers) + 1 /\ answers'[j] = m
      /\ \A i, j \in DOMAIN answers' : i < j => i \in DOMAIN answers /\ answers'[i] = answers[i]
      /\ NoneDone /\ wire # "open" => NoneDone'
    BY <1>4, AnswerMade
<1>6. /\ requests' \in Seq(ReqSet) /\ 1 \in DOMAIN requests /\ Head(requests) = requests[1]
      /\ \A j \in DOMAIN requests' : j + 1 \in DOMAIN requests /\ requests'[j] = requests[j + 1] /\ 1 < j + 1
      /\ \A j \in DOMAIN requests : j = 1 \/ 1 < j
    <2>1. \A j \in DOMAIN requests : j = 1 \/ 1 < j
        BY DEF PullInv, PullTypes
    <2> QED
        BY <1>1, <2>1, RequestTaken
<1>7. sender \in SenderSet
    BY DEF PullInv, PullTypes
<1>8. /\ sender' \in SenderSet /\ sender'.pc \in {"loop", "goodbye"} /\ sender'.phase > 0
      /\ sender'.dry = sender.dry /\ sender'.list = sender.list /\ sender'.sent = sender.sent
    <2>1. sender.phase + 1 \in Nat \ {0}
        BY <1>7 DEF SenderSet
    <2>2. PICK pc \in {"loop", "goodbye"}, n \in Nat \ {0} : sender' = [sender EXCEPT !.phase = n, !.pc = pc]
        BY <1>1, <2>1
    <2>3. PICK q : q = [sender EXCEPT !.phase = n]
        OBVIOUS
    <2>4. /\ q \in SenderSet /\ q.phase > 0
          /\ q.dry = sender.dry /\ q.list = sender.list /\ q.sent = sender.sent
        BY <1>7, <2>3 DEF SenderSet
    <2>5. sender' = [q EXCEPT !.pc = pc]
        BY <2>2, <2>3
    <2> QED
        BY <2>4, <2>5 DEF SenderSet
<1>9. \A j \in DOMAIN requests : requests[j].type # "item"
    BY <1>1, <1>6 DEF PullInv, ItemsPart
<1>10. PullTypes'
    BY <1>1, <1>5, <1>6, <1>8 DEF PullInv, PullTypes
<1>11. StampsPart'
    BY <1>1 DEF PullInv, StampsPart, IsFile
<1>12. ListsPart'
    <2>1. \A l : ListOk(l) => ListOk(l)'
        BY <1>1 DEF ListOk, IsFile
    <2>2. Lists' \subseteq Lists
        BY <1>1, <1>4, <1>5, <1>8 DEF Lists
    <2> QED
        BY <2>1, <2>2 DEF PullInv, ListsPart
<1>13. StartPart'
    BY <1>1, <1>4, <1>5, <1>6, <1>8 DEF PullInv, StartPart
<1>14. SessionPart'
    BY <1>1, <1>8 DEF PullInv, SessionPart
<1>15. puller.pc \in {"list", "loop"} => puller.phase # 0
    BY <1>1, <1>6 DEF PullInv, PhasesPart
<1>16. sender'.phase # 0
    BY <1>7, <1>8 DEF SenderSet
<1>17. PhasesPart'
    BY <1>1, <1>6, <1>8, <1>15, <1>16 DEF PullInv, PhasesPart
<1>18. ItemsPart'
    BY <1>6, <1>9 DEF ItemsPart
<1>19. ReadsPart'
    BY <1>1, <1>8 DEF PullInv, ReadsPart, IsFile
<1>20. DataPart'
    <2>1. \A n : Fits(n) => Fits(n)'
        BY <1>1 DEF Fits, IsFile
    <2>2. DataPart
        BY DEF PullInv
    <2> QED
        BY <1>1, <1>4, <1>5, <2>1, <2>2 DEF DataPart
<1>21. FilesPart'
    <2>1. \A e : Good(e) => Good(e)'
        BY <1>1 DEF Good
    <2>2. \A k : UnderWay(k) => UnderWay(k)'
        BY <1>1, <1>5, <1>9 DEF UnderWay
    <2> QED
        BY <1>1, <2>1, <2>2, FilesKept DEF PullInv
<1> QED
    BY <1>10, <1>11, <1>12, <1>13, <1>14, <1>17, <1>18, <1>19, <1>20, <1>21 DEF PullInv

\* In the goodbye, no item is left to be answered.
LEMMA FinalGoodbyeStep == ASSUME PullInv, Pulls!FinalGoodbye PROVE PullInv'
<1> DEFINE stats == Pulls!Answer("delstats")
           done  == Pulls!Answer("done")
<1>1. /\ sender.pc \in {"goodbye", "last"} /\ requests # << >>
      /\ \/ Pulls!SenderLeaves /\ UNCHANGED answers
         \/ /\ requests' = Tail(requests) /\ UNCHANGED wire
            /\ \/ Pulls!Answers(stats) /\ UNCHANGED sender
               \/ Pulls!Answers(done) /\ sender' = [sender EXCEPT !.pc = "last"]
      /\ UNCHANGED <<manifest, changes, versions, puller, copy>>
    BY DEF Pulls!FinalGoodbye, Pulls!Reads
<1>2. CASE Pulls!SenderLeaves /\ UNCHANGED answers
    BY <1>1, <1>2, SenderLeavesStep
<1>3. CASE /\ requests' = Tail(requests) /\ UNCHANGED wire
           /\ \/ Pulls!Answers(stats) /\ UNCHANGED sender
              \/ Pulls!Answers(done) /\ sender' = [sender EXCEPT !.pc = "last"]
    <2>1. /\ stats \in AnsSet /\ stats.type = "delstats" /\ done \in AnsSet /\ done.type = "done"
        BY DEF AnsSet, Pulls!Answer
    <2>2. PICK m : /\ m \in AnsSet /\ m.type \in {"delstats", "done"} /\ Pulls!Answers(m)
                   /\ UNCHANGED sender \/ sender' = [sender EXCEPT !.pc = "last"]
        <3> HIDE DEF stats, done
        <3> QED
            BY <1>3, <2>1
    <2>3. /\ answers' \in Seq(AnsSet)
          /\ \A j \in DOMAIN answers : j \in DOMAIN answers' /\ answers'[j] = answers[j]
          /\ \A j \in DOMAIN answers' :
               \/ j \in DOMAIN answers /\ answers'[j] = answers[j]
               \/ wire = "open" /\ j = Len(answers) + 1 /\ answers'[j] = m
          /\ \A i, j \in DOMAIN answers' : i < j => i \in DOMAIN answers /\ answers'[i] = answers[i]
          /\ NoneDone /\ wire # "open" => NoneDone'
        BY <2>2, AnswerMade
    <2>4. /\ requests' \in Seq(ReqSet)
          /\ \A j \in DOMAIN requests' : j + 1 \in DOMAIN requests /\ requests'[j] = requests[j + 1] /\ 1 < j + 1
        BY <1>1, <1>3, RequestTaken
    <2>5. sender \in SenderSet
        BY DEF PullInv, PullTypes
    <2>6. /\ sender' \in SenderSet /\ sender'.pc \in {"goodbye", "last"} /\ sender'.phase = sender.phase
          /\ sender'.dry = sender.dry /\ sender'.list = sender.list
        BY <1>1, <2>2, <2>5 DEF SenderSet
    <2>7. sender.phase # 0 /\ sender.phase > 0
        BY <1>1, <2>5 DEF PullInv, PhasesPart, SenderSet
    <2>8. \A j \in DOMAIN requests : requests[j].type # "item"
        BY <2>7 DEF PullInv, ItemsPart
    <2>9. PullTypes'
        BY <1>1, <1>3, <2>3, <2>4, <2>6 DEF PullInv, PullTypes
    <2>10. StampsPart'
        BY <1>1 DEF PullInv, StampsPart, IsFile
    <2>11. ListsPart'
        <3>1. \A l : ListOk(l) => ListOk(l)'
            BY <1>1 DEF ListOk, IsFile
        <3>2. Lists' \subseteq Lists
            BY <1>1, <2>2, <2>3, <2>6 DEF Lists
        <3> QED
            BY <3>1, <3>2 DEF PullInv, ListsPart
    <2>12. StartPart'
        BY <1>1, <1>3, <2>2, <2>3, <2>4, <2>6 DEF PullInv, StartPart
    <2>13. SessionPart'
        BY <1>1, <2>6 DEF PullInv, SessionPart
    <2>14. PhasesPart'
        BY <1>1, <1>3, <2>4, <2>6, <2>7 DEF PullInv, PhasesPart
    <2>15. ItemsPart'
        BY <2>4, <2>8 DEF ItemsPart
    <2>16. ReadsPart'
        BY <2>6 DEF ReadsPart
    <2>17. DataPart'
        <3>1. \A n : Fits(n) => Fits(n)'
            BY <1>1 DEF Fits, IsFile
        <3>2. DataPart
            BY DEF PullInv
        <3> QED
            BY <1>1, <2>2, <2>3, <3>1, <3>2 DEF DataPart
    <2>18. FilesPart'
        <3>1. \A e : Good(e) => Good(e)'
            BY <1>1 DEF Good
        <3>2. \A k : UnderWay(k) => UnderWay(k)'
            BY <1>1, <1>3, <2>3, <2>8 DEF UnderWay
        <3> QED
            BY <1>1, <3>1, <3>2, FilesKept DEF PullInv
    <2> QED
        BY <2>9, <2>10, <2>11, <2>12, <2>13, <2>14, <2>15, <2>16, <2>17, <2>18 DEF PullInv
<1> QED
    BY <1>1, <1>2, <1>3

\* SetToSeq is the same wherever it is instantiated.
LEMMA SameList == ASSUME NEW S PROVE Pulls!SetToSeq(S) = SetToSeq(S)
BY DEF Pulls!SetToSeq, SetToSeq, Pulls!IsInjective, IsInjective, Pulls!Cardinality, Cardinality

\* The list is made of the rows of one moment, and they are the versions of that moment.
LEMMA RowsListed ==
    ASSUME PullInv, versions' = [p \in Paths |-> Pulls!Content(manifest[p])],
           UNCHANGED <<changes, copy>>,
           NEW l, l = Pulls!SetToSeq({Pulls!PullEntry(p, manifest[p]) : p \in Pulls!Held})
    PROVE  l \in Seq(PullEntries) /\ ListOk(l)' /\ ListOk(<< >>)'
<1> DEFINE S == {Pulls!PullEntry(p, manifest[p]) : p \in Pulls!Held}
<1>1. manifest \in [Paths -> PullRows \cup {None}]
    BY DEF PullInv, PullTypes
<1>2. ASSUME NEW p \in Pulls!Held, NEW x, x = Pulls!PullEntry(p, manifest[p])
      PROVE  /\ x \in PullEntries /\ x.path = p /\ x.kind = manifest[p].kind /\ x.mtime = manifest[p].mtime
             /\ p \in Paths /\ manifest[p] # None
    <2>1. p \in Paths /\ manifest[p] # None
        BY DEF Pulls!Held
    <2>2. PICK r : r = manifest[p]
        OBVIOUS
    <2>3. r \in PullRows
        BY <1>1, <2>1, <2>2
    <2>4. Pulls!Size(r) \in Nat
        BY <2>3, SizeTyped
    <2>5. PICK n \in Nat : n = Pulls!Size(r)
        BY <2>4
    <2>6. x = [path |-> p, kind |-> r.kind, size |-> n, mtime |-> r.mtime]
        BY <1>2, <2>2, <2>5 DEF Pulls!PullEntry
    <2>7. r.kind \in {"file", "static"} /\ r.mtime \in Nat
        BY <2>3 DEF PullRows
    <2> QED
        BY <2>1, <2>2, <2>6, <2>7 DEF PullEntries
<1>3. IsFiniteSet(Pulls!Held)
    <2>1. Pulls!Held \subseteq Paths
        BY DEF Pulls!Held
    <2> QED
        BY <2>1, FS_Subset, RestoreAssumption
<1>4. IsFiniteSet(S)
    <2> DEFINE f == [p \in Pulls!Held |-> Pulls!PullEntry(p, manifest[p])]
    <2>1. f \in Surjection(Pulls!Held, S)
        BY DEF Surjection
    <2> QED
        BY <1>3, <2>1, FS_Surjection
<1>5. l \in Seq(S)
    BY <1>4, ListOfSet, SameList
<1> HIDE DEF S
<1>6. S \subseteq PullEntries
    BY <1>2 DEF S
<1>7. \A i \in DOMAIN l : l[i] \in S
    BY <1>5
<1>8. ASSUME NEW i \in DOMAIN l
      PROVE  \E p \in Pulls!Held : l[i] = Pulls!PullEntry(p, manifest[p])
    BY <1>7 DEF S
<1>9. ListOk(l)'
    <2>1. ASSUME NEW i \in DOMAIN l, NEW j \in DOMAIN l, l[i].path = l[j].path PROVE l[i] = l[j]
        BY <1>2, <1>8, <2>1
    <2>2. ASSUME NEW i \in DOMAIN l
          PROVE  /\ l[i].mtime <= changes
                 /\ l[i].kind = "file" /\ IsFile(copy[l[i].path]) /\ copy[l[i].path].mtime = l[i].mtime =>
                      copy[l[i].path].blocks \in versions'[l[i].path]
        <3>1. PICK p \in Pulls!Held : l[i] = Pulls!PullEntry(p, manifest[p])
            BY <1>8
        <3>2. /\ l[i].path = p /\ l[i].kind = manifest[p].kind /\ l[i].mtime = manifest[p].mtime
              /\ p \in Paths /\ manifest[p] # None
            BY <1>2, <3>1
        <3>3. manifest[p].mtime <= changes
            BY <3>2 DEF PullInv, StampsPart
        <3>4. ASSUME manifest[p].kind = "file", IsFile(copy[p]), copy[p].mtime = manifest[p].mtime
              PROVE  copy[p].blocks \in versions'[p]
            <4>1. copy[p].blocks = manifest[p].blocks
                BY <3>2, <3>4 DEF PullInv, StampsPart, IsFile
            <4>2. versions'[p] = {manifest[p].blocks}
                BY <3>2, <3>4 DEF Pulls!Content
            <4> QED
                BY <4>1, <4>2
        <3> QED
            BY <3>2, <3>3, <3>4
    <2> QED
        BY <2>1, <2>2 DEF ListOk, IsFile
<1>10. ListOk(<< >>)'
    <2>1. \A e : e = << >> => ListOk(e)'
        BY DEF ListOk
    <2> QED
        BY <2>1
<1> QED
    BY <1>5, <1>6, <1>9, <1>10

\* The messages of a short stream.
LEMMA OneOrTwo ==
    ASSUME NEW x, NEW y
    PROVE  /\ \A j \in DOMAIN <<y>> : j = Len(<<y>>) /\ <<y>>[j] = y
           /\ \A j \in DOMAIN <<x, y>> : <<x, y>>[j] = x \/ (j = Len(<<x, y>>) /\ <<x, y>>[j] = y)
OBVIOUS

\* Before the list there is nothing, and with it the versions begin.
LEMMA SendListStep == ASSUME PullInv, Pulls!SendList PROVE PullInv'
<1> DEFINE list == Pulls!SetToSeq({Pulls!PullEntry(p, manifest[p]) : p \in Pulls!Held})
<1>1. PICK l : l = list
    OBVIOUS
<1>2. PICK m, err : m = Listing(l) /\ err = Pulls!Answer("error")
    OBVIOUS
<1>3. /\ sender.pc = "flist"
      /\ \/ /\ Pulls!Answers(m) /\ sender' = [sender EXCEPT !.pc = "loop", !.list = l]
            /\ UNCHANGED <<wire, requests>>
         \/ /\ l = << >> /\ answers' = IF wire = "open" THEN <<err, m>> ELSE answers
            /\ Pulls!SenderLeaves
      /\ versions' = [p \in Paths |-> Pulls!Content(manifest[p])]
      /\ UNCHANGED <<manifest, changes, puller, copy>>
    BY <1>1, <1>2 DEF Pulls!SendList, Listing
<1>4. l \in Seq(PullEntries) /\ ListOk(l)' /\ ListOk(<< >>)'
    BY <1>1, <1>3, RowsListed
<1> HIDE DEF list
<1>5. /\ m \in AnsSet /\ m.type = "list" /\ m.list = l /\ err \in AnsSet /\ err.type = "error"
    BY <1>2, <1>4 DEF AnsSet, Listing, Pulls!Answer
<1>6. /\ answers = << >> /\ requests = << >> /\ puller.list = << >> /\ puller.pc \in {"list", "ended"}
      /\ sender.sent = << >>
    BY <1>3 DEF PullInv, StartPart, ReadsPart
<1>7. /\ DOMAIN answers = {} /\ DOMAIN puller.list = {} /\ DOMAIN requests = {}
    BY <1>6
<1>8. sender \in SenderSet /\ wire \in {"open", "closed", "broken"} /\ manifest \in [Paths -> PullRows \cup {None}]
    BY DEF PullInv, PullTypes
<1>9. versions' \in [Paths -> SUBSET Blocks]
    <2>1. \A p \in Paths : Pulls!Content(manifest[p]) \subseteq Blocks
        BY <1>8 DEF Pulls!Content, PullRows
    <2> QED
        BY <1>3, <2>1
<1>10. \A p \in Paths : IsFile(manifest[p]) => manifest[p].blocks \in versions'[p]
    BY <1>3 DEF Pulls!Content, IsFile
<1>11. StampsPart'
    BY <1>3 DEF PullInv, StampsPart, IsFile
<1>12. FilesPart'
    BY <1>3, <1>7 DEF FilesPart
<1>13. CASE /\ Pulls!Answers(m) /\ sender' = [sender EXCEPT !.pc = "loop", !.list = l]
            /\ UNCHANGED <<wire, requests>>
    <2>1. /\ answers' \in Seq(AnsSet) /\ answers' \in {<< >>, <<m>>}
          /\ answers' = << >> \/ wire = "open"
        <3>1. Append(<< >>, m) = <<m>>
            OBVIOUS
        <3> QED
            BY <1>5, <1>6, <1>13, <3>1 DEF Pulls!Answers
    <2>2. \A j \in DOMAIN answers' : j = Len(answers') /\ answers'[j] = m
        <3>1. CASE answers' = << >>
            BY <3>1
        <3>2. CASE answers' = <<m>>
            BY <3>2, OneOrTwo
        <3> QED
            BY <2>1, <3>1, <3>2
    <2>3. PICK q : q = [sender EXCEPT !.pc = "loop"]
        OBVIOUS
    <2>4. /\ q \in SenderSet /\ q.pc = "loop" /\ q.dry = sender.dry /\ q.phase = sender.phase /\ q.sent = sender.sent
        BY <1>8, <2>3 DEF SenderSet
    <2>5. sender' = [q EXCEPT !.list = l]
        BY <1>13, <2>3
    <2>6. /\ sender' \in SenderSet /\ sender'.pc = "loop" /\ sender'.dry = sender.dry
          /\ sender'.phase = sender.phase /\ sender'.sent = sender.sent /\ sender'.list = l
        BY <1>4, <2>4, <2>5 DEF SenderSet
    <2>7. PullTypes'
        BY <1>3, <1>9, <1>13, <2>1, <2>6 DEF PullInv, PullTypes
    <2>8. ListsPart'
        <3>1. Lists' \subseteq {<< >>, l}
            BY <1>3, <1>5, <1>6, <2>2, <2>6 DEF Lists
        <3> QED
            BY <1>4, <3>1 DEF ListsPart
    <2>9. StartPart'
        BY <1>3, <1>5, <1>6, <1>13, <2>2, <2>6 DEF PullInv, StartPart
    <2>10. SessionPart'
        BY <1>3, <1>6, <2>6 DEF PullInv, SessionPart
    <2>11. NoneDone'
        BY <1>5, <2>2 DEF NoneDone
    <2>12. PhasesPart'
        BY <1>3, <1>6, <1>7, <1>13, <2>6, <2>11 DEF PullInv, PhasesPart
    <2>13. ItemsPart'
        BY <1>6, <1>13 DEF ItemsPart
    <2>14. ReadsPart'
        BY <1>3, <1>6, <1>10, <2>6 DEF ReadsPart, IsFile
    <2>15. DataPart'
        BY <1>5, <2>2 DEF DataPart
    <2> QED
        BY <1>11, <1>12, <2>7, <2>8, <2>9, <2>10, <2>12, <2>13, <2>14, <2>15 DEF PullInv
<1>14. CASE /\ l = << >> /\ answers' = IF wire = "open" THEN <<err, m>> ELSE answers
            /\ Pulls!SenderLeaves
    <2>1. /\ sender' = Pulls!NoSender /\ requests' = << >>
          /\ wire' \in {"open", "closed", "broken"} /\ wire' # "open"
        BY <1>8, <1>14 DEF Pulls!SenderLeaves
    <2>2. << >> \in Seq(PullEntries) /\ << >> \in Seq(PullBlocks)
        OBVIOUS
    <2>3. /\ sender' \in SenderSet /\ sender'.pc = "done" /\ sender'.list = << >> /\ sender'.phase = 0
        BY <2>1, <2>2 DEF SenderSet, Pulls!NoSender
    <2>4. /\ answers' \in Seq(AnsSet) /\ answers' \in {<< >>, <<err, m>>}
        <3>1. <<err, m>> \in Seq(AnsSet)
            BY <1>5
        <3> QED
            BY <1>6, <1>14, <3>1
    <2>5. \A j \in DOMAIN answers' : answers'[j] = err \/ (j = Len(answers') /\ answers'[j] = m)
        <3>1. CASE answers' = << >>
            BY <3>1
        <3>2. CASE answers' = <<err, m>>
            BY <3>2, OneOrTwo
        <3> QED
            BY <2>4, <3>1, <3>2
    <2>6. PullTypes'
        BY <1>3, <1>9, <2>1, <2>3, <2>4 DEF PullInv, PullTypes
    <2>7. ListsPart'
        <3>1. Lists' \subseteq {<< >>, l}
            BY <1>3, <1>5, <1>6, <2>3, <2>5 DEF Lists
        <3> QED
            BY <1>4, <3>1 DEF ListsPart
    <2>8. StartPart'
        BY <1>3, <1>5, <1>6, <2>1, <2>3, <2>5 DEF PullInv, StartPart
    <2>9. SessionPart'
        BY <1>3, <1>6, <2>3 DEF PullInv, SessionPart
    <2>10. NoneDone'
        BY <1>5, <2>5 DEF NoneDone
    <2>11. PhasesPart'
        BY <1>3, <1>6, <2>1, <2>3, <2>10 DEF PullInv, PhasesPart
    <2>12. ItemsPart'
        BY <2>1 DEF ItemsPart
    <2>13. ReadsPart'
        BY <2>3 DEF ReadsPart
    <2>14. DataPart'
        BY <1>5, <2>5 DEF DataPart
    <2> QED
        BY <1>11, <1>12, <2>6, <2>7, <2>8, <2>9, <2>11, <2>12, <2>13, <2>14 DEF PullInv
<1> QED
    BY <1>3, <1>13, <1>14

\* Nothing is listed and nothing runs at the start.
LEMMA PullStart == Pulls!PullInit => PullInv
<1> SUFFICES ASSUME Pulls!PullInit PROVE PullInv
    OBVIOUS
<1>1. /\ manifest \in [Paths -> {None} \cup {Pulls!Row("file", s, 0) : s \in Contents}]
      /\ changes = 0 /\ versions = [p \in Paths |-> {}] /\ copy = [p \in Paths |-> None]
      /\ puller = Pulls!NoPuller /\ sender = Pulls!NoSender
      /\ wire = "closed" /\ requests = << >> /\ answers = << >>
    BY DEF Pulls!PullInit
<1>2. << >> \in Seq(PullEntries) /\ << >> \in Seq(PullBlocks)
    OBVIOUS
<1>3. /\ puller \in PullerSet /\ puller.pc = "ended" /\ puller.list = << >> /\ puller.todo = {}
      /\ puller.phase = 0 /\ puller.acks = 0
    BY <1>1, <1>2 DEF PullerSet, Pulls!NoPuller
<1>4. /\ sender \in SenderSet /\ sender.pc = "done" /\ sender.list = << >> /\ sender.phase = 0
    BY <1>1, <1>2 DEF SenderSet, Pulls!NoSender
<1>5. ASSUME NEW p \in Paths
      PROVE  manifest[p] \in PullRows \cup {None} /\ (manifest[p] # None => manifest[p].mtime = 0 /\ manifest[p].kind = "file")
    <2>1. CASE manifest[p] = None
        BY <2>1
    <2>2. CASE manifest[p] # None
        <3>1. PICK s \in Contents : manifest[p] = Pulls!Row("file", s, 0)
            BY <1>1, <2>2
        <3> QED
            BY <3>1, RowTyped DEF Blocks
    <2> QED
        BY <2>1, <2>2
<1>6. PullTypes
    <2>1. manifest \in [Paths -> PullRows \cup {None}]
        BY <1>1, <1>5
    <2>2. copy \in [Paths -> PullRows \cup {None}] /\ versions \in [Paths -> SUBSET Blocks]
        BY <1>1
    <2> QED
        BY <1>1, <1>3, <1>4, <2>1, <2>2 DEF PullTypes
<1>7. StampsPart
    BY <1>1, <1>5 DEF StampsPart, IsFile
<1>8. DOMAIN answers = {} /\ DOMAIN requests = {} /\ DOMAIN puller.list = {}
    BY <1>1, <1>3
<1>9. ListsPart
    <2>1. Lists = {<< >>}
        BY <1>3, <1>4, <1>8 DEF Lists
    <2>2. ListOk(<< >>)
        BY DEF ListOk
    <2> QED
        BY <2>1, <2>2 DEF ListsPart
<1>10. StartPart
    BY <1>3, <1>4, <1>8 DEF StartPart
<1>11. SessionPart
    BY <1>3, <1>4 DEF SessionPart
<1>12. PhasesPart
    BY <1>1, <1>3, <1>4, <1>8 DEF PhasesPart, NoneDone
<1>13. ItemsPart /\ ReadsPart /\ DataPart /\ FilesPart
    BY <1>3, <1>4, <1>8 DEF ItemsPart, ReadsPart, DataPart, FilesPart
<1> QED
    BY <1>6, <1>7, <1>9, <1>10, <1>11, <1>12, <1>13 DEF PullInv

\* Backups leave restores alone.
LEMMA PullUnchanged == ASSUME PullInv, UNCHANGED pulls PROVE PullInv'
<1>1. UNCHANGED <<manifest, changes, versions, puller, sender, wire, requests, answers, copy>>
    BY DEF pulls
<1>2. PullTypes' /\ StampsPart'
    BY <1>1 DEF PullInv, PullTypes, StampsPart, IsFile
<1>3. ListsPart'
    <2>1. \A l : ListOk(l) => ListOk(l)'
        BY <1>1 DEF ListOk, IsFile
    <2>2. Lists' = Lists
        BY <1>1 DEF Lists
    <2> QED
        BY <2>1, <2>2 DEF PullInv, ListsPart
<1>4. StartPart' /\ SessionPart' /\ ItemsPart'
    BY <1>1 DEF PullInv, StartPart, SessionPart, ItemsPart
<1>5. PhasesPart'
    BY <1>1 DEF PullInv, PhasesPart, NoneDone
<1>6. ReadsPart'
    BY <1>1 DEF PullInv, ReadsPart, IsFile, Pulls!Plan
<1>10. DataPart'
    BY <1>1, DataKept
<1>7. FilesPart'
    <2>1. \A e : Good(e) => Good(e)'
        BY <1>1 DEF Good
    <2>2. \A k : UnderWay(k) => UnderWay(k)'
        BY <1>1 DEF UnderWay, NoneDone
    <2> QED
        BY <1>1, <2>1, <2>2, FilesKept DEF PullInv
<1> QED
    BY <1>2, <1>3, <1>4, <1>5, <1>6, <1>10, <1>7 DEF PullInv

\* Every step of a connection keeps the invariant of restores.
LEMMA PullInvNext == ASSUME PullInv, [ConnNext]_connvars PROVE PullInv'
<1>1. CASE UNCHANGED pulls
    BY <1>1, PullUnchanged
<1>2. CASE Pulls!PullNext
    <2>1. CASE Pulls!PullerStep
        BY <2>1, PullerNotesErrorStep, PullerGetsListStep, PullerAsksStep, PullerDoneStep, PullerGetsEchoStep,
           PullerGetsFileStep, PullerGetsDoneStep, PullerGoodbyeStep, PullerLastStep, PullerFailsStep
           DEF Pulls!PullerStep
    <2>2. CASE Pulls!SenderStep
        BY <2>2, SendListStep, SendEchoStep, StreamSizeStep, StreamPlanStep, StreamBlockStep, StreamEndStep,
           SendPhaseDoneStep, FinalGoodbyeStep, SenderLosesPullerStep DEF Pulls!SenderStep
    <2> QED
        BY <1>2, <2>1, <2>2, ChangeStep, PullStep, PullBreaksStep DEF Pulls!PullNext
<1> QED
    BY <1>1, <1>2 DEF ConnNext, connvars

\* The invariant of restores holds (sender.go:processSendSession, repo.go:StreamFile).
THEOREM PullInvariant == ConnSpec => []PullInv
<1>1. ConnInit => PullInv
    BY PullStart DEF ConnInit
<1>2. PullInv /\ [ConnNext]_connvars => PullInv'
    BY PullInvNext
<1> QED
    BY <1>1, <1>2, PTL DEF ConnSpec

\* A pull that succeeds has brought everything that was listed, and every file is one
\* whole version that the module held during the session, whoever replaces and collects
\* files meanwhile and wherever connections break (sender.go:processSendSession,
\* repo.go:StreamFile, which take no lock).
THEOREM RsyncRestored == ConnSpec => []RestoredWhole
<1>1. PullInv => RestoredWhole
    BY DEF PullInv, SessionPart, FilesPart, Good, RestoredWhole, Pulls!RestoredWhole
<1> QED
    BY <1>1, PullInvariant, PTL
=============================================================================
