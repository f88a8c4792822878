----------------------------- MODULE InitProofs -----------------------------
(***************************************************************************)
(* How a module comes to life, for any number of callers inside the daemon *)
(* and of crysync init processes, any number of failing steps, deaths and  *)
(* losses: everything in the backend belongs to one key and one            *)
(* repository, and inside the daemon nobody replaces an open Meta.         *)
(*                                                                         *)
(* No mutex joins the processes.  What does is that the checks of          *)
(* ensureModuleReady stay true once passed: key and Meta are only ever     *)
(* lost while nothing runs, so a caller past the check of the blobs finds  *)
(* either no data still, or the key and the Meta under which data has been *)
(* written meanwhile (Settled).                                            *)
(***************************************************************************)
EXTENDS ModuleInit, TLAPS

KeySet    == Nat \union {None, Torn}
MetaSet   == [st : {"none", "empty", "ready"}, repo : Nat, ver : Nat]
BackupSet == [key : KeySet, repo : Nat, ver : Nat]

\* Past the check of the blobs; with no Meta seen under the mutex; under it.
Past       == {"ensureKey", "createKey", "writeKey", "createMeta", "schema"}
NoMetaSeen == Past \union {"listMeta", "restore", "publish", "listBlobs"}
Locked     == NoMetaSeen \union {"statKey", "statMeta"}
CallSet    == [pc : Locked \union {"idle", "lock", "open", "opened"}, hasKey : BOOLEAN,
               untried : SUBSET BackupSet, cand : MetaSet, key : KeySet, repo : Nat]

\* Under which key and which repository the objects in the backend were written.
Tags == data \union {<<b.key, b.repo>> : b \in backups}

\* The key file and the Meta are there, and are those of the data.
Settled == meta.st = "ready" /\ key \notin {None, Torn} /\ \A t \in Tags : t = <<key, meta.repo>>

TypePart ==
    /\ made \in [keys : Nat, repos : Nat] /\ meta \in MetaSet
    /\ key \in {None, Torn, made.keys}
    /\ data \subseteq KeySet \X Nat /\ backups \subseteq BackupSet

\* All data is of the last key that was created; a Meta next to data is its Meta.
TagsPart ==
    /\ \A t \in Tags : t[1] = made.keys /\ key \in {None, t[1]}
    /\ \A t, u \in Tags : t = u
    /\ \A t \in Tags : meta.st # "none" => meta.st = "ready" /\ meta.repo = t[2]

\* What caller c relies on when its call is w.
CallerOk(c, w) ==
    /\ w \in CallSet
    /\ w.pc = "listBlobs" => backups = {} \/ Settled
    /\ w.pc \in Past => Tags = {} \/ Settled
    /\ w.pc = "schema" => meta.st # "none"
    /\ w.pc \in {"restore", "publish"} => w.untried \subseteq backups
    /\ w.pc = "publish" => w.cand.st = "ready" /\ \E b \in backups : w.cand.repo = b.repo
    /\ w.pc = "opened" => /\ c \in Daemon /\ key = w.key /\ key \notin {None, Torn}
                          /\ meta.st = "ready" /\ meta.repo = w.repo
    /\ w.pc = "open" => c \in Daemon /\ meta.st # "none"

\* One caller at most is about to write a key, into the file it created.
WriterPart == \A c \in Callers : At(c, "writeKey") =>
    key = Torn /\ \A d \in Callers : At(d, "writeKey") => d = c

InitInv ==
    /\ TypePart /\ TagsPart /\ WriterPart
    /\ call = [c \in Callers |-> call[c]]
    /\ \A c \in Callers : CallerOk(c, call[c])

-----------------------------------------------------------------------------
\* What the theorem states is a part of the invariant.
LEMMA InitInvImplies == InitInv => OneRepository
<1> SUFFICES ASSUME InitInv, NEW c \in Daemon, At(c, "opened")
             PROVE  /\ \A d \in data : d = <<call[c].key, call[c].repo>>
                    /\ \A b \in backups : b.key = call[c].key /\ b.repo = call[c].repo
    BY DEF OneRepository
<1>1. /\ key = call[c].key /\ key \notin {None, Torn} /\ meta.st = "ready"
      /\ meta.repo = call[c].repo
    BY DEF InitInv, CallerOk, Callers, At
<1>2. \A t \in Tags : t[1] = call[c].key /\ t[2] = call[c].repo
    BY <1>1 DEF InitInv, TagsPart
<1>3. ASSUME NEW d \in data PROVE d = <<call[c].key, call[c].repo>>
    <2>1. d \in KeySet \X Nat /\ d \in Tags
        BY DEF InitInv, TypePart, Tags
    <2>2. QED
        BY <1>2, <2>1
<1>4. ASSUME NEW b \in backups PROVE b.key = call[c].key /\ b.repo = call[c].repo
    <2>1. <<b.key, b.repo>> \in Tags
        BY DEF Tags
    <2>2. QED
        BY <1>2, <2>1
<1>5. QED
    BY <1>3, <1>4

\* A caller that does nothing relies on nothing.
LEMMA IdleCallOk == IdleCall.pc = "idle" /\ \A c : CallerOk(c, IdleCall)
<1>1. IdleCall \in CallSet
    BY DEF IdleCall, CallSet, NoMeta, MetaSet, KeySet
<1>2. IdleCall.pc = "idle"
    BY DEF IdleCall
<1>3. QED
    BY <1>1, <1>2 DEF CallerOk, Past

\* Tags are typed.
LEMMA TagsTyped == TypePart => Tags \subseteq KeySet \X Nat
BY DEF TypePart, Tags, BackupSet

\* Only caller c moves.
LEMMA CallMoves ==
    ASSUME InitInv, UNCHANGED <<disk, remote>>, NEW c \in Callers, NEW w, CallerOk(c, w),
           w.pc # "writeKey", call' = [call EXCEPT ![c] = w]
    PROVE  InitInv'
<1>1. key' = key /\ meta' = meta /\ made' = made /\ data' = data /\ backups' = backups
    BY DEF disk, remote
<1>2. Tags' = Tags /\ (Settled' <=> Settled)
    BY <1>1 DEF Tags, Settled
<1>3. TypePart' /\ TagsPart'
    BY <1>1, <1>2 DEF InitInv, TypePart, TagsPart
<1>4. call' = [d \in Callers |-> call'[d]] /\ \A d \in Callers : call'[d] = IF d = c THEN w ELSE call[d]
    BY DEF InitInv
<1>5. \A d, v : CallerOk(d, v) => CallerOk(d, v)'
    BY <1>1, <1>2 DEF CallerOk
<1>6. \A d \in Callers : CallerOk(d, call[d])'
    BY <1>4, <1>5 DEF InitInv
<1>7. WriterPart'
    BY <1>1, <1>4 DEF InitInv, WriterPart, At
<1>8. QED
    BY <1>3, <1>4, <1>6, <1>7 DEF InitInv

-----------------------------------------------------------------------------
(* The steps that only look.                                               *)

\* What the invariant says of one call, with the bookkeeping the steps need.
LEMMA CallOf ==
    ASSUME InitInv, NEW c \in Callers
    PROVE  CallerOk(c, call[c]) /\ call[c] \in CallSet
BY DEF InitInv, CallerOk

\* The call goes on to a step that relies on nothing new.
LEMMA GotoOk ==
    ASSUME InitInv, NEW c \in Callers, UNCHANGED <<disk, remote>>,
           NEW pc \in (Locked \union {"lock"}) \ {"writeKey"}, call' = [call EXCEPT ![c].pc = pc],
           CallerOk(c, [call[c] EXCEPT !.pc = pc])
    PROVE  InitInv'
<1> DEFINE w == [call[c] EXCEPT !.pc = pc]
<1>1. call' = [call EXCEPT ![c] = w] /\ w.pc # "writeKey"
    BY CallOf DEF InitInv, CallSet
<1> HIDE DEF w
<1>2. CallerOk(c, w)
    BY DEF w
<1>3. QED
    BY <1>1, <1>2, CallMoves

\* The call ends.
LEMMA EndsOk ==
    ASSUME InitInv, NEW c \in Callers, UNCHANGED <<disk, remote>>,
           call' = [call EXCEPT ![c] = IdleCall]
    PROVE  InitInv'
BY CallMoves, IdleCallOk

\* ensureModuleReady succeeds: there is a Meta file.
LEMMA ReadyOk ==
    ASSUME InitInv, NEW c \in Callers, UNCHANGED <<disk, remote>>, Ready(c), meta.st # "none"
    PROVE  InitInv'
<1> DEFINE w == [IdleCall EXCEPT !.pc = "open"]
<1>1. IdleCall \in CallSet
    BY IdleCallOk DEF CallerOk
<1>2. w \in CallSet /\ w.pc = "open"
    BY <1>1 DEF CallSet
<1> HIDE DEF w
<1>3. CASE c \in Cli
    BY <1>3, EndsOk DEF Ready
<1>4. CASE c \notin Cli
    <2>1. CallerOk(c, w)
        BY <1>2, <1>4 DEF CallerOk, Past, Callers
    <2>2. call' = [call EXCEPT ![c] = w]
        BY <1>4 DEF Ready, w
    <2>3. QED
        BY <1>2, <2>1, <2>2, CallMoves
<1>5. QED
    BY <1>3, <1>4

\* A caller starts, or takes the mutex of its module.
LEMMA BeginInit ==
    ASSUME InitInv, NEW c \in Callers, Begin(c) \/ Lock(c)
    PROVE  InitInv'
<1>1. call[c] \in CallSet
    BY CallOf
<1>2. ASSUME NEW pc \in {"lock", "statKey"} PROVE CallerOk(c, [call[c] EXCEPT !.pc = pc])
    BY <1>1 DEF CallerOk, CallSet, Past, Locked, NoMetaSeen
<1>3. PICK pc \in {"lock", "statKey"} : call' = [call EXCEPT ![c].pc = pc]
    BY DEF Begin, Lock, Goto
<1>4. UNCHANGED <<disk, remote>>
    BY DEF Begin, Lock
<1>5. QED
    BY <1>2, <1>3, <1>4, GotoOk DEF Locked, NoMetaSeen, Past

\* The key file is looked for.
LEMMA StatKeyInit ==
    ASSUME InitInv, NEW c \in Callers, StatKey(c)
    PROVE  InitInv'
<1> DEFINE h == (key # None)
           w == [call[c] EXCEPT !.pc = "statMeta", !.hasKey = h]
<1>1. call[c] \in CallSet /\ h \in BOOLEAN
    BY CallOf
<1>2. call' = [call EXCEPT ![c] = w] /\ UNCHANGED <<disk, remote>>
    BY DEF StatKey, InitInv
<1> HIDE DEF h
<1>3. w \in CallSet /\ w.pc = "statMeta"
    BY <1>1 DEF CallSet, Locked
<1> HIDE DEF w
<1>4. CallerOk(c, w)
    BY <1>3 DEF CallerOk, Past
<1>5. QED
    BY <1>2, <1>3, <1>4, CallMoves

\* The Meta is looked for: there it is, or the backups are asked, or it is refused.
LEMMA StatMetaInit ==
    ASSUME InitInv, NEW c \in Callers, StatMeta(c)
    PROVE  InitInv'
<1>1. call[c] \in CallSet /\ UNCHANGED <<disk, remote>>
    BY CallOf DEF StatMeta
<1>2. CASE meta.st # "none" /\ Ready(c)
    BY <1>1, <1>2, ReadyOk
<1>3. CASE Refuse(c)
    BY <1>1, <1>3, EndsOk DEF Refuse
<1>4. CASE Goto(c, "listMeta")
    <2>1. CallerOk(c, [call[c] EXCEPT !.pc = "listMeta"])
        BY <1>1 DEF CallerOk, CallSet, Past, Locked, NoMetaSeen
    <2>2. QED
        BY <1>1, <1>4, <2>1, GotoOk DEF Goto, Locked, NoMetaSeen, Past
<1>5. QED
    BY <1>2, <1>3, <1>4 DEF StatMeta

\* The backups are listed.
LEMMA ListMetaInit ==
    ASSUME InitInv, NEW c \in Callers, ListMeta(c)
    PROVE  InitInv'
<1>1. call[c] \in CallSet /\ UNCHANGED <<disk, remote>> /\ backups \subseteq BackupSet
    BY CallOf DEF ListMeta, InitInv, TypePart
<1>2. CASE Refuse(c)
    BY <1>1, <1>2, EndsOk DEF Refuse
<1>3. CASE call' = [call EXCEPT ![c].pc = "restore", ![c].untried = backups]
    <2> DEFINE w == [call[c] EXCEPT !.pc = "restore", !.untried = backups]
    <2>1. call' = [call EXCEPT ![c] = w]
        BY <1>3 DEF InitInv
    <2>2. w \in CallSet /\ w.pc = "restore" /\ w.untried = backups
        BY <1>1 DEF CallSet, Locked, NoMetaSeen
    <2> HIDE DEF w
    <2>3. CallerOk(c, w)
        BY <2>2 DEF CallerOk, Past
    <2>4. QED
        BY <1>1, <2>1, <2>2, <2>3, CallMoves
<1>4. CASE backups = {} /\ Goto(c, "listBlobs")
    <2>1. CallerOk(c, [call[c] EXCEPT !.pc = "listBlobs"])
        BY <1>1, <1>4 DEF CallerOk, CallSet, Past, Locked, NoMetaSeen
    <2>2. QED
        BY <1>1, <1>4, <2>1, GotoOk DEF Goto, Locked, NoMetaSeen, Past
<1>5. QED
    BY <1>2, <1>3, <1>4 DEF ListMeta

\* A backup is fetched and verified, or the next one is tried.
LEMMA TryCandidateInit ==
    ASSUME InitInv, NEW c \in Callers, TryCandidate(c)
    PROVE  InitInv'
<1>1. call[c] \in CallSet /\ UNCHANGED <<disk, remote>> /\ backups \subseteq BackupSet
    BY CallOf DEF TryCandidate, InitInv, TypePart
<1>2. call[c].untried \subseteq backups
    BY CallOf DEF CallerOk, TryCandidate, At
<1>3. CASE Refuse(c)
    BY <1>1, <1>3, EndsOk DEF Refuse
<1>4. CASE ~Refuse(c)
    <2> DEFINE good == {b \in call[c].untried : b.key = key}
    <2>1. PICK b \in good :
              call' = [call EXCEPT ![c].pc = "publish", ![c].untried = good \ {b},
                             ![c].cand = [st |-> "ready", repo |-> b.repo, ver |-> b.ver]]
        BY <1>4 DEF TryCandidate
    <2> DEFINE rest == good \ {b}
               cand == [st |-> "ready", repo |-> b.repo, ver |-> b.ver]
               w    == [call[c] EXCEPT !.pc = "publish", !.untried = rest, !.cand = cand]
    <2>2. call' = [call EXCEPT ![c] = w]
        BY <2>1 DEF InitInv
    <2>3. rest \subseteq backups /\ rest \in SUBSET BackupSet /\ b \in backups
        BY <1>1, <1>2
    <2>4. cand \in MetaSet /\ cand.st = "ready" /\ cand.repo = b.repo
        BY <1>1, <2>3 DEF BackupSet, MetaSet
    <2> HIDE DEF rest, cand
    <2>5. w \in CallSet /\ w.pc = "publish" /\ w.untried = rest /\ w.cand = cand
        BY <1>1, <2>3, <2>4 DEF CallSet, Locked, NoMetaSeen
    <2> HIDE DEF w
    <2>6. CallerOk(c, w)
        BY <2>3, <2>4, <2>5 DEF CallerOk, Past
    <2>7. QED
        BY <1>1, <2>2, <2>5, <2>6, CallMoves
<1>5. QED
    BY <1>3, <1>4

\* The blobs are listed: only an empty backend lets a new module through.
LEMMA ListBlobsInit ==
    ASSUME InitInv, NEW c \in Callers, ListBlobs(c)
    PROVE  InitInv'
<1>1. call[c] \in CallSet /\ UNCHANGED <<disk, remote>>
    BY CallOf DEF ListBlobs
<1>2. CASE data # {}
    BY <1>1, <1>2, EndsOk DEF ListBlobs, Refuse
<1>3. CASE data = {}
    <2>1. backups = {} \/ Settled
        BY CallOf DEF CallerOk, ListBlobs, At
    <2>2. Tags = {} \/ Settled
        BY <1>3, <2>1 DEF Tags
    <2>3. CallerOk(c, [call[c] EXCEPT !.pc = "ensureKey"])
        BY <1>1, <2>2 DEF CallerOk, CallSet, Past, Locked, NoMetaSeen
    <2>4. QED
        BY <1>1, <1>3, <2>3, GotoOk DEF ListBlobs, Goto, Locked, NoMetaSeen, Past
<1>4. QED
    BY <1>2, <1>3

\* The key file is looked at once more.
LEMMA EnsureKeyInit ==
    ASSUME InitInv, NEW c \in Callers, EnsureKeyfile(c)
    PROVE  InitInv'
<1>1. /\ call[c] \in CallSet /\ UNCHANGED <<disk, remote>> /\ call[c].pc = "ensureKey"
      /\ CallerOk(c, call[c])
    BY CallOf DEF EnsureKeyfile, At
<1>2. CASE Refuse(c)
    BY <1>1, <1>2, EndsOk DEF Refuse
<1>3. ASSUME NEW pc \in {"createKey", "createMeta"}, Goto(c, pc)
      PROVE  InitInv'
    <2>1. CallerOk(c, [call[c] EXCEPT !.pc = pc])
        BY <1>1 DEF CallerOk, CallSet, Past, Locked, NoMetaSeen
    <2>2. QED
        BY <1>1, <1>3, <2>1, GotoOk DEF Goto, Locked, NoMetaSeen, Past
<1>4. QED
    BY <1>2, <1>3 DEF EnsureKeyfile

\* The module is opened with the key and the Meta that are there.
LEMMA OpenInit ==
    ASSUME InitInv, NEW c \in Callers, Open(c)
    PROVE  InitInv'
<1>1. UNCHANGED <<disk, remote>> /\ CallerOk(c, call[c]) /\ call[c].pc = "open"
    BY CallOf DEF Open, At
<1>2. CASE key \notin {None, Torn} /\ meta.st = "ready"
    <2> DEFINE w == [IdleCall EXCEPT !.pc = "opened", !.key = key, !.repo = meta.repo]
    <2>1. call' = [call EXCEPT ![c] = w]
        BY <1>2 DEF Open
    <2>2. key \in KeySet /\ meta.repo \in Nat
        BY DEF InitInv, TypePart, KeySet, MetaSet
    <2>3. IdleCall \in CallSet
        BY IdleCallOk DEF CallerOk
    <2>4. w \in CallSet /\ w.pc = "opened" /\ w.key = key /\ w.repo = meta.repo
        BY <2>2, <2>3 DEF CallSet
    <2> HIDE DEF w
    <2>5. CallerOk(c, w)
        BY <1>1, <1>2, <2>4 DEF CallerOk, Past
    <2>6. QED
        BY <1>1, <2>1, <2>4, <2>5, CallMoves
<1>3. CASE ~(key \notin {None, Torn} /\ meta.st = "ready")
    BY <1>1, <1>3, EndsOk DEF Open
<1>4. QED
    BY <1>2, <1>3

-----------------------------------------------------------------------------
(* The steps that change key, Meta or backend.                             *)

\* The world changes so that whatever a caller relied on still holds.
Stable == \A d \in Callers : \A v : CallerOk(d, v) => CallerOk(d, v)'

\* What a step that changes the world has to show.
LEMMA WorldMoves ==
    ASSUME InitInv, TypePart', TagsPart', WriterPart', Stable,
           NEW c \in Callers, NEW w, CallerOk(c, w)', call' = [call EXCEPT ![c] = w]
    PROVE  InitInv'
<1>1. call' = [d \in Callers |-> call'[d]] /\ \A d \in Callers : call'[d] = IF d = c THEN w ELSE call[d]
    BY DEF InitInv
<1>2. \A d \in Callers : CallerOk(d, call[d])'
    BY <1>1 DEF InitInv, Stable
<1>3. QED
    BY <1>1, <1>2 DEF InitInv

\* No key is being written or created by this step.
LEMMA WriterStays ==
    ASSUME InitInv, key' = key, NEW c \in Callers, NEW w, w.pc # "writeKey",
           call' = [call EXCEPT ![c] = w]
    PROVE  WriterPart'
<1>1. \A d \in Callers : call'[d] = IF d = c THEN w ELSE call[d]
    BY DEF InitInv
<1>2. QED
    BY <1>1 DEF InitInv, WriterPart, At

\* ensureModuleReady succeeds after a step of the world.
LEMMA ReadyMoves ==
    ASSUME InitInv, TypePart', TagsPart', Stable, key' = key,
           NEW c \in Callers, Ready(c), meta'.st # "none"
    PROVE  InitInv'
<1>1. PICK w \in {IdleCall, [IdleCall EXCEPT !.pc = "open"]} :
        call' = [call EXCEPT ![c] = w] /\ (w # IdleCall => c \notin Cli)
    BY DEF Ready
<1>2. CASE w = IdleCall
    <2>1. w.pc # "writeKey" /\ CallerOk(c, w)'
        BY <1>2, IdleCallOk DEF Stable
    <2>2. QED
        BY <1>1, <2>1, WriterStays, WorldMoves
<1>3. CASE w # IdleCall
    <2>1. IdleCall \in CallSet
        BY IdleCallOk DEF CallerOk
    <2>2. w \in CallSet /\ w.pc = "open"
        BY <1>1, <1>3, <2>1 DEF CallSet
    <2>3. CallerOk(c, w)'
        BY <1>1, <1>3, <2>2 DEF CallerOk, Past, Callers
    <2>4. QED
        BY <1>1, <2>2, <2>3, WriterStays, WorldMoves
<1>4. QED
    BY <1>2, <1>3

\* A backup's Meta takes the place of the Meta.
LEMMA Restored ==
    ASSUME InitInv, NEW b \in backups, NEW m \in MetaSet, m.st = "ready", m.repo = b.repo,
           meta' = m, UNCHANGED <<key, made, remote>>
    PROVE  TypePart' /\ TagsPart' /\ Stable
<1>1. key' = key /\ made' = made /\ data' = data /\ backups' = backups /\ Tags' = Tags
    BY DEF remote, Tags
<1>2. <<b.key, b.repo>> \in Tags
    BY DEF Tags
<1>3. \A t \in Tags : t = <<b.key, b.repo>>
    BY <1>2 DEF InitInv, TagsPart
<1>4. TypePart'
    BY <1>1 DEF InitInv, TypePart
<1>5. TagsPart'
    BY <1>1, <1>3 DEF InitInv, TagsPart
<1>6. meta.st # "none" => meta.repo = b.repo
    BY <1>2 DEF InitInv, TagsPart
<1>7. Settled => Settled'
    BY <1>1, <1>3, <1>6 DEF Settled
<1>8. Stable
    BY <1>1, <1>6, <1>7 DEF Stable, CallerOk
<1>9. QED
    BY <1>4, <1>5, <1>8

\* The restored Meta is published: it is the Meta of the data.
LEMMA PublishInit ==
    ASSUME InitInv, NEW c \in Callers, Publish(c) \/ CandidateFails(c)
    PROVE  InitInv'
<1>1. /\ CallerOk(c, call[c]) /\ call[c] \in CallSet /\ call[c].pc = "publish"
      /\ UNCHANGED <<key, made, remote>> /\ meta' \in {meta, call[c].cand}
    BY CallOf DEF Publish, CandidateFails, At
<1>2. PICK b \in backups : call[c].cand.repo = b.repo
    BY <1>1 DEF CallerOk
<1>3. call[c].cand \in MetaSet /\ call[c].cand.st = "ready"
    BY <1>1 DEF CallerOk, CallSet
<1>4. CASE Publish(c)
    <2>1. meta' = call[c].cand /\ Ready(c)
        BY <1>4 DEF Publish
    <2>2. TypePart' /\ TagsPart' /\ Stable
        BY <1>1, <1>2, <1>3, <2>1, Restored
    <2>3. QED
        BY <1>1, <1>3, <2>1, <2>2, ReadyMoves
<1>5. CASE CandidateFails(c)
    <2>0. PICK w : w = [call[c] EXCEPT !.pc = "restore"]
        OBVIOUS
    <2>1. call' = [call EXCEPT ![c] = w]
        BY <1>5, <2>0 DEF CandidateFails, Goto, InitInv
    <2>2. w \in CallSet /\ w.pc = "restore" /\ w.untried = call[c].untried
        BY <1>1, <2>0 DEF CallSet, Locked, NoMetaSeen
    <2>3. CallerOk(c, w)
        BY <1>1, <2>2 DEF CallerOk, Past
    <2>4. CASE meta' = call[c].cand
        <3>1. TypePart' /\ TagsPart' /\ Stable
            BY <1>1, <1>2, <1>3, <2>4, Restored
        <3>2. CallerOk(c, w)'
            BY <2>3, <3>1 DEF Stable
        <3>3. WriterPart'
            BY <1>1, <2>1, <2>2, WriterStays
        <3>4. QED
            BY <2>1, <3>1, <3>2, <3>3, WorldMoves
    <2>5. CASE meta' = meta
        <3>1. UNCHANGED <<disk, remote>>
            BY <1>1, <2>5 DEF disk
        <3>2. QED
            BY <2>1, <2>2, <2>3, <3>1, CallMoves
    <2>6. QED
        BY <1>1, <2>4, <2>5
<1>6. QED
    BY <1>4, <1>5

\* While there is no data the key file comes and goes freely.
LEMMA NoData ==
    ASSUME InitInv, NEW c \in Callers, call[c].pc \in Past, ~Settled
    PROVE  Tags = {} /\ data = {} /\ backups = {}
BY CallOf DEF CallerOk, Tags

\* The key file is created, by one caller at most (O_EXCL).
LEMMA CreateKeyInit ==
    ASSUME InitInv, NEW c \in Callers, CreateKey(c)
    PROVE  InitInv'
<1>1. /\ CallerOk(c, call[c]) /\ call[c] \in CallSet /\ call[c].pc = "createKey"
      /\ UNCHANGED <<meta, made, remote>>
    BY CallOf DEF CreateKey, At
<1>2. CASE key # None
    <2>1. UNCHANGED <<disk, remote>> /\ Goto(c, "createMeta")
        BY <1>1, <1>2 DEF CreateKey, disk
    <2>2. CallerOk(c, [call[c] EXCEPT !.pc = "createMeta"])
        BY <1>1 DEF CallerOk, CallSet, Past, Locked, NoMetaSeen
    <2>3. QED
        BY <2>1, <2>2, GotoOk DEF Goto, Locked, NoMetaSeen, Past
<1>3. CASE key = None
    <2>0. PICK w : w = [call[c] EXCEPT !.pc = "writeKey"]
        OBVIOUS
    <2>1. key' = Torn /\ call' = [call EXCEPT ![c] = w]
        BY <1>1, <1>3, <2>0 DEF CreateKey, Goto, InitInv
    <2>2. Tags = {} /\ data = {} /\ backups = {}
        BY <1>1, <1>3, NoData DEF Settled, Past
    <2>3. Tags' = {} /\ data' = {} /\ backups' = {} /\ meta' = meta /\ made' = made
        BY <1>1, <2>2 DEF remote, Tags
    <2>4. TypePart' /\ TagsPart'
        BY <2>1, <2>2, <2>3 DEF InitInv, TypePart, TagsPart
    <2>5. Stable
        BY <1>3, <2>1, <2>2, <2>3 DEF Stable, CallerOk
    <2>6. w \in CallSet /\ w.pc = "writeKey"
        BY <1>1, <2>0 DEF CallSet, Locked, NoMetaSeen, Past
    <2>7. CallerOk(c, w)'
        BY <2>3, <2>6 DEF CallerOk
    <2>8. WriterPart'
        <3>1. None # Torn
            BY InitAssumption
        <3>2. \A d \in Callers : call[d].pc # "writeKey"
            BY <1>3, <3>1 DEF InitInv, WriterPart, At
        <3>3. \A d \in Callers : call'[d] = IF d = c THEN w ELSE call[d]
            BY <2>1 DEF InitInv
        <3>4. QED
            BY <2>1, <3>2, <3>3 DEF WriterPart, At
    <2>9. QED
        BY <2>1, <2>4, <2>5, <2>7, <2>8, WorldMoves
<1>4. QED
    BY <1>2, <1>3

\* The key is written into the file its writer created.
LEMMA WriteKeyInit ==
    ASSUME InitInv, NEW c \in Callers, WriteKey(c)
    PROVE  InitInv'
<1>1. /\ CallerOk(c, call[c]) /\ call[c] \in CallSet /\ call[c].pc = "writeKey"
      /\ UNCHANGED <<meta, remote>> /\ key' = made.keys + 1
      /\ made' = [made EXCEPT !.keys = @ + 1] /\ made \in [keys : Nat, repos : Nat]
    BY CallOf DEF WriteKey, At, InitInv, TypePart
<1>2. key = Torn /\ \A d \in Callers : call[d].pc = "writeKey" => d = c
    BY <1>1 DEF InitInv, WriterPart, At
<1>3. Tags = {} /\ data = {} /\ backups = {}
    BY <1>1, <1>2, NoData DEF Settled, Past
<1>4. Tags' = {} /\ data' = {} /\ backups' = {} /\ meta' = meta
    BY <1>1, <1>3 DEF remote, Tags
<1>5. TypePart' /\ TagsPart'
    <2>1. made' \in [keys : Nat, repos : Nat] /\ key' = made'.keys
        BY <1>1
    <2>2. QED
        BY <1>4, <2>1 DEF InitInv, TypePart, TagsPart
<1>6. Stable
    BY <1>2, <1>3, <1>4 DEF Stable, CallerOk
<1>0. PICK w : w = [call[c] EXCEPT !.pc = "createMeta"]
    OBVIOUS
<1>7. call' = [call EXCEPT ![c] = w]
    BY <1>0 DEF WriteKey, Goto, InitInv
<1>8. w \in CallSet /\ w.pc = "createMeta"
    BY <1>0, <1>1 DEF CallSet, Locked, NoMetaSeen, Past
<1>9. CallerOk(c, w)'
    BY <1>4, <1>8 DEF CallerOk
<1>10. WriterPart'
    <2>1. \A d \in Callers : call'[d] = IF d = c THEN w ELSE call[d]
        BY <1>7 DEF InitInv
    <2>2. QED
        BY <1>2, <1>8, <2>1 DEF WriterPart, At
<1>11. QED
    BY <1>5, <1>6, <1>7, <1>9, <1>10, WorldMoves

\* A Meta file is created, or the one that is there is opened.
LEMMA CreateMetaInit ==
    ASSUME InitInv, NEW c \in Callers, CreateMeta(c)
    PROVE  InitInv'
<1>1. /\ CallerOk(c, call[c]) /\ call[c] \in CallSet /\ call[c].pc = "createMeta"
      /\ UNCHANGED <<key, made, remote>> /\ meta \in MetaSet
    BY CallOf DEF CreateMeta, At, InitInv, TypePart
<1>2. PICK w : w = [call[c] EXCEPT !.pc = "schema"]
    OBVIOUS
<1>3. call' = [call EXCEPT ![c] = w]
    BY <1>2 DEF CreateMeta, Goto, InitInv
<1>4. w \in CallSet /\ w.pc = "schema"
    BY <1>1, <1>2 DEF CallSet, Locked, NoMetaSeen, Past
<1>5. CASE meta.st # "none"
    <2>1. UNCHANGED <<disk, remote>>
        BY <1>1, <1>5 DEF CreateMeta, disk
    <2>2. CallerOk(c, w)
        BY <1>1, <1>4, <1>5 DEF CallerOk, Past
    <2>3. QED
        BY <1>3, <1>4, <2>1, <2>2, CallMoves
<1>6. CASE meta.st = "none"
    <2>1. Tags = {} /\ data = {} /\ backups = {}
        BY <1>1, <1>6, NoData DEF Settled, Past
    <2>2. /\ Tags' = {} /\ data' = {} /\ backups' = {} /\ key' = key /\ made' = made
          /\ meta' = [meta EXCEPT !.st = "empty"]
        BY <1>1, <1>6, <2>1 DEF remote, Tags, CreateMeta
    <2>3. meta' \in MetaSet /\ meta'.st = "empty"
        BY <1>1, <2>2 DEF MetaSet
    <2>4. TypePart' /\ TagsPart'
        BY <2>2, <2>3 DEF InitInv, TypePart, TagsPart
    <2>5. Stable
        BY <1>6, <2>1, <2>2, <2>3 DEF Stable, CallerOk
    <2>6. CallerOk(c, w)'
        BY <1>4, <2>2, <2>3 DEF CallerOk
    <2>7. WriterPart'
        BY <1>3, <1>4, <2>2, WriterStays
    <2>8. QED
        BY <1>3, <2>4, <2>5, <2>6, <2>7, WorldMoves
<1>7. QED
    BY <1>5, <1>6

\* The schema and a repository identity are put in, once.
LEMMA CreateSchemaInit ==
    ASSUME InitInv, NEW c \in Callers, CreateSchema(c)
    PROVE  InitInv'
<1>1. /\ CallerOk(c, call[c]) /\ call[c].pc = "schema" /\ Ready(c) /\ UNCHANGED <<key, remote>>
      /\ made \in [keys : Nat, repos : Nat]
    BY CallOf DEF CreateSchema, At, InitInv, TypePart
<1>2. CASE meta.st # "empty"
    <2>1. UNCHANGED <<disk, remote>> /\ meta.st # "none"
        BY <1>1, <1>2 DEF CreateSchema, disk, CallerOk
    <2>2. QED
        BY <1>1, <2>1, ReadyOk
<1>3. CASE meta.st = "empty"
    <2>1. Tags = {} /\ data = {} /\ backups = {}
        BY <1>1, <1>3, NoData DEF Settled, Past
    <2>2. /\ Tags' = {} /\ data' = {} /\ backups' = {} /\ key' = key
          /\ made' = [made EXCEPT !.repos = @ + 1]
          /\ meta' = [st |-> "ready", repo |-> made.repos + 1, ver |-> 0]
        BY <1>1, <1>3, <2>1 DEF remote, Tags, CreateSchema
    <2>3. meta' \in MetaSet /\ meta'.st = "ready"
        BY <1>1, <2>2 DEF MetaSet
    <2>4. made' \in [keys : Nat, repos : Nat] /\ made'.keys = made.keys
        BY <1>1, <2>2
    <2>5. TypePart' /\ TagsPart'
        BY <2>2, <2>3, <2>4 DEF InitInv, TypePart, TagsPart
    <2>6. Stable
        BY <1>3, <2>1, <2>2, <2>3 DEF Stable, CallerOk
    <2>7. QED
        BY <1>1, <2>2, <2>3, <2>5, <2>6, ReadyMoves
<1>4. QED
    BY <1>2, <1>3

\* An open module writes under the key and the repository it opened.
LEMMA TagAdded ==
    ASSUME InitInv, NEW c \in Callers, call[c].pc = "opened", UNCHANGED <<key, made, call>>,
           meta' \in MetaSet, meta'.st = "ready", meta'.repo = meta.repo,
           data' \subseteq KeySet \X Nat, backups' \subseteq BackupSet, backups \subseteq backups',
           Tags' = Tags \union {<<call[c].key, call[c].repo>>}
    PROVE  InitInv'
<1>1. /\ key = call[c].key /\ key \notin {None, Torn} /\ meta.st = "ready"
      /\ meta.repo = call[c].repo
    BY CallOf DEF CallerOk
<1>2. key = made.keys /\ TypePart'
    BY <1>1 DEF InitInv, TypePart
<1>3. \A t \in Tags : t = <<key, meta.repo>>
    <2> SUFFICES ASSUME NEW t \in Tags PROVE t = <<key, meta.repo>>
        OBVIOUS
    <2>1. t \in KeySet \X Nat
        BY TagsTyped DEF InitInv
    <2>2. t[1] = key /\ t[2] = meta.repo
        BY <1>1, <1>2 DEF InitInv, TagsPart
    <2>3. QED
        BY <2>1, <2>2
<1>4. \A t \in Tags' : t = <<key, meta.repo>>
    BY <1>1, <1>3
<1>5. TagsPart'
    BY <1>2, <1>4 DEF TagsPart
<1>6. Settled'
    BY <1>1, <1>4 DEF Settled
<1>7. \A d, v : CallerOk(d, v) => CallerOk(d, v)'
    BY <1>6 DEF CallerOk
<1>8. \A d \in Callers : CallerOk(d, call[d])'
    BY <1>7 DEF InitInv
<1>9. WriterPart'
    BY DEF InitInv, WriterPart, At
<1>10. QED
    BY <1>2, <1>5, <1>8, <1>9 DEF InitInv

\* Data or a backup is written under the key and the repository that are open.
LEMMA WriteInit ==
    ASSUME InitInv, NEW c \in Callers, Write(c) \/ Backup(c)
    PROVE  InitInv'
<1>1. /\ call[c].pc = "opened" /\ call[c] \in CallSet /\ CallerOk(c, call[c])
      /\ UNCHANGED <<key, made, call>> /\ TypePart /\ meta.st = "ready"
    BY CallOf DEF Write, Backup, At, CallerOk, disk, InitInv
<1>2. meta \in MetaSet /\ call[c].key \in KeySet /\ call[c].repo \in Nat
    BY <1>1 DEF TypePart, CallSet
<1>3. CASE Write(c)
    <2>1. /\ data' = data \union {<<call[c].key, call[c].repo>>} /\ backups' = backups
          /\ meta' = [meta EXCEPT !.ver = @ + 1]
        BY <1>3 DEF Write
    <2>2. meta' \in MetaSet /\ meta'.st = "ready" /\ meta'.repo = meta.repo
        BY <1>1, <1>2, <2>1 DEF MetaSet
    <2>3. Tags' = Tags \union {<<call[c].key, call[c].repo>>}
        BY <2>1 DEF Tags
    <2>4. data' \subseteq KeySet \X Nat /\ backups' \subseteq BackupSet
        BY <1>1, <1>2, <2>1 DEF TypePart
    <2>5. QED
        BY <1>1, <2>1, <2>2, <2>3, <2>4, TagAdded
<1>4. CASE Backup(c)
    <2> DEFINE b == [key |-> call[c].key, repo |-> call[c].repo, ver |-> meta.ver]
    <2>1. backups' = backups \union {b} /\ data' = data /\ meta' = meta
        BY <1>4 DEF Backup, disk
    <2>2. b \in BackupSet /\ b.key = call[c].key /\ b.repo = call[c].repo
        BY <1>2 DEF BackupSet, MetaSet
    <2> HIDE DEF b
    <2>3. Tags' = Tags \union {<<call[c].key, call[c].repo>>}
        BY <2>1, <2>2 DEF Tags
    <2>4. data' \subseteq KeySet \X Nat /\ backups' \subseteq BackupSet
        BY <1>1, <2>1, <2>2 DEF TypePart
    <2>5. meta' \in MetaSet /\ meta'.st = "ready" /\ meta'.repo = meta.repo
        BY <1>1, <1>2, <2>1
    <2>6. QED
        BY <1>1, <2>1, <2>3, <2>4, <2>5, TagAdded
<1>5. QED
    BY <1>3, <1>4

-----------------------------------------------------------------------------
(* Deaths and losses.                                                      *)

\* Processes die; files and backend stay as they are.
LEMMA KillInit ==
    ASSUME InitInv, NEW P, Kill(P)
    PROVE  InitInv'
<1>1. key' = key /\ meta' = meta /\ made' = made /\ data' = data /\ backups' = backups
    BY DEF Kill, disk, remote
<1>2. Tags' = Tags /\ (Settled' <=> Settled)
    BY <1>1 DEF Tags, Settled
<1>3. TypePart' /\ TagsPart'
    BY <1>1, <1>2 DEF InitInv, TypePart, TagsPart
<1>4. /\ call' = [c \in Callers |-> call'[c]]
      /\ \A c \in Callers : call'[c] = IF c \in P THEN IdleCall ELSE call[c]
    BY DEF Kill
<1>5. \A d, v : CallerOk(d, v) => CallerOk(d, v)'
    BY <1>1, <1>2 DEF CallerOk
<1>6. \A d \in Callers : CallerOk(d, call[d])'
    BY <1>4, <1>5, IdleCallOk DEF InitInv
<1>7. WriterPart'
    BY <1>1, <1>4, IdleCallOk DEF InitInv, WriterPart, At
<1>8. QED
    BY <1>3, <1>4, <1>6, <1>7 DEF InitInv

\* A volume is lost or a key put back: nobody relies on anything.
LEMMA LossInit ==
    ASSUME InitInv, LoseKey \/ LoseMeta \/ ReturnKey
    PROVE  InitInv'
<1>1. /\ Stopped /\ call' = call /\ made' = made /\ data' = data /\ backups' = backups
      /\ made \in [keys : Nat, repos : Nat] /\ meta \in MetaSet
    BY DEF LoseKey, LoseMeta, ReturnKey, remote, InitInv, TypePart
<1>2. Tags' = Tags
    BY <1>1 DEF Tags
<1>3. /\ key' \in {key, None, made.keys} /\ meta' \in {meta, NoMeta}
      /\ key' # key => key' = None \/ (key = None /\ key' = made.keys)
    BY DEF LoseKey, LoseMeta, ReturnKey
<1>4. NoMeta \in MetaSet /\ NoMeta.st = "none"
    BY DEF NoMeta, MetaSet
<1>5. TypePart'
    BY <1>1, <1>3, <1>4 DEF InitInv, TypePart
<1>6. TagsPart'
    BY <1>1, <1>2, <1>3, <1>4 DEF InitInv, TagsPart
<1>7. \A c \in Callers : call[c].pc = "idle" /\ call[c] \in CallSet
    BY <1>1, CallOf DEF Stopped, At
<1>8. \A c \in Callers : CallerOk(c, call[c])'
    BY <1>1, <1>7 DEF CallerOk, Past
<1>9. WriterPart'
    BY <1>1, <1>7 DEF WriterPart, At
<1>10. QED
    BY <1>1, <1>5, <1>6, <1>8, <1>9 DEF InitInv

-----------------------------------------------------------------------------
\* The invariant holds before the first start.
LEMMA InitInitially == Init => InitInv
<1> SUFFICES ASSUME Init PROVE InitInv
    OBVIOUS
<1>1. /\ key = None /\ meta = NoMeta /\ data = {} /\ backups = {} /\ Tags = {}
      /\ made = [keys |-> 0, repos |-> 0] /\ call = [c \in Callers |-> IdleCall]
    BY DEF Init, Tags
<1>2. NoMeta \in MetaSet /\ made \in [keys : Nat, repos : Nat]
    BY <1>1 DEF NoMeta, MetaSet
<1>3. TypePart /\ TagsPart
    BY <1>1, <1>2 DEF TypePart, TagsPart
<1>4. WriterPart /\ call = [c \in Callers |-> call[c]] /\ \A c \in Callers : call[c] = IdleCall
    BY <1>1, IdleCallOk DEF WriterPart, At
<1>5. QED
    BY <1>3, <1>4, IdleCallOk DEF InitInv

\* And every step keeps it.
LEMMA NextInit == InitInv /\ [Next]_vars => InitInv'
<1> SUFFICES ASSUME InitInv, [Next]_vars PROVE InitInv'
    OBVIOUS
<1>1. ASSUME NEW c \in Callers, Begin(c) \/ Lock(c) PROVE InitInv'
    BY <1>1, BeginInit
<1>2. ASSUME NEW c \in Callers, Ensure(c) PROVE InitInv'
    BY <1>2, StatKeyInit, StatMetaInit, ListMetaInit, TryCandidateInit, PublishInit,
       ListBlobsInit, EnsureKeyInit, CreateKeyInit, WriteKeyInit, CreateMetaInit,
       CreateSchemaInit, OpenInit DEF Ensure
<1>3. ASSUME NEW c \in Callers, CandidateFails(c) PROVE InitInv'
    BY <1>3, PublishInit
<1>4. ASSUME NEW c \in Callers, Fault(c) \/ Close(c) PROVE InitInv'
    BY <1>4, EndsOk DEF Fault, Close, Refuse
<1>5. ASSUME NEW c \in Callers, Write(c) \/ Backup(c) PROVE InitInv'
    BY <1>5, WriteInit
<1>6. ASSUME NEW P, Kill(P) PROVE InitInv'
    BY <1>6, KillInit
<1>7. CASE LoseKey \/ LoseMeta \/ ReturnKey
    BY <1>7, LossInit
<1>8. CASE UNCHANGED vars
    BY <1>8 DEF vars, disk, remote, InitInv, TypePart, TagsPart, WriterPart, CallerOk, Tags, Settled, At
<1>9. Daemon \subseteq Callers /\ Cli \subseteq Callers
    BY DEF Callers
<1>10. QED
    BY <1>1, <1>2, <1>3, <1>4, <1>5, <1>6, <1>7, <1>8, <1>9 DEF Next

\* One key and one repository per data set: whoever has the module open uses
\* those under which everything in the backend was written, with any number of
\* connections, schedulers and crysync init processes (open.go).
THEOREM InitOneRepository == Spec => []OneRepository
BY InitInitially, NextInit, InitInvImplies, PTL DEF Spec

-----------------------------------------------------------------------------
(* Inside the daemon the mutex does join the callers.                      *)

\* A caller under the mutex holds it.  Once somebody has seen the Meta nobody
\* goes on in the belief that there is none.
MutexPart ==
    /\ mutex \in Daemon \union {None}
    /\ \A c \in Daemon : call[c].pc \in Locked => mutex = c
    /\ \A c, d \in Daemon : call[c].pc \in {"open", "opened"} => call[d].pc \notin NoMetaSeen

\* At the start nobody is under the mutex.
LEMMA MutexInit == Init => MutexPart
<1>1. "idle" \notin Locked /\ "idle" \notin NoMetaSeen
    BY DEF Locked, NoMetaSeen, Past
<1>2. Init => mutex = None /\ \A c \in Daemon : call[c].pc = "idle"
    BY IdleCallOk DEF Init, Callers
<1>3. QED
    BY <1>1, <1>2 DEF MutexPart

\* One caller moves, keeping the mutex as it was.
LEMMA MutexKept ==
    ASSUME InitInv, MutexPart, mutex' = mutex, NEW c \in Callers, NEW w,
           call' = [call EXCEPT ![c] = w], w.pc \in Locked => call[c].pc \in Locked,
           w.pc \in NoMetaSeen => \/ call[c].pc \in NoMetaSeen
                                  \/ \A d \in Daemon : call[d].pc \notin {"open", "opened"},
           w.pc \in {"open", "opened"} => call[c].pc \in {"open", "opened"} /\ w.pc \notin NoMetaSeen
    PROVE  MutexPart'
<1>1. \A d \in Daemon : call'[d] = IF d = c THEN w ELSE call[d]
    BY DEF InitInv, Callers
<1>2. \A d \in Daemon : call'[d].pc \in Locked => mutex' = d
    BY <1>1 DEF MutexPart
<1>3. ASSUME NEW a \in Daemon, NEW d \in Daemon, call'[a].pc \in {"open", "opened"}
      PROVE  call'[d].pc \notin NoMetaSeen
    BY <1>1, <1>3 DEF MutexPart
<1>4. QED
    BY <1>2, <1>3 DEF MutexPart

\* ensureModuleReady returns; the mutex is free, if it was this caller's.
LEMMA MutexFreed ==
    ASSUME InitInv, MutexPart, NEW c \in Callers, call[c].pc \in Locked \union {"open"}, Unlock(c),
           NEW w, call' = [call EXCEPT ![c] = w], w.pc \in {"idle", "open"},
           w.pc = "open" => c \in Daemon /\ call[c].pc \in Locked
    PROVE  MutexPart'
<1>1. \A d \in Daemon : call'[d] = IF d = c THEN w ELSE call[d]
    BY DEF InitInv, Callers
<1>2. mutex' = IF mutex = c THEN None ELSE mutex
    BY DEF Unlock
<1>3. w.pc \notin Locked /\ w.pc \notin NoMetaSeen
    BY DEF Locked, NoMetaSeen, Past
<1>4. \A d \in Daemon : call'[d].pc \in Locked => mutex' = d
    BY <1>1, <1>2, <1>3 DEF MutexPart
<1>5. ASSUME NEW a \in Daemon, NEW d \in Daemon, call'[a].pc \in {"open", "opened"},
             call'[d].pc \in NoMetaSeen
      PROVE  FALSE
    <2>1. d # c /\ call[d].pc \in NoMetaSeen /\ call[d].pc \in Locked
        BY <1>1, <1>3, <1>5 DEF Locked
    <2>2. CASE a = c
        BY <1>1, <1>5, <2>1, <2>2 DEF MutexPart
    <2>3. CASE a # c
        BY <1>1, <1>5, <2>1, <2>3 DEF MutexPart
    <2>4. QED
        BY <2>2, <2>3
<1>6. mutex' \in Daemon \union {None}
    BY <1>2 DEF MutexPart
<1>7. QED
    BY <1>4, <1>5, <1>6 DEF MutexPart

\* A refusal gives the mutex back.
LEMMA MutexRefuse ==
    ASSUME InitInv, MutexPart, NEW c \in Callers, call[c].pc \in Locked \union {"open"}, Refuse(c)
    PROVE  MutexPart'
BY MutexFreed, IdleCallOk DEF Refuse

\* A caller that found the module ready opens it, without the mutex of another.
LEMMA MutexReady ==
    ASSUME InitInv, MutexPart, NEW c \in Callers, call[c].pc \in Locked, Ready(c)
    PROVE  MutexPart'
<1>1. PICK w \in {IdleCall, [IdleCall EXCEPT !.pc = "open"]} :
        call' = [call EXCEPT ![c] = w] /\ (w # IdleCall => c \notin Cli)
    BY DEF Ready
<1>2. w.pc \in {"idle", "open"} /\ (w.pc = "open" => c \in Daemon)
    <2>1. IdleCall \in CallSet
        BY IdleCallOk DEF CallerOk
    <2>2. QED
        BY <1>1, <2>1, IdleCallOk DEF CallSet, Callers
<1>3. Unlock(c)
    BY DEF Ready
<1>4. QED
    BY <1>1, <1>2, <1>3, MutexFreed

\* A caller under the mutex goes on.
LEMMA MutexGoes ==
    ASSUME InitInv, MutexPart, NEW c \in Callers, mutex' = mutex, NEW w,
           call' = [call EXCEPT ![c] = w],
           \/ call[c].pc \in NoMetaSeen /\ w.pc \in NoMetaSeen
           \/ w.pc \in {"idle", "lock"}
    PROVE  MutexPart'
<1>1. /\ w.pc \in {"idle", "lock"} => w.pc \notin Locked /\ w.pc \notin NoMetaSeen
      /\ w.pc \in NoMetaSeen => w.pc \notin {"open", "opened"}
      /\ NoMetaSeen \subseteq Locked
    BY DEF Locked, NoMetaSeen, Past
<1>2. w.pc \notin {"open", "opened"}
    BY <1>1
<1>3. QED
    BY <1>1, <1>2, MutexKept

\* Every step keeps callers of the daemon apart.
LEMMA MutexNext == InitInv /\ MutexPart /\ [Next]_vars => MutexPart'
<1> SUFFICES ASSUME InitInv, MutexPart, [Next]_vars PROVE MutexPart'
    OBVIOUS
<1>1. \A c \in Callers : call[c] \in CallSet /\ CallerOk(c, call[c])
    BY CallOf
<1>2. ASSUME NEW c \in Callers, Begin(c) PROVE MutexPart'
    <2>1. PICK w : w = [call[c] EXCEPT !.pc = "lock"]
        OBVIOUS
    <2>2. call' = [call EXCEPT ![c] = w] /\ w.pc = "lock" /\ mutex' = mutex
        BY <1>1, <1>2, <2>1 DEF Begin, Goto, InitInv, CallSet
    <2>3. QED
        BY <2>2, MutexGoes
<1>3. ASSUME NEW c \in Callers, Lock(c) PROVE MutexPart'
    <2>1. PICK w : w = [call[c] EXCEPT !.pc = "statKey"]
        OBVIOUS
    <2>2. call' = [call EXCEPT ![c] = w] /\ w.pc = "statKey" /\ call[c].pc = "lock"
        BY <1>1, <1>3, <2>1 DEF Lock, At, InitInv, CallSet
    <2>3. \A d \in Daemon : call'[d] = IF d = c THEN w ELSE call[d]
        BY <2>2 DEF InitInv, Callers
    <2>4. "statKey" \notin NoMetaSeen
        BY DEF NoMetaSeen, Past
    <2>5. CASE c \in Daemon
        <3>1. mutex = None /\ mutex' = c /\ None \notin Daemon
            BY <1>3, <2>5, InitAssumption DEF Lock, Callers
        <3>2. QED
            BY <2>2, <2>3, <2>4, <2>5, <3>1 DEF MutexPart
    <2>6. CASE c \notin Daemon
        BY <1>3, <2>3, <2>6 DEF Lock, MutexPart
    <2>7. QED
        BY <2>5, <2>6
<1>4. ASSUME NEW c \in Callers, StatKey(c) PROVE MutexPart'
    <2>1. PICK w : w = [call[c] EXCEPT !.pc = "statMeta", !.hasKey = (key # None)]
        OBVIOUS
    <2>2. call' = [call EXCEPT ![c] = w] /\ w.pc = "statMeta" /\ mutex' = mutex
        BY <1>1, <1>4, <2>1 DEF StatKey, InitInv, CallSet
    <2>3. call[c].pc \in Locked /\ "statMeta" \notin NoMetaSeen
        BY <1>4 DEF StatKey, At, Locked, NoMetaSeen, Past
    <2>4. QED
        BY <2>2, <2>3, MutexKept
<1>5. ASSUME NEW c \in Callers, StatMeta(c) PROVE MutexPart'
    <2>1. call[c].pc \in Locked
        BY <1>5 DEF StatMeta, At, Locked
    <2>2. CASE Ready(c)
        BY <2>1, <2>2, MutexReady
    <2>3. CASE Refuse(c)
        BY <2>1, <2>3, MutexRefuse
    <2>4. CASE meta.st = "none" /\ Goto(c, "listMeta")
        <3>1. PICK w : w = [call[c] EXCEPT !.pc = "listMeta"]
            OBVIOUS
        <3>2. call' = [call EXCEPT ![c] = w] /\ w.pc = "listMeta" /\ mutex' = mutex
            BY <1>1, <2>4, <3>1 DEF Goto, InitInv, CallSet
        <3>3. \A d \in Daemon : call[d].pc \notin {"open", "opened"}
            BY <1>1, <2>4 DEF CallerOk, Callers
        <3>4. QED
            BY <2>1, <3>2, <3>3, MutexKept
    <2>5. QED
        BY <1>5, <2>2, <2>3, <2>4 DEF StatMeta
<1>6. ASSUME NEW c \in Callers, ListMeta(c) \/ TryCandidate(c) PROVE MutexPart'
    <2>1. call[c].pc \in NoMetaSeen /\ call[c].pc \in Locked
        BY <1>6 DEF ListMeta, TryCandidate, At, Locked, NoMetaSeen
    <2>2. CASE Refuse(c)
        BY <2>1, <2>2, MutexRefuse
    <2>3. CASE ~Refuse(c)
        <3>1. PICK w : /\ call' = [call EXCEPT ![c] = w] /\ mutex' = mutex
                       /\ w.pc \in {"restore", "publish", "listBlobs"}
            <4>1. CASE ListMeta(c)
                <5>1. CASE call' = [call EXCEPT ![c].pc = "restore", ![c].untried = backups] /\ mutex' = mutex
                    <6>1. PICK w : w = [call[c] EXCEPT !.pc = "restore", !.untried = backups]
                        OBVIOUS
                    <6>2. call' = [call EXCEPT ![c] = w] /\ w.pc = "restore"
                        BY <1>1, <5>1, <6>1 DEF InitInv, CallSet
                    <6>3. QED
                        BY <5>1, <6>2
                <5>2. CASE Goto(c, "listBlobs")
                    <6>1. PICK w : w = [call[c] EXCEPT !.pc = "listBlobs"]
                        OBVIOUS
                    <6>2. call' = [call EXCEPT ![c] = w] /\ w.pc = "listBlobs" /\ mutex' = mutex
                        BY <1>1, <5>2, <6>1 DEF Goto, InitInv, CallSet
                    <6>3. QED
                        BY <6>2
                <5>3. QED
                    BY <2>3, <4>1, <5>1, <5>2 DEF ListMeta
            <4>2. CASE TryCandidate(c)
                <5>1. PICK u, m : call' = [call EXCEPT ![c].pc = "publish", ![c].untried = u, ![c].cand = m]
                                  /\ mutex' = mutex
                    BY <2>3, <4>2 DEF TryCandidate
                <5>2. PICK w : w = [call[c] EXCEPT !.pc = "publish", !.untried = u, !.cand = m]
                    OBVIOUS
                <5>3. call' = [call EXCEPT ![c] = w] /\ w.pc = "publish"
                    BY <1>1, <5>1, <5>2 DEF InitInv, CallSet
                <5>4. QED
                    BY <5>1, <5>3
            <4>3. QED
                BY <1>6, <4>1, <4>2
        <3>2. w.pc \in NoMetaSeen
            BY <3>1 DEF NoMetaSeen
        <3>3. QED
            BY <2>1, <3>1, <3>2, MutexGoes
    <2>4. QED
        BY <2>2, <2>3
<1>7. ASSUME NEW c \in Callers, Publish(c) \/ CreateSchema(c) PROVE MutexPart'
    BY <1>7, MutexReady DEF Publish, CreateSchema, At, Locked, NoMetaSeen, Past
<1>8. ASSUME NEW c \in Callers, CandidateFails(c) \/ ListBlobs(c) \/ EnsureKeyfile(c)
                                  \/ CreateKey(c) \/ WriteKey(c) \/ CreateMeta(c)
      PROVE  MutexPart'
    <2>1. call[c].pc \in NoMetaSeen /\ call[c].pc \in Locked
        BY <1>8 DEF CandidateFails, ListBlobs, EnsureKeyfile, CreateKey, WriteKey, CreateMeta,
           At, Locked, NoMetaSeen, Past
    <2>2. Refuse(c) \/ \E pc \in NoMetaSeen : Goto(c, pc)
        BY <1>8 DEF CandidateFails, ListBlobs, EnsureKeyfile, CreateKey, WriteKey, CreateMeta,
           NoMetaSeen, Past
    <2>3. CASE Refuse(c)
        BY <2>1, <2>3, MutexRefuse
    <2>4. ASSUME NEW pc \in NoMetaSeen, Goto(c, pc) PROVE MutexPart'
        <3>1. PICK w : w = [call[c] EXCEPT !.pc = pc]
            OBVIOUS
        <3>2. call' = [call EXCEPT ![c] = w] /\ w.pc = pc /\ mutex' = mutex
            BY <1>1, <2>4, <3>1 DEF Goto, InitInv, CallSet
        <3>3. QED
            BY <2>1, <3>2, MutexGoes
    <2>5. QED
        BY <2>2, <2>3, <2>4
<1>9. ASSUME NEW c \in Callers, Open(c) PROVE MutexPart'
    <2>1. call[c].pc = "open" /\ mutex' = mutex
        BY <1>9 DEF Open, At
    <2>2. CASE call' = [call EXCEPT ![c] = IdleCall]
        BY <2>1, <2>2, IdleCallOk, MutexGoes
    <2>3. CASE call' = [call EXCEPT ![c] = [IdleCall EXCEPT !.pc = "opened", !.key = key,
                                                            !.repo = meta.repo]]
        <3>1. PICK w : w = [IdleCall EXCEPT !.pc = "opened", !.key = key, !.repo = meta.repo]
            OBVIOUS
        <3>2. IdleCall \in CallSet
            BY IdleCallOk DEF CallerOk
        <3>3. call' = [call EXCEPT ![c] = w] /\ w.pc = "opened"
            BY <2>3, <3>1, <3>2 DEF CallSet
        <3>4. "opened" \notin Locked /\ "opened" \notin NoMetaSeen
            BY DEF Locked, NoMetaSeen, Past
        <3>5. QED
            BY <2>1, <3>3, <3>4, MutexKept
    <2>4. QED
        BY <1>9, <2>2, <2>3 DEF Open
<1>10. ASSUME NEW c \in Callers, Fault(c) PROVE MutexPart'
    <2>1. call[c].pc \in Locked \union {"open"} /\ Refuse(c)
        BY <1>1, <1>10 DEF Fault, CallSet
    <2>2. QED
        BY <2>1, MutexRefuse
<1>11. ASSUME NEW c \in Callers, Close(c) PROVE MutexPart'
    BY <1>11, IdleCallOk, MutexGoes DEF Close
<1>12. ASSUME NEW c \in Callers, Write(c) \/ Backup(c) PROVE MutexPart'
    BY <1>12 DEF Write, Backup, MutexPart
<1>13. ASSUME NEW P, P = Daemon \/ P \subseteq Cli, Kill(P) PROVE MutexPart'
    <2>1. \A d \in Daemon : call'[d] = IF d \in P THEN IdleCall ELSE call[d]
        BY <1>13 DEF Kill, Callers
    <2>2. mutex' = IF mutex \in P THEN None ELSE mutex
        BY <1>13 DEF Kill
    <2>3. "idle" \notin Locked /\ "idle" \notin NoMetaSeen
        BY DEF Locked, NoMetaSeen, Past
    <2>4. CASE P = Daemon
        BY <2>1, <2>2, <2>3, <2>4, IdleCallOk DEF MutexPart
    <2>5. CASE P \subseteq Cli
        <3>1. \A d \in Daemon : d \notin P
            BY <2>5, InitAssumption
        <3>2. QED
            BY <2>1, <2>2, <3>1 DEF MutexPart
    <2>6. QED
        BY <1>13, <2>4, <2>5
<1>14. CASE LoseKey \/ LoseMeta \/ ReturnKey
    BY <1>14 DEF LoseKey, LoseMeta, ReturnKey, MutexPart
<1>15. CASE UNCHANGED vars
    BY <1>15 DEF vars, MutexPart
<1>16. Daemon \subseteq Callers /\ Cli \subseteq Callers
    BY DEF Callers
<1>17. QED
    BY <1>2, <1>3, <1>4, <1>5, <1>6, <1>7, <1>8, <1>9, <1>10, <1>11, <1>12, <1>13, <1>14,
       <1>15, <1>16 DEF Next, Ensure

\* A step while the daemon has the module open and no crysync init runs.
LEMMA OpenMetaStep ==
    ASSUME InitInv, MutexPart, Next, Opened, \A c \in Cli : At(c, "idle")
    PROVE  meta'.st = "ready" /\ meta'.repo = meta.repo /\ meta'.ver >= meta.ver
<1>1. PICK a \in Daemon : call[a].pc = "opened"
    BY DEF Opened, At
<1>2. meta.st = "ready" /\ meta \in MetaSet
    BY <1>1 DEF InitInv, CallerOk, TypePart, Callers
<1>3. meta.ver >= meta.ver
    BY <1>2 DEF MetaSet
<1>4. \A c \in Callers : call[c].pc \notin NoMetaSeen
    <2>1. \A c \in Daemon : call[c].pc \notin NoMetaSeen
        BY <1>1 DEF MutexPart
    <2>2. \A c \in Cli : call[c].pc \notin NoMetaSeen
        BY DEF At, NoMetaSeen, Past
    <2>3. QED
        BY <2>1, <2>2 DEF Callers
<1>5. ~Stopped
    BY <1>1 DEF Stopped, At, Callers
<1>6. meta' = meta \/ meta' = [meta EXCEPT !.ver = @ + 1]
    <2>1. ASSUME NEW c \in Callers, Begin(c) \/ Lock(c) \/ Ensure(c) \/ CandidateFails(c) \/ Fault(c)
          PROVE  meta' = meta
        <3>1. call[c].pc \notin {"publish", "createKey", "writeKey", "createMeta", "schema"}
            BY <1>4 DEF NoMetaSeen, Past
        <3>2. QED
            BY <2>1, <3>1 DEF Begin, Lock, Ensure, StatKey, StatMeta, ListMeta, TryCandidate, Publish,
               ListBlobs, EnsureKeyfile, CreateKey, WriteKey, CreateMeta, CreateSchema, Open,
               CandidateFails, Fault, At, disk
    <2>2. ASSUME NEW c \in Daemon, Write(c) \/ Backup(c) \/ Close(c)
          PROVE  meta' = meta \/ meta' = [meta EXCEPT !.ver = @ + 1]
        BY <2>2 DEF Write, Backup, Close, disk
    <2>3. ASSUME NEW P, Kill(P) PROVE meta' = meta
        BY <2>3 DEF Kill, disk
    <2>4. ~LoseKey /\ ~LoseMeta /\ ~ReturnKey
        BY <1>5 DEF LoseKey, LoseMeta, ReturnKey
    <2>5. QED
        BY <2>1, <2>2, <2>3, <2>4 DEF Next
<1>7. CASE meta' = meta
    BY <1>2, <1>3, <1>7
<1>8. CASE meta' = [meta EXCEPT !.ver = @ + 1]
    BY <1>2, <1>8 DEF MetaSet
<1>9. QED
    BY <1>6, <1>7, <1>8

\* While the daemon has the module open its own connections and schedulers,
\* however many, put no older or empty Meta in place of the one it writes to:
\* moduleInitMutexes lets nobody act on a look at the disk that is out of date.
THEOREM InitOpenMetaStays == Spec => OpenMetaStays
<1>1. InitInv /\ MutexPart /\ [Next]_vars =>
        [Opened /\ (\A c \in Cli : At(c, "idle")) =>
            meta'.st = "ready" /\ meta'.repo = meta.repo /\ meta'.ver >= meta.ver]_vars
    BY OpenMetaStep
<1>2. QED
    BY <1>1, InitInitially, NextInit, MutexInit, MutexNext, PTL DEF Spec, OpenMetaStays
=============================================================================
