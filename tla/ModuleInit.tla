----------------------------- MODULE ModuleInit -----------------------------
(***************************************************************************)
(* How a module comes to life (internal/core/open.go): from the key file,  *)
(* the Meta file and what the backend holds, ensureModuleReady decides     *)
(* whether to create an empty repository, to restore the Meta from a       *)
(* remote backup, or to refuse.  Connections and schedulers of the daemon  *)
(* call it under a mutex of their process; `crysync init` is a process of  *)
(* its own.  Any step may fail, any process may die between two steps.     *)
(***************************************************************************)
EXTENDS Integers, FiniteSets

CONSTANTS
    Daemon,          \* callers inside the daemon
    Cli,             \* crysync init processes
    None,            \* no key file; nobody
    Torn,            \* a key file that was created but not written
    MaxKeys,         \* bound: keys ever created
    MaxWrites,       \* bound: writes to a repository
    MaxFaults        \* bound: failed steps and process deaths

Callers == Daemon \union Cli

ASSUME InitAssumption ==
    /\ {MaxKeys, MaxWrites, MaxFaults} \subseteq Nat
    /\ Daemon \intersect Cli = {}
    /\ {None, Torn} \intersect (Callers \union Nat) = {} /\ None # Torn

VARIABLES
    key,      \* the key file: None, Torn or the number of a key
    meta,     \* the Meta file: [st, repo: which repository, ver: writes in it]
    data,     \* backend: the <<key, repo>> under which blobs were written
    backups,  \* backend: intact Meta backups [key, repo, ver]
    made,     \* keys and repositories created so far
    mutex,    \* holder of the daemon's moduleInitMutexes entry
    call,     \* caller -> [pc, hasKey, untried: backups, cand, key, repo]
    faults    \* failures so far

disk   == <<key, meta, made>>
remote == <<data, backups>>
vars   == <<key, meta, data, backups, made, mutex, call, faults>>

NoMeta   == [st |-> "none", repo |-> 0, ver |-> 0]
IdleCall == [pc |-> "idle", hasKey |-> FALSE, untried |-> {}, cand |-> NoMeta,
             key |-> None, repo |-> 0]
Stopped  == \A c \in Callers : call[c].pc = "idle"
Opened   == \E c \in Daemon : call[c].pc = "opened"

Init ==
    /\ key = None /\ meta = NoMeta
    /\ data = {} /\ backups = {}
    /\ made = [keys |-> 0, repos |-> 0]
    /\ mutex = None
    /\ call = [c \in Callers |-> IdleCall]
    /\ faults = 0

At(c, pc)   == call[c].pc = pc
Goto(c, pc) == call' = [call EXCEPT ![c].pc = pc] /\ UNCHANGED mutex
Unlock(c)   == mutex' = IF mutex = c THEN None ELSE mutex

\* ensureModuleReady returns an error (mutant: without the deferred unlock), or
\* success: OpenModule goes on.
RefuseKeepsLock(c) == call' = [call EXCEPT ![c] = IdleCall] /\ UNCHANGED mutex
Refuse(c) == call' = [call EXCEPT ![c] = IdleCall] /\ Unlock(c)
Ready(c)  == /\ call' = [call EXCEPT ![c] = IF c \in Cli THEN IdleCall
                                            ELSE [IdleCall EXCEPT !.pc = "open"]]
             /\ Unlock(c)

-----------------------------------------------------------------------------
(* ensureModuleReady.                                                      *)

\* A connection, a scheduler's (re)try, or crysync init.
Begin(c) ==
    /\ At(c, "idle")
    /\ Goto(c, "lock")
    /\ UNCHANGED <<disk, remote, faults>>

LockNothing(c) ==   \* mutant: no mutex
    /\ At(c, "lock")
    /\ Goto(c, "statKey")
    /\ UNCHANGED <<disk, remote, faults>>

Lock(c) ==
    /\ At(c, "lock")
    /\ c \in Daemon => mutex = None
    /\ mutex' = IF c \in Daemon THEN c ELSE mutex
    /\ call' = [call EXCEPT ![c].pc = "statKey"]
    /\ UNCHANGED <<disk, remote, faults>>

StatKey(c) ==
    /\ At(c, "statKey")
    /\ call' = [call EXCEPT ![c].pc = "statMeta", ![c].hasKey = (key # None)]
    /\ UNCHANGED <<disk, remote, mutex, faults>>

StatMeta(c) ==
    /\ At(c, "statMeta")
    /\ \/ meta.st # "none" /\ call[c].hasKey /\ Ready(c)
       \/ meta.st # "none" /\ ~call[c].hasKey /\ Refuse(c)
       \/ meta.st = "none" /\ Goto(c, "listMeta")
    /\ UNCHANGED <<disk, remote, faults>>

\* A key without any backup is refused, and so are backups without a key.
ListMeta(c) ==
    /\ At(c, "listMeta")
    /\ \/ backups = {} /\ call[c].hasKey /\ Refuse(c)
       \/ backups # {} /\ ~call[c].hasKey /\ Refuse(c)
       \/ /\ backups # {} /\ call[c].hasKey
          /\ call' = [call EXCEPT ![c].pc = "restore", ![c].untried = backups]
          /\ UNCHANGED mutex
       \/ backups = {} /\ ~call[c].hasKey /\ Goto(c, "listBlobs")
    /\ UNCHANGED <<disk, remote, faults>>

\* RestoreMeta: the newest backup not yet tried that this key decrypts.
TryCandidate(c) ==
    /\ At(c, "restore")
    /\ LET good == {b \in call[c].untried : b.key = key}
       IN \/ good = {} /\ Refuse(c)
          \/ \E b \in good :
               /\ \A o \in good : o.ver <= b.ver
               /\ call' = [call EXCEPT ![c].pc = "publish", ![c].untried = good \ {b},
                               ![c].cand = [st |-> "ready", repo |-> b.repo, ver |-> b.ver]]
               /\ UNCHANGED mutex
    /\ UNCHANGED <<disk, remote, faults>>

\* The candidate is renamed over the target.
Publish(c) ==
    /\ At(c, "publish")
    /\ meta' = call[c].cand
    /\ Ready(c)
    /\ UNCHANGED <<key, made, remote, faults>>

\* Its download, check or rename fails, or the directory's fsync after the
\* rename: the next older one is tried.
CandidateFails(c) ==
    /\ At(c, "publish") /\ faults < MaxFaults
    /\ faults' = faults + 1
    /\ meta' \in {meta, call[c].cand}
    /\ Goto(c, "restore")
    /\ UNCHANGED <<key, made, remote>>

ListBlobsSkipped(c) ==   \* mutant: data without key and Meta is ignored
    /\ At(c, "listBlobs")
    /\ Goto(c, "ensureKey")
    /\ UNCHANGED <<disk, remote, faults>>

ListBlobs(c) ==
    /\ At(c, "listBlobs")
    /\ IF data = {} THEN Goto(c, "ensureKey") ELSE Refuse(c)
    /\ UNCHANGED <<disk, remote, faults>>

\* ensureKeyfile: the key may be there by now, and so may the Meta.
EnsureKeyfile(c) ==
    /\ At(c, "ensureKey")
    /\ \/ key # None /\ Goto(c, "createMeta")
       \/ key = None /\ meta.st # "none" /\ Refuse(c)
       \/ key = None /\ meta.st = "none" /\ Goto(c, "createKey")
    /\ UNCHANGED <<disk, remote, faults>>

CreateKeyOver(c) ==   \* mutant: without O_EXCL
    /\ At(c, "createKey")
    /\ key' = Torn
    /\ Goto(c, "writeKey")
    /\ UNCHANGED <<meta, made, remote, faults>>

\* SaveKeyFileExclusive: O_EXCL, then the write; a key of another process is used.
CreateKey(c) ==
    /\ At(c, "createKey")
    /\ \/ key = None /\ key' = Torn /\ Goto(c, "writeKey")
       \/ key # None /\ UNCHANGED key /\ Goto(c, "createMeta")
    /\ UNCHANGED <<meta, made, remote, faults>>

WriteKey(c) ==
    /\ At(c, "writeKey")
    /\ key' = made.keys + 1
    /\ made' = [made EXCEPT !.keys = @ + 1]
    /\ Goto(c, "createMeta")
    /\ UNCHANGED <<meta, remote, faults>>

\* meta.Open: SQLite creates the file ...
CreateMeta(c) ==
    /\ At(c, "createMeta")
    /\ meta' = IF meta.st = "none" THEN [meta EXCEPT !.st = "empty"] ELSE meta
    /\ Goto(c, "schema")
    /\ UNCHANGED <<key, made, remote, faults>>

\* ... and one transaction the tables, unless they exist.
CreateSchema(c) ==
    /\ At(c, "schema")
    /\ IF meta.st = "empty"
       THEN /\ meta' = [st |-> "ready", repo |-> made.repos + 1, ver |-> 0]
            /\ made' = [made EXCEPT !.repos = @ + 1]
       ELSE UNCHANGED <<meta, made>>
    /\ Ready(c)
    /\ UNCHANGED <<key, remote, faults>>

\* The rest of OpenModule: LoadKeyFile and OpenExisting.
Open(c) ==
    /\ At(c, "open")
    /\ IF key \notin {None, Torn} /\ meta.st = "ready"
       THEN call' = [call EXCEPT ![c] = [IdleCall EXCEPT !.pc = "opened", !.key = key,
                                                         !.repo = meta.repo]]
       ELSE call' = [call EXCEPT ![c] = IdleCall]
    /\ UNCHANGED <<disk, remote, mutex, faults>>

-----------------------------------------------------------------------------
(* What an open module does, and what may happen to it.                    *)

Write(c) ==
    /\ At(c, "opened") /\ meta.ver < MaxWrites
    /\ data' = data \union {<<call[c].key, call[c].repo>>}
    /\ meta' = [meta EXCEPT !.ver = @ + 1]
    /\ UNCHANGED <<key, made, backups, mutex, call, faults>>

Backup(c) ==
    /\ At(c, "opened")
    /\ backups' = backups \union {[key |-> call[c].key, repo |-> call[c].repo, ver |-> meta.ver]}
    /\ UNCHANGED <<disk, data, mutex, call, faults>>

Close(c) ==
    /\ At(c, "opened")
    /\ call' = [call EXCEPT ![c] = IdleCall]
    /\ UNCHANGED <<disk, remote, mutex, faults>>

\* A stat, a backend call, a file or a database operation of c fails.
Fault(c) ==
    /\ call[c].pc \notin {"idle", "lock", "publish", "opened"} /\ faults < MaxFaults
    /\ faults' = faults + 1
    /\ Refuse(c)
    /\ UNCHANGED <<disk, remote>>

\* The daemon, or a crysync init, is killed.
Kill(P) ==
    /\ faults < MaxFaults /\ \E c \in P : call[c].pc # "idle"
    /\ faults' = faults + 1
    /\ call' = [c \in Callers |-> IF c \in P THEN IdleCall ELSE call[c]]
    /\ mutex' = IF mutex \in P THEN None ELSE mutex
    /\ UNCHANGED <<disk, remote>>

\* A volume is lost while nothing runs.
LoseKey ==
    /\ Stopped /\ key # None /\ made.keys < MaxKeys
    /\ key' = None
    /\ UNCHANGED <<meta, made, remote, mutex, call, faults>>
LoseMeta ==
    /\ Stopped /\ meta.st # "none"
    /\ meta' = NoMeta
    /\ UNCHANGED <<key, made, remote, mutex, call, faults>>

\* The operator puts back a copy of the last key that was created.
ReturnKey ==
    /\ Stopped /\ key = None /\ made.keys > 0
    /\ key' = made.keys
    /\ UNCHANGED <<meta, made, remote, mutex, call, faults>>

-----------------------------------------------------------------------------
Ensure(c) ==
    \/ StatKey(c) \/ StatMeta(c) \/ ListMeta(c) \/ TryCandidate(c) \/ Publish(c)
    \/ ListBlobs(c) \/ EnsureKeyfile(c) \/ CreateKey(c) \/ WriteKey(c)
    \/ CreateMeta(c) \/ CreateSchema(c) \/ Open(c)

Next ==
    \/ \E c \in Callers : Begin(c) \/ Lock(c) \/ Ensure(c)
        \/ CandidateFails(c) \/ Fault(c)
    \/ \E c \in Daemon : Write(c) \/ Backup(c) \/ Close(c)
    \/ Kill(Daemon) \/ \E c \in Cli : Kill({c})
    \/ LoseKey \/ LoseMeta \/ ReturnKey

Spec == Init /\ [][Next]_vars

\* The scheduler retries for ever, goroutines run, the mutex is handed over.
Fairness == \A c \in Daemon :
    WF_vars(Begin(c)) /\ SF_vars(Lock(c)) /\ WF_vars(Ensure(c))

FairSpec == Spec /\ Fairness

-----------------------------------------------------------------------------
(* Properties.                                                             *)

\* Whoever has the module open uses the key and the repository under which
\* everything in the backend was written: no key is replaced and no empty
\* repository is created over data, by whatever callers, processes and losses.
OneRepository ==
    \A c \in Daemon : At(c, "opened") =>
        /\ \A d \in data : d = <<call[c].key, call[c].repo>>
        /\ \A b \in backups : b.key = call[c].key /\ b.repo = call[c].repo

\* While the daemon has the module open nothing puts an older or empty Meta in
\* place of the one it writes to: its own callers are serialised.  A crysync
\* init that runs at that moment can (docs/architecture.md:59: the locks do not
\* reach other processes), hence the premise.
OpenMetaStays ==
    [][Opened /\ (\A c \in Cli : At(c, "idle")) =>
        meta'.st = "ready" /\ meta'.repo = meta.repo /\ meta'.ver >= meta.ver]_vars

\* When only the key is left the Meta is restored (README.md:23): with the key
\* and a backup in place the module opens again.
KeyAndBackupSuffice ==
    (\E b \in backups : b.key = key) ~> (Opened \/ key = None)
=============================================================================
