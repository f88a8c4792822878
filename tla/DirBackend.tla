----------------------------- MODULE DirBackend -----------------------------
(***************************************************************************)
(* The directory backend (internal/backend/dir.go): objects are written    *)
(* to a temporary file of their directory and renamed; Meta backups are    *)
(* fsynced, blobs are not.  The process may die at any step, the power may *)
(* fail and take with it whatever was not fsynced.                         *)
(***************************************************************************)
EXTENDS Naturals, Sequences, FiniteSets

CONSTANTS
    Clients,        \* goroutines of the daemon that use this backend
    Blobs, Metas,   \* names of data blobs; of Meta backups
    Parts,          \* name -> its bucket (for a Meta backup: the meta directory)
    MaxDirFaults    \* bound: failed steps, deaths and power failures

Names == Blobs \union Metas

VARIABLES
    file,      \* object -> [data: "none", "part" or "whole"; sync: what survives]
    leftover,  \* temporary files that nobody will remove: the objects they were for
    dcall,     \* client -> call in progress
    dlisted,   \* the list a client just got, until the next call
    acked,     \* ghost: Meta backups whose upload succeeded and that nobody deletes
    dfaults

dirvars == <<file, leftover, dcall, dlisted, acked, dfaults>>

\* sync: the file's data and its directory entry have been fsynced.
NoFile   == [data |-> "none", sync |-> {}]
IdleCall == [op |-> "none", name |-> {}, scope |-> {}, seen |-> {}, pc |-> "idle",
             tmp |-> NoFile, todo |-> {}, found |-> {}]

DirInit ==
    /\ file = [n \in Names |-> NoFile]
    /\ leftover = {}
    /\ dcall = [c \in Clients |-> IdleCall]
    /\ dlisted = {} /\ acked = {}
    /\ dfaults = 0

Stored   == {n \in Names : file[n].data # "none"}
Name(c)  == CHOOSE n \in dcall[c].name : TRUE
IsMeta(c) == dcall[c].name \subseteq Metas
Dirs(S)  == {Parts[n] : n \in S}

Return(c)   == dcall' = [dcall EXCEPT ![c] = IdleCall]
Trouble     == dfaults < MaxDirFaults /\ dfaults' = dfaults + 1

-----------------------------------------------------------------------------
(* A goroutine calls the backend, under the locks of module Repo.          *)

DirAlone(n) == \A d \in Clients : n \notin dcall[d].name \union dcall[d].scope

DirPut(c) ==
    /\ dcall[c].pc = "idle"
    /\ \E n \in Names \ Stored :
        /\ DirAlone(n)
        /\ dcall' = [dcall EXCEPT ![c] = [IdleCall EXCEPT !.op = "put", !.name = {n}, !.pc = "create"]]
    /\ dlisted' = {}
    /\ UNCHANGED <<file, leftover, dfaults, acked>>

DirDelete(c) ==
    /\ dcall[c].pc = "idle"
    /\ \E n \in Stored :
        /\ DirAlone(n)
        /\ dcall' = [dcall EXCEPT ![c] = [IdleCall EXCEPT !.op = "delete", !.name = {n}, !.pc = "delete"]]
        /\ acked' = acked \ {n}
    /\ dlisted' = {}
    /\ UNCHANGED <<file, leftover, dfaults>>

DirList(c) ==
    /\ dcall[c].pc = "idle"
    /\ \E S \in {Blobs, Metas} :
        /\ \A d \in Clients : dcall[d].name \intersect S = {}
        /\ dcall' = [dcall EXCEPT ![c] = [IdleCall EXCEPT !.op = "list", !.scope = S, !.pc = "list",
                                          !.seen = Stored \intersect S, !.todo = Dirs(S)]]
    /\ dlisted' = {}
    /\ UNCHANGED <<file, leftover, dfaults, acked>>

-----------------------------------------------------------------------------
(* PutContext and PutMetaContext: MkdirAll and CreateTemp, the write, for  *)
(* a Meta backup fsync, then rename and, again for a Meta backup, fsync of *)
(* the directory.                                                          *)

CreateTemp(c) ==
    /\ dcall[c].pc = "create"
    /\ dcall' = [dcall EXCEPT ![c].pc = "write", ![c].tmp.data = "part"]
    /\ UNCHANGED <<file, leftover, dlisted, dfaults, acked>>

Write(c) ==
    /\ dcall[c].pc = "write"
    /\ dcall' = [dcall EXCEPT ![c].pc = IF IsMeta(c) THEN "syncFile" ELSE "rename",
                              ![c].tmp.data = "whole"]
    /\ UNCHANGED <<file, leftover, dlisted, dfaults, acked>>

SyncFile(c) ==
    /\ dcall[c].pc = "syncFile"
    /\ dcall' = [dcall EXCEPT ![c].pc = "rename", ![c].tmp.sync = {"data"}]
    /\ UNCHANGED <<file, leftover, dlisted, dfaults, acked>>

Rename(c) ==
    /\ dcall[c].pc = "rename"
    /\ file' = [file EXCEPT ![Name(c)] = dcall[c].tmp]
    /\ IF IsMeta(c) THEN dcall' = [dcall EXCEPT ![c].pc = "syncDir", ![c].tmp = NoFile] ELSE Return(c)
    /\ UNCHANGED <<leftover, dlisted, dfaults, acked>>

SyncDirSkipped(c) ==   \* mutant: success without fsync of the directory
    /\ dcall[c].pc = "syncDir"
    /\ acked' = acked \union dcall[c].name
    /\ Return(c)
    /\ UNCHANGED <<file, leftover, dlisted, dfaults>>

\* Every entry of the directory is safe now.
SyncDir(c) ==
    /\ dcall[c].pc = "syncDir"
    /\ file' = [n \in Names |-> IF n \in Stored /\ Parts[n] = Parts[Name(c)]
                                THEN [file[n] EXCEPT !.sync = @ \union {"entry"}] ELSE file[n]]
    /\ acked' = acked \union dcall[c].name
    /\ Return(c)
    /\ UNCHANGED <<leftover, dlisted, dfaults>>

\* A step fails or the context is done: the temporary file is removed (or the
\* removal fails too and it stays), and the error returned.
PutFails(c) ==
    /\ dcall[c].pc \in {"create", "write", "syncFile", "rename", "syncDir"}
    /\ Trouble
    /\ \/ UNCHANGED leftover
       \/ dcall[c].tmp.data # "none" /\ leftover' = leftover \union dcall[c].name
    /\ Return(c)
    /\ UNCHANGED <<file, dlisted, acked>>

-----------------------------------------------------------------------------
(* Delete, DeleteMetaContext, List and ListMetaContext.                    *)

DeleteFile(c) ==
    /\ dcall[c].pc = "delete"
    /\ \/ file' = [file EXCEPT ![Name(c)] = NoFile] /\ UNCHANGED dfaults
       \/ Trouble /\ UNCHANGED file
    /\ Return(c)
    /\ UNCHANGED <<leftover, dlisted, acked>>

EntriesWithTemps(d) ==   \* mutant: isTemporaryBlob is not asked
    {n \in Stored \union leftover : Parts[n] = d}

\* What a directory holds of the listed kind; temporary files are left out.
Entries(d) == {n \in Stored : Parts[n] = d}

ReadDir(c) ==
    /\ dcall[c].pc = "list"
    /\ \/ /\ \E d \in dcall[c].todo :
               dcall' = [dcall EXCEPT ![c].todo = @ \ {d}, ![c].found = @ \union Entries(d)]
          /\ UNCHANGED <<dlisted, dfaults>>
       \/ dcall[c].todo = {} /\ dlisted' = dcall[c].found /\ Return(c) /\ UNCHANGED dfaults
       \/ Trouble /\ Return(c) /\ UNCHANGED dlisted
    /\ UNCHANGED <<file, leftover, acked>>

-----------------------------------------------------------------------------
\* The process dies: its temporary files stay behind.
Orphans == UNION {dcall[c].name : c \in {c \in Clients : dcall[c].tmp.data # "none"}}
Killed  == /\ dcall' = [c \in Clients |-> IdleCall]
           /\ leftover' = leftover \union Orphans

Die == Trouble /\ Killed /\ UNCHANGED <<file, dlisted, acked>>

\* The power fails: an entry that was not fsynced may be gone, data that was
\* not fsynced may be cut short.
AfterPowerLoss(f) ==
    {f} \union (IF "entry" \in f.sync THEN {} ELSE {NoFile})
        \union (IF "data" \in f.sync \/ f.data = "none" THEN {} ELSE {[f EXCEPT !.data = "part"]})

PowerLoss ==
    /\ Trouble /\ Killed
    /\ file' \in [Names -> UNION {AfterPowerLoss(file[n]) : n \in Names}]
    /\ \A n \in Names : file'[n] \in AfterPowerLoss(file[n])
    /\ UNCHANGED <<dlisted, acked>>

-----------------------------------------------------------------------------
DirStep(c) ==
    \/ CreateTemp(c) \/ Write(c) \/ SyncFile(c) \/ Rename(c) \/ SyncDir(c)
    \/ DeleteFile(c) \/ ReadDir(c)

DirNext ==
    \/ \E c \in Clients : DirPut(c) \/ DirDelete(c) \/ DirList(c) \/ DirStep(c) \/ PutFails(c)
    \/ Die \/ PowerLoss

DirSpec == DirInit /\ [][DirNext]_dirvars

-----------------------------------------------------------------------------
(* Properties.                                                             *)

\* Readers never see a file before its rename, lists never show temporary
\* files, whenever the process dies.
Store == INSTANCE BlobStore WITH
    held <- [n \in Names |-> file[n].data],
    busy <- [c \in Clients |-> [op |-> dcall[c].op, name |-> dcall[c].name,
                                scope |-> dcall[c].scope, seen |-> dcall[c].seen]],
    listed <- dlisted
ImplementsBlobStore == Store!Spec

\* A Meta backup whose upload succeeded is there, whole, until somebody deletes
\* it, even after a power failure at any later moment (dir.go:156-171).
MetaDurable == \A n \in acked : file[n].data = "whole"
=============================================================================
