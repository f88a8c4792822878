---------------------------- MODULE BackendProofs ----------------------------
(***************************************************************************)
(* Both backends keep the promises of module BlobStore, for any clients,   *)
(* objects, buckets, faults and removed collections, and an uploaded Meta  *)
(* backup of a directory backend survives power failures.                  *)
(*                                                                         *)
(* Every step of a backend is one step of the store or none (stutters and  *)
(* the lemmas Dir... and Dav... below).  What has to be invariant for that *)
(* is small: calls that may change an object keep away from its lists and  *)
(* from each other (the locks of module Repo), and during a list every     *)
(* object is found already or can still be reached from a directory or     *)
(* collection left to read, because no object is without its collections.  *)
(***************************************************************************)
EXTENDS Backend, TLAPS

Datas == {"none", "part", "whole"}
Files == [data : Datas, sync : SUBSET {"data", "entry"}]
Ops   == {"none", "put", "delete", "list"}

\* What the store sees of a call that changes an object, and of a list.
LEMMA SeenCall ==
    ASSUME NEW o, NEW v, NEW s, NEW t
    PROVE  /\ [Store!Idle EXCEPT !.op = o, !.name = v] = [op |-> o, name |-> v, scope |-> {}, seen |-> {}]
           /\ [Store!Idle EXCEPT !.op = o, !.scope = s, !.seen = t]
                = [op |-> o, name |-> {}, scope |-> s, seen |-> t]
<1>1. PICK q : q = [Store!Idle EXCEPT !.op = o]
    OBVIOUS
<1>2. q = [op |-> o, name |-> {}, scope |-> {}, seen |-> {}]
    BY <1>1 DEF Store!Idle
<1>3. [Store!Idle EXCEPT !.op = o, !.name = v] = [op |-> o, name |-> v, scope |-> {}, seen |-> {}]
    <2>1. [q EXCEPT !.name = v] = [op |-> o, name |-> v, scope |-> {}, seen |-> {}]
        BY <1>2
    <2> QED BY <1>1, <2>1
<1>4. PICK p : p = [q EXCEPT !.scope = s]
    OBVIOUS
<1>5. p = [op |-> o, name |-> {}, scope |-> s, seen |-> {}]
    BY <1>2, <1>4
<1>6. [Store!Idle EXCEPT !.op = o, !.scope = s, !.seen = t] = [op |-> o, name |-> {}, scope |-> s, seen |-> t]
    <2>1. [p EXCEPT !.seen = t] = [op |-> o, name |-> {}, scope |-> s, seen |-> t]
        BY <1>5
    <2> QED BY <1>1, <1>4, <2>1
<1> QED BY <1>3, <1>6

\* The same of the store that the directory backend implements.
LEMMA DirSeenCall ==
    ASSUME NEW o, NEW v, NEW s, NEW t
    PROVE  /\ [Dir!Store!Idle EXCEPT !.op = o, !.name = v] = [op |-> o, name |-> v, scope |-> {}, seen |-> {}]
           /\ [Dir!Store!Idle EXCEPT !.op = o, !.scope = s, !.seen = t]
                = [op |-> o, name |-> {}, scope |-> s, seen |-> t]
<1>1. PICK q : q = [Dir!Store!Idle EXCEPT !.op = o]
    OBVIOUS
<1>2. q = [op |-> o, name |-> {}, scope |-> {}, seen |-> {}]
    BY <1>1 DEF Dir!Store!Idle
<1>3. [Dir!Store!Idle EXCEPT !.op = o, !.name = v] = [op |-> o, name |-> v, scope |-> {}, seen |-> {}]
    <2>1. [q EXCEPT !.name = v] = [op |-> o, name |-> v, scope |-> {}, seen |-> {}]
        BY <1>2
    <2> QED BY <1>1, <2>1
<1>4. PICK p : p = [q EXCEPT !.scope = s]
    OBVIOUS
<1>5. p = [op |-> o, name |-> {}, scope |-> s, seen |-> {}]
    BY <1>2, <1>4
<1>6. [Dir!Store!Idle EXCEPT !.op = o, !.scope = s, !.seen = t] = [op |-> o, name |-> {}, scope |-> s, seen |-> t]
    <2>1. [p EXCEPT !.seen = t] = [op |-> o, name |-> {}, scope |-> s, seen |-> t]
        BY <1>5
    <2> QED BY <1>1, <1>4, <2>1
<1> QED BY <1>3, <1>6

-----------------------------------------------------------------------------
(* The directory backend.                                                  *)

DirPuts  == {"create", "write", "syncFile", "rename", "syncDir"}
DirCalls == [op : Ops, name : SUBSET Names, scope : SUBSET Names, seen : SUBSET Names,
             pc : DirPuts \union {"idle", "delete", "list"}, tmp : Files,
             todo : SUBSET Dir!Dirs(Names), found : SUBSET Names]

\* A call that puts or deletes has one object, which counts as uploaded only
\* when the call is over.
DirChange(w) ==
    /\ w.scope = {} /\ w.seen = {}
    /\ \E n \in Names : w.name = {n} /\ n \notin acked

DirPutPart(w) ==
    /\ w.pc \in DirPuts => w.op = "put" /\ DirChange(w)
    /\ w.pc = "delete" => w.op = "delete" /\ DirChange(w)
    /\ w.pc \in {"syncFile", "rename"} => w.tmp.data = "whole"
    /\ w.pc \in {"syncFile", "syncDir"} => w.name \subseteq Metas
    /\ w.pc = "rename" /\ w.name \subseteq Metas => "data" \in w.tmp.sync
    /\ w.pc = "syncDir" => \A n \in w.name : file[n].data = "whole" /\ "data" \in file[n].sync

\* A list has found what is there or still has to read its directory.
DirListPart(w) == w.pc = "list" =>
    /\ w.op = "list" /\ w.name = {} /\ w.scope \in {Blobs, Metas}
    /\ Dir!Stored \intersect w.scope \subseteq w.seen
    /\ w.found \subseteq w.seen
    /\ w.todo \subseteq Dir!Dirs(w.scope)
    /\ \A n \in Dir!Stored \intersect w.scope : n \in w.found \/ Parts[n] \in w.todo

DirCallOk(w) ==
    /\ w \in DirCalls
    /\ w.pc = "idle" => w = Dir!IdleCall
    /\ DirPutPart(w) /\ DirListPart(w)

DirApart == \A c, d \in Clients :
    c # d => dcall[c].name \intersect (dcall[d].name \union dcall[d].scope) = {}

Safe(f) == f.data = "whole" /\ f.sync = {"data", "entry"}

DirInv ==
    /\ file \in [Names -> Files] /\ dcall \in [Clients -> DirCalls]
    /\ acked \subseteq Metas /\ \A n \in acked : Safe(file[n])
    /\ \A c \in Clients : DirCallOk(dcall[c])
    /\ DirApart

-----------------------------------------------------------------------------
(* The WebDAV backend.                                                     *)

DavCalls == [op : Ops, name : SUBSET Names, scope : SUBSET Names, seen : SUBSET Names,
             pc : {"idle", "ensure", "mark", "put", "error", "delete", "propfind", "walk"},
             level : Nat, tries : Nat, err : Errors \union {"none"},
             todo : SUBSET (Cols \union {"root"}), found : SUBSET Names]

\* What a call of the WebDAV backend is about.
DavAim(w) ==
    /\ w.op \in {"put", "delete"} => w.scope = {} /\ w.seen = {} /\ \E n \in Names : w.name = {n}
    /\ w.op = "list" => /\ Stored \intersect w.scope \subseteq w.seen
                        /\ \/ w.scope = Blobs /\ w.name = {}
                           \/ w.scope = Metas /\ \E m \in Metas : w.name = {m}

DavPcPart(w) ==
    /\ w.pc = "idle" => w = IdleCall
    /\ w.pc # "idle" => w.op # "none"
    /\ w.pc = "put" => w.op = "put"
    /\ w.pc = "delete" => w.op = "delete"
    /\ w.pc = "propfind" => w.op = "list" /\ w.scope = Metas
    /\ w.pc \in {"ensure", "mark", "error"} => w.op = "put" \/ (w.op = "list" /\ w.scope = Metas)

\* The walk has found an object or has a collection above it left to read.
DavWalkPart(w) == w.pc = "walk" =>
    /\ w.op = "list" /\ w.scope = Blobs /\ w.found \subseteq w.seen
    /\ \A n \in Stored \intersect Blobs :
          n \in w.found \/ "root" \in w.todo \/ Above(n) \intersect w.todo # {}

DavCallOk(w) == w \in DavCalls /\ DavAim(w) /\ DavPcPart(w) /\ DavWalkPart(w)

DavApart == \A c, d \in Clients :
    c # d => call[c].name \intersect (call[d].name \union call[d].scope) = {}

\* No object without its collections.
DavRooted == \A n \in Stored : Above(n) \subseteq cols

DavInv ==
    /\ held \in [Names -> Datas] /\ call \in [Clients -> DavCalls]
    /\ \A c \in Clients : DavCallOk(call[c])
    /\ DavApart /\ DavRooted

-----------------------------------------------------------------------------
(* The invariant of the directory backend.                                 *)

\* Nothing but what a call of c is about changes: other objects keep their
\* contents and what of them is fsynced, and count as uploaded as before.
DirFrame(c) ==
    /\ file' \in [Names -> Files] /\ acked' \subseteq Metas
    /\ \A n \in Names \ dcall[c].name :
          /\ file'[n].data = file[n].data /\ file[n].sync \subseteq file'[n].sync
          /\ n \in acked' => n \in acked
    /\ \A n \in acked' \ acked : Safe(file'[n])

\* A call that is over is well formed.
LEMMA DirIdleOk == DirCallOk(Dir!IdleCall) /\ DirCallOk(Dir!IdleCall)'
BY DEF DirCallOk, DirCalls, DirPutPart, DirListPart, DirPuts, Dir!IdleCall, Dir!NoFile, Files, Datas, Ops

\* The object of a call that puts or deletes.
LEMMA DirNameIs == ASSUME NEW c \in Clients, NEW n, dcall[c].name = {n} PROVE Dir!Name(c) = n
BY DEF Dir!Name

\* A call of c does not disturb the call w of another client.
LEMMA DirOther ==
    ASSUME DirInv, NEW c \in Clients, NEW w, DirCallOk(w), DirFrame(c),
           dcall[c].name \intersect (w.name \union w.scope) = {}
    PROVE  DirCallOk(w)'
<1>1. w.name \subseteq Names /\ w.scope \subseteq Names /\ file \in [Names -> Files]
    BY DEF DirCallOk, DirCalls, DirInv
<1>2. \A n \in w.name \union w.scope :
         /\ file'[n].data = file[n].data /\ file[n].sync \subseteq file'[n].sync
         /\ n \in acked' => n \in acked
    BY <1>1 DEF DirFrame
<1>3. DirPutPart(w)'
    BY <1>2 DEF DirCallOk, DirPutPart, DirChange
<1>4. \A n \in w.scope : n \in Dir!Stored' <=> n \in Dir!Stored
    BY <1>1, <1>2 DEF Dir!Stored, Dir!Names, Names
<1>5. DirListPart(w)'
    BY <1>4 DEF DirCallOk, DirListPart
<1> QED BY <1>3, <1>5 DEF DirCallOk

\* What a step of c has to show to keep the invariant.
LEMMA DirMove ==
    ASSUME DirInv, NEW c \in Clients, NEW w, dcall' = [dcall EXCEPT ![c] = w],
           DirFrame(c), DirCallOk(w)',
           \A d \in Clients \ {c} : /\ w.name \intersect (dcall[d].name \union dcall[d].scope) = {}
                                    /\ w.scope \intersect dcall[d].name = {}
    PROVE  DirInv'
<1>1. dcall \in [Clients -> DirCalls] /\ w \in DirCalls
    BY DEF DirInv, DirCallOk, DirCalls
<1>2. /\ dcall' \in [Clients -> DirCalls] /\ dcall'[c] = w
      /\ \A d \in Clients \ {c} : dcall'[d] = dcall[d]
    BY <1>1
<1>3. DirApart'
    BY <1>2 DEF DirInv, DirApart
<1>4. ASSUME NEW d \in Clients PROVE DirCallOk(dcall[d])'
    <2>1. CASE d = c
        BY <2>1, <1>2 DEF DirCallOk, DirPutPart, DirListPart, DirChange
    <2>2. CASE d # c
        <3> PICK v : v = dcall[d]
            OBVIOUS
        <3>1. DirCallOk(v) /\ dcall[c].name \intersect (v.name \union v.scope) = {}
            BY <2>2 DEF DirInv, DirApart
        <3>2. DirCallOk(v)'
            BY <3>1, DirOther
        <3>3. dcall'[d] = v
            BY <1>2, <2>2
        <3> QED BY <3>2, <3>3 DEF DirCallOk, DirPutPart, DirListPart, DirChange
    <2> QED BY <2>1, <2>2
<1>5. ASSUME NEW n \in acked' PROVE Safe(file'[n])
    <2>1. CASE n \notin acked
        BY <2>1 DEF DirFrame
    <2>2. CASE n \in acked
        <3>1. n \in Names \ dcall[c].name
            BY <2>2 DEF DirInv, DirCallOk, DirPutPart, DirChange, DirListPart, DirPuts, DirCalls, Dir!IdleCall, Names
        <3>2. Safe(file[n]) /\ file'[n] \in Files /\ file'[n].data = file[n].data
              /\ file[n].sync \subseteq file'[n].sync
            BY <2>2, <3>1 DEF DirInv, DirFrame
        <3> QED BY <3>2 DEF Safe, Files
    <2> QED BY <2>1, <2>2
<1> QED BY <1>2, <1>3, <1>4, <1>5 DEF DirInv, DirFrame

\* A call that is over keeps the invariant, whatever it did to its object.
LEMMA DirReturn ==
    ASSUME DirInv, NEW c \in Clients, Dir!Return(c), DirFrame(c)
    PROVE  DirInv'
<1>1. dcall' = [dcall EXCEPT ![c] = Dir!IdleCall] /\ Dir!IdleCall.name = {} /\ Dir!IdleCall.scope = {}
    BY DEF Dir!Return, Dir!IdleCall
<1> QED BY <1>1, DirIdleOk, DirMove

\* A call that goes on keeps the invariant when its aim stays.
LEMMA DirGoOn ==
    ASSUME DirInv, NEW c \in Clients, NEW w, dcall' = [dcall EXCEPT ![c] = w],
           w.name = dcall[c].name, w.scope = dcall[c].scope, DirFrame(c), DirCallOk(w)'
    PROVE  DirInv'
BY DirMove DEF DirInv, DirApart

\* A step that touches no object.
LEMMA DirIdleFrame ==
    ASSUME DirInv, NEW c \in Clients, UNCHANGED <<file, acked>>
    PROVE  DirFrame(c)
BY DEF DirInv, DirFrame

\* The start: nothing is stored, nobody calls.
LEMMA DirInitInv == Dir!DirInit => DirInv
<1> SUFFICES ASSUME Dir!DirInit PROVE DirInv
    OBVIOUS
<1>1. Dir!NoFile \in Files /\ Dir!IdleCall \in DirCalls /\ Dir!IdleCall.name = {}
    BY DirIdleOk DEF Dir!NoFile, Files, Datas, DirCallOk, Dir!IdleCall
<1>2. \A c \in Clients : dcall[c] = Dir!IdleCall
    BY DEF Dir!DirInit
<1>3. \A c \in Clients : DirCallOk(dcall[c])
    BY <1>2, DirIdleOk
<1>4. DirApart
    BY <1>1, <1>2 DEF DirApart
<1>5. /\ file \in [Names -> Files] /\ dcall \in [Clients -> DirCalls]
      /\ acked \subseteq Metas /\ \A n \in acked : Safe(file[n])
    BY <1>1 DEF Dir!DirInit, Dir!Names, Names
<1> QED BY <1>3, <1>4, <1>5 DEF DirInv

\* A new put.
LEMMA DirPutInv == ASSUME DirInv, NEW c \in Clients, Dir!DirPut(c) PROVE DirInv'
<1>1. PICK n \in Names \ Dir!Stored :
         /\ Dir!DirAlone(n)
         /\ dcall' = [dcall EXCEPT ![c] = [Dir!IdleCall EXCEPT !.op = "put", !.name = {n}, !.pc = "create"]]
    BY DEF Dir!DirPut, Dir!Names, Names
<1>2. UNCHANGED <<file, acked>>
    BY DEF Dir!DirPut
<1>3. PICK w : w = [Dir!IdleCall EXCEPT !.op = "put", !.name = {n}, !.pc = "create"]
    OBVIOUS
<1>4. n \notin acked
    BY DEF DirInv, Safe, Dir!Stored, Dir!Names, Names
<1>5. /\ w \in DirCalls /\ w.op = "put" /\ w.name = {n} /\ w.pc = "create" /\ w.scope = {} /\ w.seen = {}
    BY <1>3, DirIdleOk DEF Dir!IdleCall, DirCallOk, DirCalls, DirPuts, Ops
<1>6. DirCallOk(w)'
    BY <1>2, <1>4, <1>5 DEF DirCallOk, DirPutPart, DirListPart, DirChange, DirPuts
<1>7. /\ DirFrame(c)
      /\ \A d \in Clients \ {c} : /\ w.name \intersect (dcall[d].name \union dcall[d].scope) = {}
                                 /\ w.scope \intersect dcall[d].name = {}
    BY <1>1, <1>2, <1>5, DirIdleFrame DEF Dir!DirAlone
<1>8. dcall' = [dcall EXCEPT ![c] = w]
    BY <1>1, <1>3
<1> QED BY <1>6, <1>7, <1>8, DirMove

\* A new deletion: its object no longer counts as uploaded.
LEMMA DirDeleteInv == ASSUME DirInv, NEW c \in Clients, Dir!DirDelete(c) PROVE DirInv'
<1>1. PICK n \in Dir!Stored :
         /\ Dir!DirAlone(n) /\ acked' = acked \ {n}
         /\ dcall' = [dcall EXCEPT ![c] = [Dir!IdleCall EXCEPT !.op = "delete", !.name = {n}, !.pc = "delete"]]
    BY DEF Dir!DirDelete
<1>2. file' = file /\ n \in Names
    BY DEF Dir!DirDelete, Dir!Stored, Dir!Names, Names
<1>3. PICK w : w = [Dir!IdleCall EXCEPT !.op = "delete", !.name = {n}, !.pc = "delete"]
    OBVIOUS
<1>4. DirFrame(c)
    BY <1>1, <1>2 DEF DirInv, DirFrame
<1>5. /\ w \in DirCalls /\ w.op = "delete" /\ w.name = {n} /\ w.pc = "delete" /\ w.scope = {} /\ w.seen = {}
    BY <1>2, <1>3, DirIdleOk DEF Dir!IdleCall, DirCallOk, DirCalls, DirPuts, Ops
<1>6. DirCallOk(w)'
    BY <1>1, <1>2, <1>5 DEF DirCallOk, DirPutPart, DirListPart, DirChange, DirPuts
<1> QED BY <1>1, <1>3, <1>4, <1>5, <1>6, DirMove DEF Dir!DirAlone

\* A new list: nobody has an object of its kind in hand.
LEMMA DirListInv == ASSUME DirInv, NEW c \in Clients, Dir!DirList(c) PROVE DirInv'
<1>1. PICK S \in {Blobs, Metas} :
         /\ \A d \in Clients : dcall[d].name \intersect S = {}
         /\ dcall' = [dcall EXCEPT ![c] = [Dir!IdleCall EXCEPT !.op = "list", !.scope = S, !.pc = "list",
                                           !.seen = Dir!Stored \intersect S, !.todo = Dir!Dirs(S)]]
    BY DEF Dir!DirList
<1>2. UNCHANGED <<file, acked>>
    BY DEF Dir!DirList
<1>3. PICK seen, todo : seen = Dir!Stored \intersect S /\ todo = Dir!Dirs(S)
    OBVIOUS
<1>4. PICK w : w = [Dir!IdleCall EXCEPT !.op = "list", !.scope = S, !.pc = "list", !.seen = seen, !.todo = todo]
    OBVIOUS
<1>5. S \subseteq Names /\ seen \subseteq S /\ todo \subseteq Dir!Dirs(Names)
    BY <1>3 DEF Names, Dir!Dirs
<1>6. /\ w \in DirCalls /\ w.op = "list" /\ w.name = {} /\ w.pc = "list" /\ w.scope = S
      /\ w.seen = seen /\ w.todo = todo /\ w.found = {}
    BY <1>4, <1>5, DirIdleOk DEF Dir!IdleCall, DirCallOk, DirCalls, DirPuts, Ops
<1>7. DirListPart(w)'
    BY <1>2, <1>3, <1>6 DEF DirListPart, Dir!Stored, Dir!Dirs
<1>8. DirCallOk(w)'
    BY <1>6, <1>7 DEF DirCallOk, DirPutPart, DirPuts
<1>9. /\ DirFrame(c)
      /\ \A d \in Clients \ {c} : /\ w.name \intersect (dcall[d].name \union dcall[d].scope) = {}
                                 /\ w.scope \intersect dcall[d].name = {}
    BY <1>1, <1>2, <1>6, DirIdleFrame
<1>10. dcall' = [dcall EXCEPT ![c] = w]
    BY <1>1, <1>3, <1>4
<1> QED BY <1>8, <1>9, <1>10, DirMove

\* The temporary file appears.
LEMMA CreateTempInv == ASSUME DirInv, NEW c \in Clients, Dir!CreateTemp(c) PROVE DirInv'
<1>1. /\ dcall[c].pc = "create" /\ UNCHANGED <<file, acked>> /\ dcall[c] \in DirCalls /\ DirCallOk(dcall[c])
      /\ dcall' = [dcall EXCEPT ![c] = [dcall[c] EXCEPT !.pc = "write", !.tmp.data = "part"]]
    BY DEF Dir!CreateTemp, DirInv
<1>2. PICK w : w = [dcall[c] EXCEPT !.pc = "write", !.tmp.data = "part"]
    OBVIOUS
<1>3. w = [dcall[c] EXCEPT !.pc = "write", !.tmp = [dcall[c].tmp EXCEPT !.data = "part"]]
    BY <1>1, <1>2 DEF DirCalls
<1>4. [dcall[c].tmp EXCEPT !.data = "part"] \in Files
    BY <1>1 DEF DirCalls, Files, Datas
<1>5. /\ w \in DirCalls /\ w.pc = "write" /\ w.op = dcall[c].op /\ w.name = dcall[c].name
      /\ w.scope = dcall[c].scope /\ w.seen = dcall[c].seen
    BY <1>1, <1>3, <1>4 DEF DirCalls, DirPuts
<1>6. DirCallOk(w)'
    BY <1>1, <1>5 DEF DirCallOk, DirPutPart, DirListPart, DirChange, DirPuts
<1>7. dcall' = [dcall EXCEPT ![c] = w] /\ DirFrame(c)
    BY <1>1, <1>2, DirIdleFrame
<1> QED BY <1>5, <1>6, <1>7, DirGoOn

\* All of it is written.
LEMMA WriteInv == ASSUME DirInv, NEW c \in Clients, Dir!Write(c) PROVE DirInv'
<1>1. PICK pc \in {"syncFile", "rename"} :
        /\ dcall' = [dcall EXCEPT ![c] = [dcall[c] EXCEPT !.pc = pc, !.tmp.data = "whole"]]
        /\ IF dcall[c].name \subseteq Metas THEN pc = "syncFile" ELSE pc = "rename"
    BY DEF Dir!Write, Dir!IsMeta
<1>2. dcall[c].pc = "write" /\ UNCHANGED <<file, acked>> /\ dcall[c] \in DirCalls /\ DirCallOk(dcall[c])
    BY DEF Dir!Write, DirInv
<1>3. PICK w : w = [dcall[c] EXCEPT !.pc = pc, !.tmp.data = "whole"]
    OBVIOUS
<1>4. w = [dcall[c] EXCEPT !.pc = pc, !.tmp = [dcall[c].tmp EXCEPT !.data = "whole"]]
    BY <1>2, <1>3 DEF DirCalls
<1>5. [dcall[c].tmp EXCEPT !.data = "whole"] \in Files /\ [dcall[c].tmp EXCEPT !.data = "whole"].data = "whole"
    BY <1>2 DEF DirCalls, Files, Datas
<1>6. /\ w \in DirCalls /\ w.pc = pc /\ w.op = dcall[c].op /\ w.name = dcall[c].name
      /\ w.scope = dcall[c].scope /\ w.seen = dcall[c].seen /\ w.tmp.data = "whole"
    BY <1>2, <1>4, <1>5 DEF DirCalls, DirPuts
<1>7. DirCallOk(w)'
    BY <1>1, <1>2, <1>6 DEF DirCallOk, DirPutPart, DirListPart, DirChange, DirPuts
<1>8. dcall' = [dcall EXCEPT ![c] = w] /\ DirFrame(c)
    BY <1>1, <1>2, <1>3, DirIdleFrame
<1> QED BY <1>6, <1>7, <1>8, DirGoOn

\* The data of a Meta backup is safe.
LEMMA SyncFileInv == ASSUME DirInv, NEW c \in Clients, Dir!SyncFile(c) PROVE DirInv'
<1>1. /\ dcall[c].pc = "syncFile" /\ UNCHANGED <<file, acked>> /\ dcall[c] \in DirCalls /\ DirCallOk(dcall[c])
      /\ dcall' = [dcall EXCEPT ![c] = [dcall[c] EXCEPT !.pc = "rename", !.tmp.sync = {"data"}]]
    BY DEF Dir!SyncFile, DirInv
<1>2. PICK w : w = [dcall[c] EXCEPT !.pc = "rename", !.tmp.sync = {"data"}]
    OBVIOUS
<1>3. w = [dcall[c] EXCEPT !.pc = "rename", !.tmp = [dcall[c].tmp EXCEPT !.sync = {"data"}]]
    BY <1>1, <1>2 DEF DirCalls
<1>4. /\ [dcall[c].tmp EXCEPT !.sync = {"data"}] \in Files
      /\ [dcall[c].tmp EXCEPT !.sync = {"data"}].data = dcall[c].tmp.data
      /\ [dcall[c].tmp EXCEPT !.sync = {"data"}].sync = {"data"}
    BY <1>1 DEF DirCalls, Files
<1>5. /\ w \in DirCalls /\ w.pc = "rename" /\ w.op = dcall[c].op /\ w.name = dcall[c].name
      /\ w.scope = dcall[c].scope /\ w.seen = dcall[c].seen
      /\ w.tmp.data = dcall[c].tmp.data /\ w.tmp.sync = {"data"}
    BY <1>1, <1>3, <1>4 DEF DirCalls, DirPuts
<1>6. DirCallOk(w)'
    BY <1>1, <1>5 DEF DirCallOk, DirPutPart, DirListPart, DirChange, DirPuts
<1>7. dcall' = [dcall EXCEPT ![c] = w] /\ DirFrame(c)
    BY <1>1, <1>2, DirIdleFrame
<1> QED BY <1>5, <1>6, <1>7, DirGoOn

\* The whole object appears under its name; of a Meta backup its data is safe.
LEMMA RenameInv == ASSUME DirInv, NEW c \in Clients, Dir!Rename(c) PROVE DirInv'
<1>1. /\ dcall[c].pc = "rename" /\ dcall[c] \in DirCalls /\ DirCallOk(dcall[c]) /\ acked' = acked
      /\ file \in [Names -> Files]
    BY DEF Dir!Rename, DirInv
<1>2. PICK n \in Names : dcall[c].name = {n} /\ n \notin acked
    BY <1>1 DEF DirCallOk, DirPutPart, DirChange, DirPuts
<1>3. PICK t \in Files : t = dcall[c].tmp /\ t.data = "whole" /\ (n \in Metas => "data" \in t.sync)
    BY <1>1, <1>2 DEF DirCallOk, DirPutPart, DirCalls
<1>4. file' = [file EXCEPT ![n] = t] /\ file'[n] = t
    BY <1>1, <1>2, <1>3, DirNameIs DEF Dir!Rename
<1>5. DirFrame(c)
    BY <1>1, <1>2, <1>4 DEF DirInv, DirFrame
<1>6. CASE ~Dir!IsMeta(c)
    BY <1>5, <1>6, DirReturn DEF Dir!Rename
<1>7. CASE Dir!IsMeta(c)
    <2>1. PICK w : w = [dcall[c] EXCEPT !.pc = "syncDir", !.tmp = Dir!NoFile]
        OBVIOUS
    <2>2. dcall' = [dcall EXCEPT ![c] = w]
        BY <1>7, <2>1 DEF Dir!Rename
    <2>3. Dir!NoFile \in Files
        BY DEF Dir!NoFile, Files, Datas
    <2>4. /\ w \in DirCalls /\ w.pc = "syncDir" /\ w.op = dcall[c].op /\ w.name = dcall[c].name
          /\ w.scope = dcall[c].scope /\ w.seen = dcall[c].seen
        BY <1>1, <2>1, <2>3 DEF DirCalls, DirPuts
    <2>5. DirCallOk(w)'
        BY <1>1, <1>2, <1>3, <1>4, <1>7, <2>4
        DEF DirCallOk, DirPutPart, DirListPart, DirChange, DirPuts, Dir!IsMeta
    <2> QED BY <1>5, <2>2, <2>4, <2>5, DirGoOn
<1> QED BY <1>6, <1>7

\* What fsync of its directory does to a file.
LEMMA SyncedEntry ==
    ASSUME NEW f \in Files
    PROVE  LET g == [f EXCEPT !.sync = @ \union {"entry"}]
           IN  g \in Files /\ g.data = f.data /\ f.sync \subseteq g.sync
<1>1. f.sync \union {"entry"} \subseteq {"data", "entry"}
    BY DEF Files
<1> QED BY <1>1 DEF Files

\* The entries of the directory are safe: the backup counts as uploaded.
LEMMA SyncDirInv == ASSUME DirInv, NEW c \in Clients, Dir!SyncDir(c) PROVE DirInv'
<1>1. /\ dcall[c].pc = "syncDir" /\ dcall[c] \in DirCalls /\ DirCallOk(dcall[c])
      /\ file \in [Names -> Files] /\ Dir!Return(c) /\ acked' = acked \union dcall[c].name
    BY DEF Dir!SyncDir, DirInv
<1>2. PICK n \in Metas : dcall[c].name = {n} /\ file[n].data = "whole" /\ "data" \in file[n].sync
    BY <1>1 DEF DirCallOk, DirPutPart, DirChange, DirPuts
<1>3. n \in Names /\ Dir!Name(c) = n
    BY <1>2, DirNameIs DEF Names
<1>4. \A m \in Names :
        file'[m] = IF m \in Dir!Stored /\ Parts[m] = Parts[n]
                   THEN [file[m] EXCEPT !.sync = @ \union {"entry"}] ELSE file[m]
    BY <1>3 DEF Dir!SyncDir, Dir!Names, Names
<1>5. \A m \in Names : /\ file'[m] \in Files /\ file'[m].data = file[m].data
                       /\ file[m].sync \subseteq file'[m].sync
    <2> SUFFICES ASSUME NEW m \in Names
                 PROVE  /\ file'[m] \in Files /\ file'[m].data = file[m].data
                        /\ file[m].sync \subseteq file'[m].sync
        OBVIOUS
    <2>1. PICK f \in Files : f = file[m]
        BY <1>1
    <2>2. file'[m] = f \/ file'[m] = [f EXCEPT !.sync = @ \union {"entry"}]
        BY <1>4, <2>1
    <2> QED BY <2>1, <2>2, SyncedEntry
<1>6. file' \in [Names -> Files]
    BY <1>5 DEF Dir!SyncDir, Dir!Names, Names
<1>7. n \in Dir!Stored /\ file'[n] = [file[n] EXCEPT !.sync = @ \union {"entry"}]
    BY <1>2, <1>3, <1>4 DEF Dir!Stored, Dir!Names, Names
<1>8. Safe(file'[n])
    BY <1>1, <1>2, <1>3, <1>7 DEF Safe, Files
<1>9. DirFrame(c)
    BY <1>1, <1>2, <1>5, <1>6, <1>8 DEF DirInv, DirFrame
<1> QED BY <1>1, <1>9, DirReturn

\* A put that fails.
LEMMA PutFailsInv == ASSUME DirInv, NEW c \in Clients, Dir!PutFails(c) PROVE DirInv'
BY DirIdleFrame, DirReturn DEF Dir!PutFails

\* A deletion, or one that fails.
LEMMA DeleteFileInv == ASSUME DirInv, NEW c \in Clients, Dir!DeleteFile(c) PROVE DirInv'
<1>1. /\ dcall[c].pc = "delete" /\ DirCallOk(dcall[c]) /\ file \in [Names -> Files]
      /\ acked' = acked /\ Dir!Return(c)
    BY DEF Dir!DeleteFile, DirInv
<1>2. PICK n \in Names : dcall[c].name = {n} /\ n \notin acked
    BY <1>1 DEF DirCallOk, DirPutPart, DirChange
<1>3. Dir!NoFile \in Files
    BY DEF Dir!NoFile, Files, Datas
<1>4. file' = [file EXCEPT ![n] = Dir!NoFile] \/ file' = file
    BY <1>2, DirNameIs DEF Dir!DeleteFile
<1>5. DirFrame(c)
    BY <1>1, <1>2, <1>3, <1>4 DEF DirInv, DirFrame
<1> QED BY <1>1, <1>5, DirReturn

\* One directory of a list, its end, or its failure.
LEMMA ReadDirInv == ASSUME DirInv, NEW c \in Clients, Dir!ReadDir(c) PROVE DirInv'
<1>1. /\ dcall[c].pc = "list" /\ dcall[c] \in DirCalls /\ DirCallOk(dcall[c])
      /\ UNCHANGED <<file, acked>>
    BY DEF Dir!ReadDir, DirInv
<1>2. CASE Dir!Return(c)
    BY <1>1, <1>2, DirIdleFrame, DirReturn
<1>3. CASE \E d \in dcall[c].todo :
             dcall' = [dcall EXCEPT ![c] = [dcall[c] EXCEPT !.todo = @ \ {d}, !.found = @ \union Dir!Entries(d)]]
    <2>1. PICK d \in dcall[c].todo :
             dcall' = [dcall EXCEPT ![c] = [dcall[c] EXCEPT !.todo = @ \ {d}, !.found = @ \union Dir!Entries(d)]]
        BY <1>3
    <2>2. PICK todo, found : todo = dcall[c].todo \ {d} /\ found = dcall[c].found \union Dir!Entries(d)
        OBVIOUS
    <2>3. PICK w : w = [dcall[c] EXCEPT !.todo = todo, !.found = found]
        OBVIOUS
    <2>4. Dir!Entries(d) \subseteq Names /\ \A n \in Dir!Entries(d) : n \in Dir!Stored /\ Parts[n] = d
        BY DEF Dir!Entries, Dir!Stored, Dir!Names, Names
    <2>5. /\ w \in DirCalls /\ w.pc = "list" /\ w.op = dcall[c].op /\ w.name = dcall[c].name
          /\ w.scope = dcall[c].scope /\ w.seen = dcall[c].seen /\ w.todo = todo /\ w.found = found
        BY <1>1, <2>2, <2>3, <2>4 DEF DirCalls
    <2>6. DirListPart(dcall[c])
        BY <1>1 DEF DirCallOk
    <2>7. Dir!Entries(d) \subseteq dcall[c].scope
        <3> SUFFICES ASSUME NEW n \in Dir!Entries(d) PROVE n \in dcall[c].scope
            OBVIOUS
        <3>1. PICK m \in dcall[c].scope : d = Parts[m]
            BY <1>1, <2>6 DEF DirListPart, Dir!Dirs
        <3>2. n \in Names /\ Parts[n] = Parts[m] /\ dcall[c].scope \in {Blobs, Metas}
            BY <1>1, <2>4, <2>6, <3>1 DEF DirListPart
        <3> QED BY <3>1, <3>2, DirAssumption DEF Names
    <2>8. /\ found \subseteq dcall[c].seen /\ todo \subseteq Dir!Dirs(dcall[c].scope)
          /\ \A n \in Dir!Stored \intersect dcall[c].scope : n \in found \/ Parts[n] \in todo
        BY <1>1, <2>2, <2>4, <2>6, <2>7 DEF DirListPart, Dir!Entries
    <2>9. Dir!Stored' = Dir!Stored
        BY <1>1 DEF Dir!Stored
    <2>10. DirListPart(w)'
        BY <1>1, <2>5, <2>6, <2>8, <2>9 DEF DirListPart, Dir!Dirs
    <2>11. DirCallOk(w)'
        BY <2>5, <2>10 DEF DirCallOk, DirPutPart, DirPuts
    <2>12. dcall' = [dcall EXCEPT ![c] = w] /\ DirFrame(c)
        BY <1>1, <2>1, <2>2, <2>3, DirIdleFrame
    <2> QED BY <2>5, <2>11, <2>12, DirGoOn
<1> QED BY <1>2, <1>3 DEF Dir!ReadDir

\* The process is gone, and with it all calls; what counts as uploaded is not.
LEMMA DirStop ==
    ASSUME DirInv, dcall' = [c \in Clients |-> Dir!IdleCall], acked' = acked,
           file' \in [Names -> Files], \A n \in acked : file'[n] = file[n]
    PROVE  DirInv'
<1>1. \A c \in Clients : dcall'[c] = Dir!IdleCall
    OBVIOUS
<1>2. \A c \in Clients : DirCallOk(dcall[c])'
    BY <1>1, DirIdleOk DEF DirCallOk, DirPutPart, DirListPart, DirChange
<1>3. DirApart'
    BY <1>1 DEF DirApart, Dir!IdleCall
<1>4. dcall' \in [Clients -> DirCalls]
    BY DirIdleOk DEF DirCallOk
<1> QED BY <1>2, <1>3, <1>4 DEF DirInv

\* What a power failure may leave of a file; one that is safe stays as it is.
LEMMA AfterLoss ==
    ASSUME NEW f \in Files, NEW g \in Dir!AfterPowerLoss(f)
    PROVE  /\ g \in Files /\ (Safe(f) => g = f)
           /\ g.data \in {f.data, "none", "part"} /\ (f.data = "none" => g.data = "none")
<1>1. g = f \/ (g = Dir!NoFile /\ "entry" \notin f.sync)
            \/ (g = [f EXCEPT !.data = "part"] /\ f.data # "none" /\ "data" \notin f.sync)
    BY DEF Dir!AfterPowerLoss
<1> QED BY <1>1 DEF Dir!NoFile, Files, Datas, Safe

\* The process dies.
LEMMA DieInv == ASSUME DirInv, Dir!Die PROVE DirInv'
BY DirStop DEF Dir!Die, Dir!Killed, DirInv

\* The power fails.
LEMMA PowerLossInv == ASSUME DirInv, Dir!PowerLoss PROVE DirInv'
<1>1. /\ dcall' = [c \in Clients |-> Dir!IdleCall] /\ acked' = acked /\ file \in [Names -> Files]
      /\ file' \in [Names -> UNION {Dir!AfterPowerLoss(file[n]) : n \in Names}]
      /\ \A n \in Names : file'[n] \in Dir!AfterPowerLoss(file[n])
      /\ acked \subseteq Names /\ \A n \in acked : Safe(file[n])
    BY DEF Dir!PowerLoss, Dir!Killed, DirInv, Dir!Names, Names
<1>2. \A n \in Names : file'[n] \in Files /\ (Safe(file[n]) => file'[n] = file[n])
    BY <1>1, AfterLoss
<1>3. file' \in [Names -> Files]
    BY <1>1, <1>2
<1> QED BY <1>1, <1>2, <1>3, DirStop

\* Every step of the directory backend keeps the invariant.
LEMMA DirNextInv == DirInv /\ [Dir!DirNext]_dirstate => DirInv'
<1> SUFFICES ASSUME DirInv, [Dir!DirNext]_dirstate PROVE DirInv'
    OBVIOUS
<1>1. ASSUME NEW c \in Clients, Dir!DirStep(c) PROVE DirInv'
    BY <1>1, CreateTempInv, WriteInv, SyncFileInv, RenameInv, SyncDirInv, DeleteFileInv, ReadDirInv
    DEF Dir!DirStep
<1>2. ASSUME NEW c \in Clients, Dir!DirPut(c) \/ Dir!DirDelete(c) \/ Dir!DirList(c) \/ Dir!PutFails(c)
      PROVE  DirInv'
    BY <1>2, DirPutInv, DirDeleteInv, DirListInv, PutFailsInv
<1>3. CASE UNCHANGED dirstate
    BY <1>3 DEF dirstate, DirInv, DirCallOk, DirPutPart, DirListPart, DirChange, DirApart, Dir!Stored
<1> QED BY <1>1, <1>2, <1>3, DieInv, PowerLossInv DEF Dir!DirNext

-----------------------------------------------------------------------------
(* The directory backend implements the store: each step is a step of the  *)
(* store, or changes nothing a caller can see.                             *)

\* A caller sees of a call what it is about and, of a list, what was there.
DirSeen(v, w) == v.op = w.op /\ v.name = w.name /\ v.scope = w.scope /\ v.seen = w.seen

\* A step of c that touches no object and shows nothing of its call.
LEMMA DirStutter ==
    ASSUME DirInv, NEW c \in Clients, NEW w, dcall' = [dcall EXCEPT ![c] = w],
           DirSeen(w, dcall[c]), UNCHANGED <<file, dlisted>>
    PROVE  UNCHANGED Dir!Store!vars
<1>1. \A d \in Clients : DirSeen(dcall'[d], dcall[d])
    BY DEF DirInv, DirSeen
<1> QED BY <1>1 DEF Dir!Store!vars, DirSeen

\* What the store is taken to hold, and the calls it sees.
DirHeld == [n \in Dir!Names |-> file[n].data]
DirBusy == [c \in Clients |-> [op |-> dcall[c].op, name |-> dcall[c].name,
                               scope |-> dcall[c].scope, seen |-> dcall[c].seen]]

\* A call that is over is no call of the store, and was one before.
LEMMA DirOver ==
    ASSUME DirInv, NEW c \in Clients, dcall[c].op # "none", Dir!Return(c)
    PROVE  DirBusy[c] # Dir!Store!Idle /\ DirBusy' = [DirBusy EXCEPT ![c] = Dir!Store!Idle]
<1>1. dcall'[c] = Dir!IdleCall /\ \A d \in Clients \ {c} : dcall'[d] = dcall[d]
    BY DEF DirInv, Dir!Return
<1>2. DirBusy[c].op = dcall[c].op /\ Dir!Store!Idle.op = "none"
    BY DEF DirBusy, Dir!Store!Idle
<1>3. DirBusy'[c] = Dir!Store!Idle
    BY <1>1, SMTT(30) DEF DirBusy, Dir!Store!Idle, Dir!IdleCall
<1>4. \A d \in Clients \ {c} : DirBusy'[d] = DirBusy[d]
    BY <1>1 DEF DirBusy
<1>5. DirBusy' = [d \in Clients |-> DirBusy'[d]] /\ DirBusy = [d \in Clients |-> DirBusy[d]]
    BY DEF DirBusy
<1>6. DirBusy' = [DirBusy EXCEPT ![c] = Dir!Store!Idle]
    BY <1>3, <1>4, <1>5
<1> QED BY <1>2, <1>6

\* The contents are always such as a store may hold.
LEMMA DirHeldTyped == DirInv => DirHeld \in [Dir!Names -> Datas]
BY DEF DirInv, DirHeld, Files, Dir!Names, Names

\* A call that is over with an error, having touched nothing.
LEMMA DirFails ==
    ASSUME DirInv, NEW c \in Clients, dcall[c].op # "none",
           Dir!Return(c), UNCHANGED <<file, dlisted>>
    PROVE  Dir!Store!Fail(c)
<1>1. DirHeld' = DirHeld /\ DirHeld \in [Dir!Names -> Datas]
    BY DirHeldTyped DEF DirHeld
<1>2. Dir!Store!MayHold(c, DirHeld')
    BY <1>1 DEF Dir!Store!MayHold, Dir!Store!Outcomes, DirHeld
<1>3. DirHeld' \in [Dir!Names -> {"none", "part", "whole"}]
    BY <1>1 DEF Datas
<1> QED BY <1>2, <1>3, DirOver DEF Dir!Store!Fail, DirHeld, DirBusy

\* A put or a deletion that succeeds.
LEMMA DirSucceeds ==
    ASSUME DirInv, NEW c \in Clients, dcall[c].op \in {"put", "delete"}, Dir!Return(c),
           dlisted' = dlisted,
           \A n \in Names : file'[n].data =
               IF n \notin dcall[c].name THEN file[n].data
               ELSE IF dcall[c].op = "put" THEN "whole" ELSE "none"
    PROVE  Dir!Store!Succeed(c)
<1>1. DirBusy[c].op \in {"put", "delete"}
    BY DEF DirBusy
<1>2. DirHeld' = [n \in Dir!Names |->
                    IF n \notin DirBusy[c].name THEN DirHeld[n]
                    ELSE IF DirBusy[c].op = "put" THEN "whole" ELSE "none"]
    BY DEF DirHeld, DirBusy, Dir!Names, Names
<1> QED BY <1>1, <1>2, DirOver DEF Dir!Store!Succeed, DirHeld, DirBusy

\* The store sees a new call where there was none.
LEMMA DirNewCall ==
    ASSUME DirInv, NEW c \in Clients, NEW w, dcall[c].pc = "idle",
           dcall' = [dcall EXCEPT ![c] = w]
    PROVE  /\ DirBusy[c] = Dir!Store!Idle
           /\ DirBusy' = [DirBusy EXCEPT ![c] = [op |-> w.op, name |-> w.name,
                                                 scope |-> w.scope, seen |-> w.seen]]
<1>1. dcall'[c] = w /\ \A d \in Clients \ {c} : dcall'[d] = dcall[d]
    BY DEF DirInv
<1>2. DirBusy[c] = Dir!Store!Idle
    <2>1. dcall[c] = Dir!IdleCall
        BY DEF DirInv, DirCallOk
    <2> QED BY <2>1 DEF DirBusy, Dir!Store!Idle, Dir!IdleCall
<1>3. DirBusy' = [DirBusy EXCEPT ![c] = [op |-> w.op, name |-> w.name,
                                         scope |-> w.scope, seen |-> w.seen]]
    BY <1>1 DEF DirBusy
<1> QED BY <1>2, <1>3

\* The store and the directory agree on what is stored.
LEMMA DirStoredSame == Dir!Store!Stored = Dir!Stored
BY DEF Dir!Store!Stored, Dir!Stored

\* A put or a deletion begins.
LEMMA DirBeginsChange ==
    ASSUME DirInv, NEW c \in Clients, NEW w, dcall[c].pc = "idle",
           dcall' = [dcall EXCEPT ![c] = w], dlisted' = {}, file' = file,
           NEW n, w.name = {n}, w.scope = {}, w.seen = {},
           \/ w.op = "put" /\ n \in Names \ Dir!Stored
           \/ w.op = "delete" /\ n \in Dir!Stored
    PROVE  Dir!Store!Begin(c)
<1> PICK b : b = [op |-> w.op, name |-> w.name, scope |-> w.scope, seen |-> w.seen]
    OBVIOUS
<1>1. b = [Dir!Store!Idle EXCEPT !.op = w.op, !.name = {n}]
    BY DirSeenCall
<1>2. DirBusy[c] = Dir!Store!Idle /\ DirBusy' = [DirBusy EXCEPT ![c] = b]
    BY DirNewCall
<1>3. DirHeld' = DirHeld
    BY DEF DirHeld
<1>4. CASE w.op = "put" /\ n \in Names \ Dir!Stored
    <2>1. n \in Dir!Names /\ DirHeld[n] = "none"
        BY <1>4 DEF DirHeld, Dir!Stored, Dir!Names, Names
    <2>2. b = [Dir!Store!Idle EXCEPT !.op = "put", !.name = {n}]
        BY <1>1, <1>4
    <2> QED BY <1>2, <1>3, <2>1, <2>2, ZenonT(30) DEF Dir!Store!Begin, DirHeld, DirBusy
<1>5. CASE w.op = "delete" /\ n \in Dir!Stored
    <2>1. n \in Dir!Store!Stored
        BY <1>5, DirStoredSame
    <2>2. b = [Dir!Store!Idle EXCEPT !.op = "delete", !.name = {n}]
        BY <1>1, <1>5
    <2> QED BY <1>2, <1>3, <2>1, <2>2 DEF Dir!Store!Begin, DirHeld, DirBusy
<1> QED BY <1>4, <1>5

\* A list begins.
LEMMA DirBeginsList ==
    ASSUME DirInv, NEW c \in Clients, NEW w, dcall[c].pc = "idle",
           dcall' = [dcall EXCEPT ![c] = w], dlisted' = {}, file' = file,
           NEW S \in SUBSET Names,
           w.op = "list", w.name = {}, w.scope = S, w.seen = Dir!Stored \intersect S
    PROVE  Dir!Store!Begin(c)
<1> PICK b : b = [op |-> w.op, name |-> w.name, scope |-> w.scope, seen |-> w.seen]
    OBVIOUS
<1>1. b = [Dir!Store!Idle EXCEPT !.op = "list", !.scope = S, !.seen = Dir!Store!Stored \intersect S]
    <2> PICK t : t = Dir!Stored \intersect S
        OBVIOUS
    <2>1. t = Dir!Store!Stored \intersect S
        BY DirStoredSame
    <2>2. b = [op |-> "list", name |-> {}, scope |-> S, seen |-> t]
        OBVIOUS
    <2>3. [Dir!Store!Idle EXCEPT !.op = "list", !.scope = S, !.seen = t]
            = [op |-> "list", name |-> {}, scope |-> S, seen |-> t]
        BY DirSeenCall
    <2> QED BY <2>1, <2>2, <2>3, Zenon
<1>2. DirBusy[c] = Dir!Store!Idle /\ DirBusy' = [DirBusy EXCEPT ![c] = b]
    BY DirNewCall
<1>3. DirHeld' = DirHeld /\ S \in SUBSET Dir!Names
    BY DEF DirHeld, Dir!Names, Names
<1> QED BY <1>1, <1>2, <1>3, ZenonT(30) DEF Dir!Store!Begin, DirHeld, DirBusy

\* The calls and all contents but those of files lost or cut are gone.
LEMMA DirDecays ==
    ASSUME DirInv, dcall' = [c \in Clients |-> Dir!IdleCall], dlisted' = dlisted,
           \A n \in Names : /\ file'[n].data \in {file[n].data, "none", "part"}
                            /\ file[n].data = "none" => file'[n].data = "none"
    PROVE  Dir!Store!Decay
<1>1. DirBusy' = [c \in Clients |-> Dir!Store!Idle]
    BY DEF DirBusy, Dir!Store!Idle, Dir!IdleCall
<1>2. \A n \in Dir!Names : /\ DirHeld'[n] \in {DirHeld[n], "none", "part"}
                           /\ DirHeld[n] = "none" => DirHeld'[n] = "none"
    BY DEF DirHeld, Dir!Names, Names
<1>3. DirHeld' \in [Dir!Names -> {"none", "part", "whole"}]
    BY <1>2, DirHeldTyped DEF DirHeld, Datas
<1> QED BY <1>1, <1>2, <1>3 DEF Dir!Store!Decay, DirHeld, DirBusy

\* Beginning a put, a deletion or a list.
LEMMA DirCallsBegin ==
    ASSUME DirInv, NEW c \in Clients, Dir!DirPut(c) \/ Dir!DirDelete(c) \/ Dir!DirList(c)
    PROVE  Dir!Store!Begin(c)
<1>1. CASE Dir!DirPut(c)
    <2>1. PICK n \in Names \ Dir!Stored :
             dcall' = [dcall EXCEPT ![c] = [Dir!IdleCall EXCEPT !.op = "put", !.name = {n}, !.pc = "create"]]
        BY <1>1 DEF Dir!DirPut, Dir!Names, Names
    <2>2. PICK w : w = [Dir!IdleCall EXCEPT !.op = "put", !.name = {n}, !.pc = "create"]
        OBVIOUS
    <2>3. w.op = "put" /\ w.name = {n} /\ w.scope = {} /\ w.seen = {}
        BY <2>2, DirIdleOk DEF Dir!IdleCall, DirCallOk, DirCalls, DirPuts, Ops
    <2>4. dcall[c].pc = "idle" /\ dlisted' = {} /\ file' = file /\ dcall' = [dcall EXCEPT ![c] = w]
        BY <1>1, <2>1, <2>2 DEF Dir!DirPut
    <2> QED BY <2>3, <2>4, DirBeginsChange
<1>2. CASE Dir!DirDelete(c)
    <2>1. PICK n \in Dir!Stored :
             dcall' = [dcall EXCEPT ![c] = [Dir!IdleCall EXCEPT !.op = "delete", !.name = {n}, !.pc = "delete"]]
        BY <1>2 DEF Dir!DirDelete
    <2>2. PICK w : w = [Dir!IdleCall EXCEPT !.op = "delete", !.name = {n}, !.pc = "delete"]
        OBVIOUS
    <2>3. w.op = "delete" /\ w.name = {n} /\ w.scope = {} /\ w.seen = {}
        BY <2>2, DirIdleOk DEF Dir!IdleCall, DirCallOk, DirCalls, DirPuts, Ops
    <2>4. dcall[c].pc = "idle" /\ dlisted' = {} /\ file' = file /\ dcall' = [dcall EXCEPT ![c] = w]
        BY <1>2, <2>1, <2>2 DEF Dir!DirDelete
    <2> QED BY <2>3, <2>4, DirBeginsChange
<1>3. CASE Dir!DirList(c)
    <2>1. PICK S \in {Blobs, Metas} :
             dcall' = [dcall EXCEPT ![c] = [Dir!IdleCall EXCEPT !.op = "list", !.scope = S, !.pc = "list",
                                               !.seen = Dir!Stored \intersect S, !.todo = Dir!Dirs(S)]]
        BY <1>3 DEF Dir!DirList
    <2>2. PICK seen, todo : seen = Dir!Stored \intersect S /\ todo = Dir!Dirs(S)
        OBVIOUS
    <2>3. PICK w : w = [Dir!IdleCall EXCEPT !.op = "list", !.scope = S, !.pc = "list", !.seen = seen, !.todo = todo]
        OBVIOUS
    <2>4. w.op = "list" /\ w.name = {} /\ w.scope = S /\ w.seen = seen /\ S \in SUBSET Names
        BY <2>3, DirIdleOk DEF Dir!IdleCall, DirCallOk, DirCalls, DirPuts, Ops, Names
    <2>5. dcall[c].pc = "idle" /\ dlisted' = {} /\ file' = file /\ dcall' = [dcall EXCEPT ![c] = w]
        BY <1>3, <2>1, <2>2, <2>3 DEF Dir!DirList
    <2> QED BY <2>2, <2>4, <2>5, DirBeginsList
<1> QED BY <1>1, <1>2, <1>3

\* Preparing a put shows nothing.
LEMMA DirPrepares ==
    ASSUME DirInv, NEW c \in Clients, Dir!CreateTemp(c) \/ Dir!Write(c) \/ Dir!SyncFile(c)
    PROVE  UNCHANGED Dir!Store!vars
<1>1. dcall[c] \in DirCalls /\ dcall \in [Clients -> DirCalls] /\ UNCHANGED <<file, dlisted>>
    BY DEF DirInv, Dir!CreateTemp, Dir!Write, Dir!SyncFile
<1>2. PICK w : w = dcall'[c]
    OBVIOUS
<1>3. DirSeen(w, dcall[c]) /\ dcall' = [dcall EXCEPT ![c] = w]
    <2>1. CASE Dir!CreateTemp(c)
        BY <1>1, <1>2, <2>1 DEF Dir!CreateTemp, DirCalls, DirSeen
    <2>2. CASE Dir!Write(c)
        BY <1>1, <1>2, <2>2 DEF Dir!Write, DirCalls, DirSeen
    <2>3. CASE Dir!SyncFile(c)
        BY <1>1, <1>2, <2>3 DEF Dir!SyncFile, DirCalls, DirSeen
    <2> QED BY <2>1, <2>2, <2>3
<1> QED BY <1>1, <1>3, DirStutter

\* The rename of a blob is the success of its put; of a Meta backup it is the
\* effect of a put that may still fail.
LEMMA DirRenames ==
    ASSUME DirInv, NEW c \in Clients, Dir!Rename(c)
    PROVE  Dir!Store!Succeed(c) \/ Dir!Store!Effect(c)
<1>1. /\ dcall[c].pc = "rename" /\ dcall[c] \in DirCalls /\ DirCallOk(dcall[c])
      /\ file \in [Names -> Files] /\ dlisted' = dlisted
    BY DEF Dir!Rename, DirInv
<1>2. PICK n \in Names : dcall[c].name = {n} /\ dcall[c].op = "put"
    BY <1>1 DEF DirCallOk, DirPutPart, DirChange, DirPuts
<1>3. PICK t \in Files : t = dcall[c].tmp /\ t.data = "whole"
    BY <1>1, <1>2 DEF DirCallOk, DirPutPart, DirCalls
<1>4. file' = [file EXCEPT ![n] = t]
    BY <1>1, <1>2, <1>3, DirNameIs DEF Dir!Rename
<1>5. \A m \in Names : file'[m].data = IF m = n THEN "whole" ELSE file[m].data
    BY <1>1, <1>3, <1>4
<1>6. CASE ~Dir!IsMeta(c)
    <2>1. Dir!Return(c)
        BY <1>6 DEF Dir!Rename
    <2> QED BY <1>1, <1>2, <1>5, <2>1, DirSucceeds
<1>7. CASE Dir!IsMeta(c)
    <2>1. DirBusy' = DirBusy
        <3>1. PICK w : w = [dcall[c] EXCEPT !.pc = "syncDir", !.tmp = Dir!NoFile]
            OBVIOUS
        <3>2. dcall' = [dcall EXCEPT ![c] = w] /\ DirSeen(w, dcall[c])
            BY <1>1, <1>7, <3>1 DEF Dir!Rename, DirCalls, DirSeen
        <3>3. \A d \in Clients : DirSeen(dcall'[d], dcall[d])
            BY <3>2 DEF DirInv, DirSeen
        <3> QED BY <3>3 DEF DirBusy, DirSeen
    <2>2. DirBusy[c] # Dir!Store!Idle
        BY <1>2 DEF DirBusy, Dir!Store!Idle
    <2>3. \A m \in Dir!Names : DirHeld'[m] = IF m = n THEN "whole" ELSE DirHeld[m]
        BY <1>5 DEF DirHeld, Dir!Names, Names
    <2>4. DirBusy[c].op = "put" /\ DirBusy[c].name = {n}
        BY <1>2 DEF DirBusy
    <2>5. Dir!Store!MayHold(c, DirHeld')
        BY <2>3, <2>4 DEF Dir!Store!MayHold, Dir!Store!Outcomes, DirHeld, DirBusy
    <2>6. DirHeld' \in [Dir!Names -> {"none", "part", "whole"}]
        BY <2>3, DirHeldTyped DEF DirHeld, Datas
    <2> QED BY <1>1, <2>1, <2>2, <2>5, <2>6 DEF Dir!Store!Effect, DirHeld, DirBusy
<1> QED BY <1>6, <1>7

\* The end of the put of a Meta backup: the whole of it is there.
LEMMA DirSyncsDir == ASSUME DirInv, NEW c \in Clients, Dir!SyncDir(c) PROVE Dir!Store!Succeed(c)
<1>1. /\ dcall[c].pc = "syncDir" /\ DirCallOk(dcall[c]) /\ Dir!Return(c) /\ dlisted' = dlisted
      /\ file \in [Names -> Files]
    BY DEF Dir!SyncDir, DirInv
<1>2. PICK n \in Names : dcall[c].name = {n} /\ dcall[c].op = "put" /\ file[n].data = "whole"
    BY <1>1 DEF DirCallOk, DirPutPart, DirChange, DirPuts
<1>3. ASSUME NEW m \in Names PROVE file'[m].data = file[m].data
    <2>1. PICK f \in Files : f = file[m]
        BY <1>1
    <2>2. file'[m] = f \/ file'[m] = [f EXCEPT !.sync = @ \union {"entry"}]
        BY <2>1 DEF Dir!SyncDir, Dir!Names, Names
    <2> QED BY <2>1, <2>2, SyncedEntry
<1> QED BY <1>1, <1>2, <1>3, DirSucceeds

\* A deletion succeeds or fails.
LEMMA DirDeletes ==
    ASSUME DirInv, NEW c \in Clients, Dir!DeleteFile(c)
    PROVE  Dir!Store!Succeed(c) \/ Dir!Store!Fail(c)
<1>1. /\ dcall[c].pc = "delete" /\ DirCallOk(dcall[c]) /\ Dir!Return(c) /\ dlisted' = dlisted
      /\ file \in [Names -> Files]
    BY DEF Dir!DeleteFile, DirInv
<1>2. PICK n \in Names : dcall[c].name = {n} /\ dcall[c].op = "delete"
    BY <1>1 DEF DirCallOk, DirPutPart, DirChange, DirPuts
<1>3. CASE file' = file
    BY <1>1, <1>2, <1>3, DirFails
<1>4. CASE file' = [file EXCEPT ![n] = Dir!NoFile]
    <2>1. \A m \in Names : file'[m].data = IF m = n THEN "none" ELSE file[m].data
        BY <1>1, <1>4 DEF Dir!NoFile
    <2> QED BY <1>1, <1>2, <2>1, DirSucceeds
<1> QED BY <1>2, <1>3, <1>4, DirNameIs DEF Dir!DeleteFile

\* A list reads a directory, ends with all that is stored, or fails.
LEMMA DirReads ==
    ASSUME DirInv, NEW c \in Clients, Dir!ReadDir(c)
    PROVE  Dir!Store!Succeed(c) \/ Dir!Store!Fail(c) \/ UNCHANGED Dir!Store!vars
<1>1. /\ dcall[c].pc = "list" /\ dcall[c] \in DirCalls /\ DirCallOk(dcall[c])
      /\ UNCHANGED file /\ DirListPart(dcall[c])
    BY DEF Dir!ReadDir, DirInv, DirCallOk
<1>2. dcall[c].op = "list"
    BY <1>1 DEF DirListPart
<1>3. CASE Dir!Return(c) /\ UNCHANGED dlisted
    BY <1>1, <1>2, <1>3, DirFails
<1>4. CASE /\ \E d \in dcall[c].todo :
                 dcall' = [dcall EXCEPT ![c] = [dcall[c] EXCEPT !.todo = @ \ {d}, !.found = @ \union Dir!Entries(d)]]
           /\ UNCHANGED dlisted
    <2>1. PICK todo, found : dcall' = [dcall EXCEPT ![c] = [dcall[c] EXCEPT !.todo = todo, !.found = found]]
        BY <1>4
    <2>2. PICK w : w = [dcall[c] EXCEPT !.todo = todo, !.found = found]
        OBVIOUS
    <2>3. DirSeen(w, dcall[c]) /\ dcall' = [dcall EXCEPT ![c] = w]
        BY <1>1, <2>1, <2>2 DEF DirCalls, DirSeen
    <2> QED BY <1>1, <1>4, <2>3, DirStutter
<1>5. CASE dcall[c].todo = {} /\ dlisted' = dcall[c].found /\ Dir!Return(c)
    <2>1. /\ dlisted' \in SUBSET DirBusy[c].seen /\ DirBusy[c].op = "list"
          /\ Dir!Store!Stored \intersect DirBusy[c].scope \subseteq dlisted'
        BY <1>1, <1>5, DirStoredSame DEF DirListPart, DirBusy
    <2>2. DirHeld' = DirHeld
        BY <1>1 DEF DirHeld
    <2>3. DirBusy[c] # Dir!Store!Idle /\ DirBusy' = [DirBusy EXCEPT ![c] = Dir!Store!Idle]
        BY <1>2, <1>5, DirOver
    <2> QED BY <2>1, <2>2, <2>3 DEF Dir!Store!Succeed, DirHeld, DirBusy
<1> QED BY <1>3, <1>4, <1>5 DEF Dir!ReadDir

\* Deaths and power failures.
LEMMA DirDies == ASSUME DirInv, Dir!Die \/ Dir!PowerLoss PROVE Dir!Store!Decay
<1>1. CASE Dir!Die
    BY <1>1, DirDecays DEF Dir!Die, Dir!Killed
<1>2. CASE Dir!PowerLoss
    <2>1. \A n \in Names : file[n] \in Files /\ file'[n] \in Dir!AfterPowerLoss(file[n])
        BY <1>2 DEF Dir!PowerLoss, DirInv, Dir!Names, Names
    <2>2. \A n \in Names : /\ file'[n].data \in {file[n].data, "none", "part"}
                           /\ file[n].data = "none" => file'[n].data = "none"
        BY <2>1, AfterLoss
    <2> QED BY <1>2, <2>2, DirDecays DEF Dir!PowerLoss, Dir!Killed
<1> QED BY <1>1, <1>2

\* Every step of the directory backend is a step of the store or none.
LEMMA DirRefines == DirInv /\ [Dir!DirNext]_dirstate => [Dir!Store!Next]_Dir!Store!vars
<1> SUFFICES ASSUME DirInv, [Dir!DirNext]_dirstate
             PROVE  Dir!Store!Next \/ UNCHANGED Dir!Store!vars
    OBVIOUS
<1>1. ASSUME NEW c \in Clients, Dir!DirStep(c)
      PROVE  Dir!Store!Next \/ UNCHANGED Dir!Store!vars
    BY <1>1, DirPrepares, DirRenames, DirSyncsDir, DirDeletes, DirReads DEF Dir!DirStep, Dir!Store!Next
<1>2. ASSUME NEW c \in Clients, Dir!DirPut(c) \/ Dir!DirDelete(c) \/ Dir!DirList(c)
      PROVE  Dir!Store!Next
    BY <1>2, DirCallsBegin DEF Dir!Store!Next
<1>3. ASSUME NEW c \in Clients, Dir!PutFails(c) PROVE Dir!Store!Next
    <2>1. dcall[c].op = "put" /\ Dir!Return(c) /\ UNCHANGED <<file, dlisted>>
        BY <1>3 DEF Dir!PutFails, DirInv, DirCallOk, DirPutPart, DirPuts
    <2> QED BY <2>1, DirFails DEF Dir!Store!Next
<1>4. CASE UNCHANGED dirstate
    BY <1>4 DEF dirstate, Dir!Store!vars
<1> QED BY <1>1, <1>2, <1>3, <1>4, DirDies DEF Dir!DirNext, Dir!Store!Next

\* The store starts empty, without calls.
LEMMA DirInitRefines == Dir!DirInit => Dir!Store!Init
<1> SUFFICES ASSUME Dir!DirInit PROVE Dir!Store!Init
    OBVIOUS
<1>1. DirBusy = [c \in Clients |-> Dir!Store!Idle]
    BY DEF Dir!DirInit, DirBusy, Dir!IdleCall, Dir!Store!Idle
<1>2. DirHeld = [n \in Dir!Names |-> "none"]
    BY DEF Dir!DirInit, DirHeld, Dir!NoFile
<1> QED BY <1>1, <1>2 DEF Dir!DirInit, Dir!Store!Init, DirBusy, DirHeld

\* The module's backend is of one kind for good.
LEMMA BackendSteps == [BackendNext]_allvars => [Next]_vars /\ [Dir!DirNext]_dirstate
BY DEF BackendNext, allvars

\* MetaDurable is part of the invariant.
LEMMA DirInvDurable == DirInv => MetaDurable
BY DEF DirInv, Safe, MetaDurable, Dir!MetaDurable

\* The invariant of the directory backend holds in every reachable state.
LEMMA DirAlways == BackendSpec => []DirInv
<1>1. BackendInit => DirInv
    BY DirInitInv DEF BackendInit
<1>2. DirInv /\ [BackendNext]_allvars => DirInv'
    BY BackendSteps, DirNextInv
<1> QED BY <1>1, <1>2, PTL DEF BackendSpec

\* A Meta backup whose upload succeeded is there, whole, until somebody deletes
\* it, whichever power failures come (PutMetaContext of dir.go: fsync of the
\* file before the rename, of the directory before success).
THEOREM BackendMetaDurable == BackendSpec => []MetaDurable
<1> QED BY DirAlways, DirInvDurable, PTL

\* The directory backend is a blob store: a put that succeeded left the whole
\* object, a list that succeeded is complete and shows no temporary file.
THEOREM BackendDirImplements == BackendSpec => DirImplementsBlobStore
<1>1. BackendInit => Dir!Store!Init
    BY DirInitRefines DEF BackendInit
<1>2. DirInv /\ [BackendNext]_allvars => [Dir!Store!Next]_Dir!Store!vars
    BY BackendSteps, DirRefines
<1> QED BY <1>1, <1>2, DirAlways, PTL
        DEF BackendSpec, DirImplementsBlobStore, Dir!ImplementsBlobStore, Dir!Store!Spec

-----------------------------------------------------------------------------
(* The invariant of the WebDAV backend.                                    *)

\* A call of c changes at most the object it puts or deletes, and leaves it in
\* collections that exist; collections only appear.
DavFrame(c) ==
    /\ held' \in [Names -> Datas] /\ cols \subseteq cols'
    /\ \A n \in Names : \/ held'[n] = held[n]
                        \/ /\ n \in call[c].name /\ call[c].op \in {"put", "delete"}
                           /\ held'[n] # "none" => Above(n) \subseteq cols

\* What a call is about.
DavSeen(v, w) == v.op = w.op /\ v.name = w.name /\ v.scope = w.scope /\ v.seen = w.seen

\* A call that is over is well formed.
LEMMA DavIdleOk == DavCallOk(IdleCall) /\ DavCallOk(IdleCall)'
BY DEF DavCallOk, DavCalls, DavAim, DavPcPart, DavWalkPart, IdleCall, Ops

\* A call of c does not disturb the call w of another client.
LEMMA DavOther ==
    ASSUME DavInv, NEW c \in Clients, NEW w, DavCallOk(w), DavFrame(c),
           call[c].name \intersect (w.name \union w.scope) = {}
    PROVE  DavCallOk(w)'
<1>1. w \in DavCalls /\ w.scope \subseteq Names
    BY DEF DavCallOk, DavCalls
<1>2. \A n \in w.scope : n \in Stored' <=> n \in Stored
    BY <1>1 DEF DavFrame, Stored
<1>3. DavAim(w)'
    BY <1>2 DEF DavCallOk, DavAim
<1>4. DavWalkPart(w)'
    BY <1>2 DEF DavCallOk, DavWalkPart, Above
<1> QED BY <1>1, <1>3, <1>4 DEF DavCallOk, DavPcPart

\* What a step of c has to show to keep the invariant.
LEMMA DavMove ==
    ASSUME DavInv, NEW c \in Clients, NEW w, call' = [call EXCEPT ![c] = w],
           DavFrame(c), DavCallOk(w)',
           \A d \in Clients \ {c} : /\ w.name \intersect (call[d].name \union call[d].scope) = {}
                                    /\ w.scope \intersect call[d].name = {}
    PROVE  DavInv'
<1>1. call \in [Clients -> DavCalls] /\ w \in DavCalls
    BY DEF DavInv, DavCallOk
<1>2. /\ call' \in [Clients -> DavCalls] /\ call'[c] = w
      /\ \A d \in Clients \ {c} : call'[d] = call[d]
    BY <1>1
<1>3. DavApart'
    BY <1>2 DEF DavInv, DavApart
<1>4. ASSUME NEW d \in Clients PROVE DavCallOk(call[d])'
    <2>1. CASE d = c
        BY <2>1, <1>2 DEF DavCallOk, DavAim, DavPcPart, DavWalkPart
    <2>2. CASE d # c
        <3> PICK v : v = call[d]
            OBVIOUS
        <3>1. DavCallOk(v) /\ call[c].name \intersect (v.name \union v.scope) = {}
            BY <2>2 DEF DavInv, DavApart
        <3>2. DavCallOk(v)'
            BY <3>1, DavOther
        <3>3. call'[d] = v
            BY <1>2, <2>2
        <3> QED BY <3>2, <3>3 DEF DavCallOk, DavAim, DavPcPart, DavWalkPart
    <2> QED BY <2>1, <2>2
<1>5. DavRooted'
    BY DEF DavInv, DavFrame, DavRooted, Stored, Above
<1> QED BY <1>2, <1>3, <1>4, <1>5 DEF DavInv, DavFrame

\* A call that is over keeps the invariant, whatever it did to its object.
LEMMA DavReturn ==
    ASSUME DavInv, NEW c \in Clients, Return(c), DavFrame(c)
    PROVE  DavInv'
<1>1. call' = [call EXCEPT ![c] = IdleCall] /\ IdleCall.name = {} /\ IdleCall.scope = {}
    BY DEF Return, IdleCall
<1> QED BY <1>1, DavIdleOk, DavMove

\* A call that goes on keeps the invariant when its aim stays.
LEMMA DavGoOn ==
    ASSUME DavInv, NEW c \in Clients, NEW w, call' = [call EXCEPT ![c] = w],
           w \in DavCalls, DavSeen(w, call[c]), DavPcPart(w), w.pc # "walk", DavFrame(c)
    PROVE  DavInv'
<1>1. DavCallOk(call[c]) /\ call[c] \in DavCalls
    BY DEF DavInv
<1>2. DavAim(w)'
    <2>1. w.op = "list" => held' = held
        BY <1>1 DEF DavInv, DavSeen, DavFrame
    <2> QED BY <1>1, <2>1 DEF DavCallOk, DavAim, DavSeen, Stored
<1>3. DavCallOk(w)'
    BY <1>2 DEF DavCallOk, DavPcPart, DavWalkPart
<1>4. \A d \in Clients \ {c} : /\ w.name \intersect (call[d].name \union call[d].scope) = {}
                               /\ w.scope \intersect call[d].name = {}
    BY DEF DavInv, DavApart, DavSeen
<1> QED BY <1>3, <1>4, DavMove

\* A step that touches no object.
LEMMA DavIdleFrame ==
    ASSUME DavInv, NEW c \in Clients, held' = held, cols \subseteq cols'
    PROVE  DavFrame(c)
BY DEF DavInv, DavFrame

\* The start: nothing is stored, nobody calls.
LEMMA DavInitInv == Init => DavInv
<1> SUFFICES ASSUME Init PROVE DavInv
    OBVIOUS
<1>1. \A c \in Clients : call[c] = IdleCall
    BY DEF Init
<1>2. \A c \in Clients : DavCallOk(call[c])
    BY <1>1, DavIdleOk
<1>3. DavApart
    BY <1>1 DEF DavApart, IdleCall
<1>4. call \in [Clients -> DavCalls]
    BY DavIdleOk DEF Init, DavCallOk
<1> QED BY <1>2, <1>3, <1>4 DEF DavInv, Init, Datas, DavRooted, Stored

\* A new put.
LEMMA DavPutInv == ASSUME DavInv, NEW c \in Clients, Put(c) PROVE DavInv'
<1>1. PICK n \in Names :
         /\ held[n] = "none" /\ Alone(n)
         /\ call' = [call EXCEPT ![c] = [IdleCall EXCEPT !.op = "put", !.name = {n},
                                         !.pc = "ensure", !.level = 1, !.tries = 1]]
    BY DEF Put
<1>2. PICK w : w = [IdleCall EXCEPT !.op = "put", !.name = {n}, !.pc = "ensure", !.level = 1, !.tries = 1]
    OBVIOUS
<1>3. /\ w \in DavCalls /\ w.op = "put" /\ w.name = {n} /\ w.scope = {} /\ w.seen = {}
      /\ w.pc = "ensure"
    BY <1>2, DavIdleOk DEF IdleCall, DavCallOk, DavCalls, Ops
<1>4. DavCallOk(w)'
    BY <1>3 DEF DavCallOk, DavAim, DavPcPart, DavWalkPart
<1>5. /\ DavFrame(c)
      /\ \A d \in Clients \ {c} : /\ w.name \intersect (call[d].name \union call[d].scope) = {}
                                  /\ w.scope \intersect call[d].name = {}
    BY <1>1, <1>3, DavIdleFrame DEF Put, Alone
<1>6. call' = [call EXCEPT ![c] = w]
    BY <1>1, <1>2
<1> QED BY <1>4, <1>5, <1>6, DavMove

\* A new deletion.
LEMMA DavDeleteInv == ASSUME DavInv, NEW c \in Clients, Delete(c) PROVE DavInv'
<1>1. PICK n \in Names :
         /\ Alone(n)
         /\ call' = [call EXCEPT ![c] = [IdleCall EXCEPT !.op = "delete", !.name = {n}, !.pc = "delete"]]
    BY DEF Delete, Stored
<1>2. PICK w : w = [IdleCall EXCEPT !.op = "delete", !.name = {n}, !.pc = "delete"]
    OBVIOUS
<1>3. /\ w \in DavCalls /\ w.op = "delete" /\ w.name = {n} /\ w.scope = {} /\ w.seen = {}
      /\ w.pc = "delete"
    BY <1>2, DavIdleOk DEF IdleCall, DavCallOk, DavCalls, Ops
<1>4. DavCallOk(w)'
    BY <1>3 DEF DavCallOk, DavAim, DavPcPart, DavWalkPart
<1>5. /\ DavFrame(c)
      /\ \A d \in Clients \ {c} : /\ w.name \intersect (call[d].name \union call[d].scope) = {}
                                  /\ w.scope \intersect call[d].name = {}
    BY <1>1, <1>3, DavIdleFrame DEF Delete, Alone
<1>6. call' = [call EXCEPT ![c] = w]
    BY <1>1, <1>2
<1> QED BY <1>4, <1>5, <1>6, DavMove

\* A new list of blobs: nobody has one in hand.
LEMMA DavListInv == ASSUME DavInv, NEW c \in Clients, List(c) PROVE DavInv'
<1>1. PICK seen : seen = Stored \intersect Blobs
    OBVIOUS
<1>2. PICK w : w = [IdleCall EXCEPT !.op = "list", !.scope = Blobs, !.pc = "walk", !.seen = seen, !.todo = {"root"}]
    OBVIOUS
<1>3. call' = [call EXCEPT ![c] = w]
    BY <1>1, <1>2 DEF List
<1>4. /\ w \in DavCalls /\ w.op = "list" /\ w.name = {} /\ w.scope = Blobs /\ w.seen = seen
      /\ w.pc = "walk" /\ w.todo = {"root"} /\ w.found = {}
    BY <1>1, <1>2, DavIdleOk DEF IdleCall, DavCallOk, DavCalls, Ops, Names
<1>5. Stored' = Stored
    BY DEF List, Stored
<1>6. DavCallOk(w)'
    BY <1>1, <1>4, <1>5 DEF DavCallOk, DavAim, DavPcPart, DavWalkPart, Above
<1>7. /\ DavFrame(c)
      /\ \A d \in Clients \ {c} : /\ w.name \intersect (call[d].name \union call[d].scope) = {}
                                  /\ w.scope \intersect call[d].name = {}
    BY <1>4, DavIdleFrame DEF List
<1> QED BY <1>3, <1>6, <1>7, DavMove

\* A new list of Meta backups: nobody has one in hand.
LEMMA DavListMetaInv == ASSUME DavInv, NEW c \in Clients, ListMeta(c) PROVE DavInv'
<1>1. PICK seen : seen = Stored \intersect Metas
    OBVIOUS
<1>2. PICK m \in Metas :
        call' = [call EXCEPT ![c] = [IdleCall EXCEPT !.op = "list", !.name = {m}, !.scope = Metas,
                                     !.pc = "ensure", !.level = 1, !.seen = seen]]
    BY <1>1 DEF ListMeta
<1>3. PICK w : w = [IdleCall EXCEPT !.op = "list", !.name = {m}, !.scope = Metas,
                                    !.pc = "ensure", !.level = 1, !.seen = seen]
    OBVIOUS
<1>4. /\ w \in DavCalls /\ w.op = "list" /\ w.name = {m} /\ w.scope = Metas /\ w.seen = seen
      /\ w.pc = "ensure"
    BY <1>1, <1>3, DavIdleOk DEF IdleCall, DavCallOk, DavCalls, Ops, Names
<1>5. Stored' = Stored
    BY DEF ListMeta, Stored
<1>6. DavCallOk(w)'
    BY <1>1, <1>4, <1>5 DEF DavCallOk, DavAim, DavPcPart, DavWalkPart
<1>7. ASSUME NEW d \in Clients \ {c}
      PROVE  /\ w.name \intersect (call[d].name \union call[d].scope) = {}
             /\ w.scope \intersect call[d].name = {}
    <2>1. call[d].name \intersect Metas = {} /\ DavCallOk(call[d])
        BY DEF ListMeta, DavInv
    <2>2. m \notin call[d].scope
        BY <2>1, BackendAssumption
        DEF DavCallOk, DavAim, DavPcPart, DavCalls, BackendAssumption, Ops, IdleCall
    <2> QED BY <1>4, <2>1, <2>2
<1>8. DavFrame(c) /\ call' = [call EXCEPT ![c] = w]
    BY <1>2, <1>3, DavIdleFrame DEF ListMeta
<1> QED BY <1>6, <1>7, <1>8, DavMove

\* The next level, or the request the collections are needed for.
LEMMA AdvanceInv ==
    ASSUME DavInv, NEW c \in Clients, call[c].pc \in {"ensure", "mark"}, call' = Advance(c),
           held' = held, cols' = cols
    PROVE  DavInv'
<1>1. call[c] \in DavCalls /\ DavCallOk(call[c]) /\ DavFrame(c)
    BY DavIdleFrame DEF DavInv
<1>2. PICK l \in Nat : l = call[c].level + 1
    BY <1>1 DEF DavCalls
<1>3. CASE call' = [call EXCEPT ![c] = [call[c] EXCEPT !.level = @ + 1, !.pc = "ensure"]]
    <2>1. PICK v : v = [call[c] EXCEPT !.level = l, !.pc = "ensure"]
        OBVIOUS
    <2>2. v \in DavCalls /\ DavSeen(v, call[c]) /\ v.pc = "ensure"
        BY <1>1, <2>1 DEF DavCalls, DavSeen
    <2>3. DavPcPart(v)
        BY <1>1, <2>2 DEF DavCallOk, DavPcPart, DavSeen
    <2>4. call' = [call EXCEPT ![c] = v]
        BY <1>2, <1>3, <2>1
    <2> QED BY <1>1, <2>2, <2>3, <2>4, DavGoOn
<1>4. CASE call' = [call EXCEPT ![c] = [call[c] EXCEPT !.pc = IF call[c].op = "put" THEN "put" ELSE "propfind"]]
    <2>1. PICK pc \in {"put", "propfind"} : pc = IF call[c].op = "put" THEN "put" ELSE "propfind"
        OBVIOUS
    <2>2. PICK v : v = [call[c] EXCEPT !.pc = pc]
        OBVIOUS
    <2>3. v \in DavCalls /\ DavSeen(v, call[c]) /\ v.pc = pc
        BY <1>1, <2>2 DEF DavCalls, DavSeen
    <2>4. DavPcPart(v)
        BY <1>1, <2>1, <2>3 DEF DavCallOk, DavPcPart, DavSeen
    <2>5. call' = [call EXCEPT ![c] = v]
        BY <1>4, <2>1, <2>2
    <2> QED BY <1>1, <2>1, <2>3, <2>4, <2>5, DavGoOn
<1> QED BY <1>3, <1>4 DEF Advance

\* A request went wrong: the call looks at the error.
LEMMA ErrorInv ==
    ASSUME DavInv, NEW c \in Clients, NEW e \in Errors,
           call[c].pc \in {"ensure", "mark", "put"}, Error(c, e), DavFrame(c)
    PROVE  DavInv'
<1>1. call[c] \in DavCalls /\ DavCallOk(call[c])
    BY DEF DavInv
<1>2. PICK w : w = [call[c] EXCEPT !.pc = "error", !.err = e]
    OBVIOUS
<1>3. w \in DavCalls /\ DavSeen(w, call[c]) /\ w.pc = "error"
    BY <1>1, <1>2 DEF DavCalls, DavSeen
<1>4. DavPcPart(w)
    BY <1>1, <1>3 DEF DavCallOk, DavPcPart, DavSeen
<1>5. call' = [call EXCEPT ![c] = w]
    BY <1>2 DEF Error
<1> QED BY <1>3, <1>4, <1>5, DavGoOn

\* A collection the cache knows.
LEMMA KnownInv == ASSUME DavInv, NEW c \in Clients, Known(c) PROVE DavInv'
BY AdvanceInv DEF Known

\* A collection is noted in the cache.
LEMMA MarkInv == ASSUME DavInv, NEW c \in Clients, Mark(c) PROVE DavInv'
BY AdvanceInv DEF Mark

\* A collection appears, or its request goes wrong.
LEMMA MkcolInv == ASSUME DavInv, NEW c \in Clients, Mkcol(c) PROVE DavInv'
<1>1. /\ call[c].pc = "ensure" /\ call[c] \in DavCalls /\ DavCallOk(call[c])
      /\ held' = held /\ cols \subseteq cols' /\ DavFrame(c)
    BY DavIdleFrame DEF Mkcol, DavInv
<1>2. "again" \in Errors /\ MissingParent \in Errors
    BY BackendAssumption DEF BackendAssumption, Errors
<1>3. CASE \E e \in Errors : Error(c, e)
    BY <1>1, <1>3, ErrorInv
<1>4. CASE Goto(c, "mark")
    <2>1. PICK w : w = [call[c] EXCEPT !.pc = "mark"]
        OBVIOUS
    <2>2. w \in DavCalls /\ DavSeen(w, call[c]) /\ w.pc = "mark"
        BY <1>1, <2>1 DEF DavCalls, DavSeen
    <2>3. DavPcPart(w)
        BY <1>1, <2>2 DEF DavCallOk, DavPcPart, DavSeen
    <2> QED BY <1>1, <1>4, <2>1, <2>2, <2>3, DavGoOn DEF Goto
<1> QED BY <1>2, <1>3, <1>4 DEF Mkcol

\* The object of a call that puts or deletes.
LEMMA DavNameIs ==
    ASSUME NEW c \in Clients, NEW n, call[c].name = {n}
    PROVE  (CHOOSE m \in call[c].name : TRUE) = n
OBVIOUS

\* A put request: success, an error, or an error after some of it was stored.
LEMMA PutRequestInv == ASSUME DavInv, NEW c \in Clients, PutRequest(c) PROVE DavInv'
<1>1. /\ call[c].pc = "put" /\ call[c].op = "put" /\ held \in [Names -> Datas] /\ cols' = cols
      /\ DavCallOk(call[c])
    BY DEF PutRequest, DavInv, DavCallOk, DavPcPart
<1>2. PICK n \in Names : call[c].name = {n}
    BY <1>1 DEF DavCallOk, DavAim
<1>3. "again" \in Errors /\ MissingParent \in Errors
    BY BackendAssumption DEF BackendAssumption, Errors
<1>4. \/ \E x \in {"part", "whole"} : Above(n) \subseteq cols /\ held' = [held EXCEPT ![n] = x]
      \/ held' = held
    BY <1>2, DavNameIs DEF PutRequest
<1>5. DavFrame(c)
    BY <1>1, <1>2, <1>4 DEF DavFrame, Datas
<1>6. Return(c) \/ \E e \in Errors : Error(c, e)
    BY <1>3 DEF PutRequest
<1> QED BY <1>1, <1>5, <1>6, DavReturn, ErrorInv

\* After an error: once more from the first collection, or the end.
LEMMA AfterErrorInv == ASSUME DavInv, NEW c \in Clients, AfterError(c) PROVE DavInv'
<1>1. /\ call[c].pc = "error" /\ call[c] \in DavCalls /\ DavCallOk(call[c]) /\ DavFrame(c)
    BY DavIdleFrame DEF AfterError, DavInv
<1>2. CASE Return(c)
    BY <1>1, <1>2, DavReturn
<1>3. CASE /\ call[c].op = "put"
           /\ call' = [call EXCEPT ![c] = [call[c] EXCEPT !.pc = "ensure", !.level = 1,
                                                          !.tries = @ + 1, !.err = "none"]]
    <2>1. PICK t \in Nat : t = call[c].tries + 1
        BY <1>1 DEF DavCalls
    <2>2. PICK w : w = [call[c] EXCEPT !.pc = "ensure", !.level = 1, !.tries = t, !.err = "none"]
        OBVIOUS
    <2>3. w \in DavCalls /\ DavSeen(w, call[c]) /\ w.pc = "ensure"
        BY <1>1, <2>2 DEF DavCalls, DavSeen
    <2>4. DavPcPart(w)
        BY <1>3, <2>3 DEF DavPcPart, DavSeen
    <2>5. call' = [call EXCEPT ![c] = w]
        BY <1>3, <2>1, <2>2
    <2> QED BY <1>1, <2>3, <2>4, <2>5, DavGoOn
<1> QED BY <1>2, <1>3 DEF AfterError, PauseOrReturn, RetriesLeft

\* A delete request.
LEMMA DeleteRequestInv == ASSUME DavInv, NEW c \in Clients, DeleteRequest(c) PROVE DavInv'
<1>1. /\ call[c].pc = "delete" /\ call[c].op = "delete" /\ held \in [Names -> Datas] /\ cols' = cols
      /\ DavCallOk(call[c]) /\ Return(c)
    BY DEF DeleteRequest, DavInv, DavCallOk, DavPcPart
<1>2. PICK n \in Names : call[c].name = {n}
    BY <1>1 DEF DavCallOk, DavAim
<1>3. held' = held \/ held' = [held EXCEPT ![n] = "none"]
    BY <1>2, DavNameIs DEF DeleteRequest
<1>4. DavFrame(c)
    BY <1>1, <1>2, <1>3 DEF DavFrame, Datas
<1> QED BY <1>1, <1>4, DavReturn

\* The answer of a list of Meta backups.
LEMMA PropfindMetaInv == ASSUME DavInv, NEW c \in Clients, PropfindMeta(c) PROVE DavInv'
BY DavIdleFrame, DavReturn DEF PropfindMeta

\* The end of a walk.
LEMMA WalkEndsInv == ASSUME DavInv, NEW c \in Clients, WalkEnds(c) PROVE DavInv'
BY DavIdleFrame, DavReturn DEF WalkEnds

\* What one collection of the walk shows: what of an object is below it, next
\* level or object, comes to light.
LEMMA WalkShows ==
    ASSUME DavRooted, NEW n \in Stored \intersect Blobs, NEW k
    PROVE  /\ k = "root" => Above(n) \intersect Below(k) # {}
           /\ k \in Above(n) => n \in Leaves(k) \/ Above(n) \intersect Below(k) # {}
<1>1. /\ n \in Names /\ Parts[n] \in Seq(Cols) /\ Parts[n] # << >> /\ Above(n) \subseteq cols
      /\ n \in Blobs /\ n \in Stored
    BY BackendAssumption DEF BackendAssumption, DavRooted, Stored
<1>2. Len(Parts[n]) \in Nat \ {0} /\ DOMAIN Parts[n] = 1 .. Len(Parts[n])
    BY <1>1
<1>3. \A i \in DOMAIN Parts[n] : Parts[n][i] \in Above(n)
    BY DEF Above
<1>4. k = "root" => Above(n) \intersect Below(k) # {}
    <2>1. 1 \in DOMAIN Parts[n]
        BY <1>2
    <2> QED BY <1>1, <1>3, <2>1 DEF Below
<1>5. ASSUME NEW i \in DOMAIN Parts[n], k = Parts[n][i]
      PROVE  n \in Leaves(k) \/ Above(n) \intersect Below(k) # {}
    <2>1. CASE i = Len(Parts[n])
        BY <1>1, <1>5, <2>1 DEF Leaves, Inside
    <2>2. CASE i # Len(Parts[n])
        <3>1. i + 1 \in DOMAIN Parts[n] /\ i + 1 # 1 /\ (i + 1) - 1 = i
            BY <1>2, <2>2
        <3> PICK j : j = i + 1
            OBVIOUS
        <3>2. j \in DOMAIN Parts[n] /\ j # 1 /\ Parts[n][j - 1] = k /\ Parts[n][j] \in cols
            BY <1>1, <1>3, <1>5, <3>1
        <3> QED BY <1>1, <1>3, <3>2 DEF Below
    <2> QED BY <2>1, <2>2
<1> QED BY <1>4, <1>5 DEF Above

\* One collection of a walk is read, or its error ends the list.
LEMMA WalkInv == ASSUME DavInv, NEW c \in Clients, Walk(c) PROVE DavInv'
<1>1. /\ call[c].pc = "walk" /\ call[c] \in DavCalls /\ DavCallOk(call[c]) /\ DavFrame(c)
      /\ held' = held /\ DavRooted
    BY DavIdleFrame DEF Walk, DavInv
<1>2. CASE Return(c)
    BY <1>1, <1>2, DavReturn
<1>3. CASE \E k \in call[c].todo :
             call' = [call EXCEPT ![c] = [call[c] EXCEPT !.todo = (@ \ {k}) \union Below(k),
                                                         !.found = @ \union Leaves(k)]]
    <2>1. PICK k \in call[c].todo :
             call' = [call EXCEPT ![c] = [call[c] EXCEPT !.todo = (@ \ {k}) \union Below(k),
                                                         !.found = @ \union Leaves(k)]]
        BY <1>3
    <2>2. PICK todo, found : /\ todo = (call[c].todo \ {k}) \union Below(k)
                             /\ found = call[c].found \union Leaves(k)
        OBVIOUS
    <2>3. PICK w : w = [call[c] EXCEPT !.todo = todo, !.found = found]
        OBVIOUS
    <2>4. Leaves(k) \subseteq Stored \intersect Blobs /\ Leaves(k) \subseteq Names
        BY DEF Leaves, Inside, Stored
    <2>5. Below(k) \subseteq Cols
        BY DEF Below, Cols, Names
    <2>6. /\ w \in DavCalls /\ DavSeen(w, call[c]) /\ w.pc = "walk" /\ w.todo = todo /\ w.found = found
        BY <1>1, <2>2, <2>3, <2>4, <2>5 DEF DavCalls, DavSeen
    <2>7. /\ call[c].op = "list" /\ call[c].scope = Blobs /\ call[c].found \subseteq call[c].seen
          /\ Stored \intersect Blobs \subseteq call[c].seen
          /\ \A n \in Stored \intersect Blobs :
                n \in call[c].found \/ "root" \in call[c].todo \/ Above(n) \intersect call[c].todo # {}
        BY <1>1 DEF DavCallOk, DavWalkPart, DavAim
    <2>8. ASSUME NEW n \in Stored \intersect Blobs
          PROVE  n \in found \/ "root" \in todo \/ Above(n) \intersect todo # {}
        BY <1>1, <2>2, <2>7, WalkShows
    <2>9. Stored' = Stored
        BY <1>1 DEF Stored
    <2>10. DavWalkPart(w)'
        BY <2>2, <2>4, <2>6, <2>7, <2>8, <2>9 DEF DavWalkPart, DavSeen, Above
    <2>11. DavAim(w)' /\ DavPcPart(w)'
        BY <1>1, <2>6, <2>7, <2>9 DEF DavCallOk, DavAim, DavPcPart, DavSeen
    <2>12. \A d \in Clients \ {c} : /\ w.name \intersect (call[d].name \union call[d].scope) = {}
                                    /\ w.scope \intersect call[d].name = {}
        BY <2>6 DEF DavInv, DavApart, DavSeen
    <2>13. DavCallOk(w)' /\ call' = [call EXCEPT ![c] = w]
        BY <2>1, <2>2, <2>3, <2>6, <2>10, <2>11 DEF DavCallOk
    <2> QED BY <1>1, <2>12, <2>13, DavMove
<1> QED BY <1>2, <1>3 DEF Walk

\* Objects go, with the collections above them, or none go; the calls go on or
\* are all gone.
LEMMA DavLoss ==
    ASSUME DavInv, held' \in [Names -> Datas], Stored' \subseteq Stored, DavRooted',
           call' = call \/ call' = [c \in Clients |-> IdleCall]
    PROVE  DavInv'
<1>1. CASE call' = call
    <2>1. ASSUME NEW c \in Clients PROVE DavCallOk(call[c])'
        <3>1. DavCallOk(call[c])
            BY DEF DavInv
        <3> QED BY <1>1, <3>1 DEF DavCallOk, DavAim, DavPcPart, DavWalkPart, Above
    <2> QED BY <1>1, <2>1 DEF DavInv, DavApart
<1>2. CASE call' = [c \in Clients |-> IdleCall]
    <2>1. \A c \in Clients : call'[c] = IdleCall
        BY <1>2
    <2>2. \A c \in Clients : DavCallOk(call[c])'
        BY <2>1, DavIdleOk DEF DavCallOk, DavAim, DavPcPart, DavWalkPart
    <2>3. call' \in [Clients -> DavCalls] /\ DavApart'
        BY <1>2, <2>1, DavIdleOk DEF DavApart, IdleCall, DavCallOk
    <2> QED BY <2>2, <2>3 DEF DavInv
<1> QED BY <1>1, <1>2

\* Somebody removes a collection: what is not below it keeps its collections,
\* since a collection is a path.
LEMMA RemoveInv == ASSUME DavInv, Remove PROVE DavInv'
<1>1. PICK k \in cols :
         /\ held' = [n \in Names |-> IF k \in Above(n) THEN "none" ELSE held[n]]
         /\ cols' = cols \ Under(k) /\ call' = call
    BY DEF Remove
<1>2. held' \in [Names -> Datas] /\ Stored' \subseteq Stored
    BY <1>1 DEF DavInv, Stored, Datas
<1>3. ASSUME NEW n \in Stored', NEW x \in Above(n) PROVE x \in cols'
    <2>1. n \in Stored /\ n \in Names /\ k \notin Above(n)
        BY <1>1, <1>2 DEF Stored
    <2>2. PICK i \in DOMAIN Parts[n] : x = Parts[n][i]
        BY DEF Above
    <2>3. x \in cols
        BY <2>1 DEF DavInv, DavRooted
    <2>4. x \notin Under(k)
        <3> SUFFICES ASSUME x \in Under(k) PROVE FALSE
            OBVIOUS
        <3> PICK m \in Names : \E j \in DOMAIN Parts[m] : \E h \in 1 .. j :
                 x = Parts[m][j] /\ Parts[m][h] = k
            BY DEF Under
        <3>1. PICK j \in DOMAIN Parts[m] : \E h \in 1 .. j : x = Parts[m][j] /\ Parts[m][h] = k
            OBVIOUS
        <3> PICK h \in 1 .. j : x = Parts[m][j] /\ Parts[m][h] = k
            BY <3>1
        <3>2. i = j /\ \A g \in 1 .. i : Parts[n][g] = Parts[m][g]
            <4>1. n \in Names /\ m \in Names /\ Parts[n][i] = Parts[m][j]
                BY <2>1, <2>2
            <4> QED BY <4>1, BackendAssumption DEF BackendAssumption
        <3>3. h \in DOMAIN Parts[n]
            <4>1. Parts[n] \in Seq(Cols)
                BY <2>1, BackendAssumption DEF BackendAssumption
            <4> QED BY <2>2, <3>1, <3>2, <4>1
        <3>4. Parts[n][h] = k
            BY <3>2
        <3> QED BY <2>1, <3>3, <3>4 DEF Above
    <2> QED BY <1>1, <2>3, <2>4
<1>4. DavRooted'
    BY <1>3 DEF DavRooted, Above
<1> QED BY <1>1, <1>2, <1>4, DavLoss

\* The daemon restarts.
LEMMA RestartInv == ASSUME DavInv, Restart PROVE DavInv'
BY DavLoss DEF Restart, DavInv, Stored, DavRooted, Above

\* Every step of the WebDAV backend keeps the invariant.
LEMMA DavNextInv == DavInv /\ [Next]_vars => DavInv'
<1> SUFFICES ASSUME DavInv, [Next]_vars PROVE DavInv'
    OBVIOUS
<1>1. ASSUME NEW c \in Clients, Step(c) PROVE DavInv'
    BY <1>1, KnownInv, MkcolInv, MarkInv, PutRequestInv, AfterErrorInv, DeleteRequestInv,
       PropfindMetaInv, WalkInv, WalkEndsInv DEF Step
<1>2. ASSUME NEW c \in Clients, Put(c) \/ Delete(c) \/ List(c) \/ ListMeta(c) PROVE DavInv'
    BY <1>2, DavPutInv, DavDeleteInv, DavListInv, DavListMetaInv
<1>3. CASE UNCHANGED vars
    BY <1>3 DEF vars, DavInv, DavCallOk, DavAim, DavPcPart, DavWalkPart, DavApart, DavRooted,
                Stored, Above
<1> QED BY <1>1, <1>2, <1>3, RemoveInv, RestartInv DEF Next

-----------------------------------------------------------------------------
(* The WebDAV backend implements the store.                                *)

\* The calls that the store sees.
DavBusy == [c \in Clients |-> [op |-> call[c].op,
                               name |-> IF call[c].op = "list" THEN {} ELSE call[c].name,
                               scope |-> call[c].scope, seen |-> call[c].seen]]

\* A step of c that shows nothing of its call leaves what the store sees.
LEMMA DavStill ==
    ASSUME DavInv, NEW c \in Clients, NEW w, call' = [call EXCEPT ![c] = w], DavSeen(w, call[c])
    PROVE  DavBusy' = DavBusy
<1>1. \A d \in Clients : DavSeen(call'[d], call[d])
    BY DEF DavInv, DavSeen
<1> QED BY <1>1 DEF DavBusy, DavSeen

\* A call that is over is no call of the store, and was one before.
LEMMA DavOver ==
    ASSUME DavInv, NEW c \in Clients, call[c].op # "none", Return(c)
    PROVE  DavBusy[c] # Store!Idle /\ DavBusy' = [DavBusy EXCEPT ![c] = Store!Idle]
<1>1. call'[c] = IdleCall /\ \A d \in Clients \ {c} : call'[d] = call[d]
    BY DEF DavInv, Return
<1>2. DavBusy[c].op = call[c].op /\ Store!Idle.op = "none"
    BY DEF DavBusy, Store!Idle
<1>3. DavBusy'[c] = Store!Idle
    BY <1>1 DEF DavBusy, Store!Idle, IdleCall
<1>4. \A d \in Clients \ {c} : DavBusy'[d] = DavBusy[d]
    BY <1>1 DEF DavBusy
<1>5. DavBusy' = [d \in Clients |-> DavBusy'[d]] /\ DavBusy = [d \in Clients |-> DavBusy[d]]
    BY DEF DavBusy
<1>6. DavBusy' = [DavBusy EXCEPT ![c] = Store!Idle]
    BY <1>3, <1>4, <1>5
<1> QED BY <1>2, <1>6

\* A call that is over with an error, having had its effect or none.
LEMMA DavFails ==
    ASSUME DavInv, NEW c \in Clients, call[c].op # "none", Return(c), listed' = listed,
           \/ held' = held
           \/ call[c].op = "delete" /\ \E n \in call[c].name : held' = [held EXCEPT ![n] = "none"]
    PROVE  Store!Fail(c)
<1>1. held \in [Names -> Datas]
    BY DEF DavInv
<1>2. held' \in [Names -> {"none", "part", "whole"}]
    BY <1>1 DEF Datas
<1>3. DavBusy[c].op = call[c].op /\ (call[c].op = "delete" => DavBusy[c].name = call[c].name)
    BY DEF DavBusy
<1>4. Store!MayHold(c, held')
    BY <1>1, <1>3 DEF Store!MayHold, Store!Outcomes, DavBusy
<1> QED BY <1>2, <1>4, DavOver DEF Store!Fail, DavBusy

\* A put or a deletion that succeeds.
LEMMA DavSucceeds ==
    ASSUME DavInv, NEW c \in Clients, call[c].op \in {"put", "delete"}, Return(c),
           listed' = listed, NEW n \in Names, call[c].name = {n},
           held' = [held EXCEPT ![n] = IF call[c].op = "put" THEN "whole" ELSE "none"]
    PROVE  Store!Succeed(c)
<1>1. DavBusy[c].op = call[c].op /\ DavBusy[c].name = {n}
    BY DEF DavBusy
<1>2. held' = [m \in Names |-> IF m \notin DavBusy[c].name THEN held[m]
                               ELSE IF DavBusy[c].op = "put" THEN "whole" ELSE "none"]
    BY <1>1 DEF DavInv
<1> QED BY <1>1, <1>2, DavOver DEF Store!Succeed, DavBusy

\* A list that succeeds.
LEMMA DavAnswers ==
    ASSUME DavInv, NEW c \in Clients, call[c].op = "list", Return(c), held' = held,
           Stored \intersect call[c].scope \subseteq listed', listed' \subseteq call[c].seen
    PROVE  Store!Succeed(c)
<1>1. /\ listed' \in SUBSET DavBusy[c].seen /\ DavBusy[c].op = "list"
      /\ Store!Stored \intersect DavBusy[c].scope \subseteq listed'
    BY DEF DavBusy, Store!Stored, Stored
<1>2. DavBusy[c] # Store!Idle /\ DavBusy' = [DavBusy EXCEPT ![c] = Store!Idle]
    BY DavOver
<1> QED BY <1>1, <1>2 DEF Store!Succeed, DavBusy

\* The store sees a new call where there was none.
LEMMA DavNewCall ==
    ASSUME DavInv, NEW c \in Clients, NEW w, call[c].pc = "idle",
           call' = [call EXCEPT ![c] = w]
    PROVE  /\ DavBusy[c] = Store!Idle
           /\ DavBusy' = [DavBusy EXCEPT ![c] =
                [op |-> w.op, name |-> IF w.op = "list" THEN {} ELSE w.name,
                 scope |-> w.scope, seen |-> w.seen]]
<1>1. call'[c] = w /\ \A d \in Clients \ {c} : call'[d] = call[d]
    BY DEF DavInv
<1>2. DavBusy[c] = Store!Idle
    <2>1. call[c] = IdleCall
        BY DEF DavInv, DavCallOk, DavPcPart
    <2> QED BY <2>1 DEF DavBusy, Store!Idle, IdleCall
<1>3. DavBusy' = [DavBusy EXCEPT ![c] =
                [op |-> w.op, name |-> IF w.op = "list" THEN {} ELSE w.name,
                 scope |-> w.scope, seen |-> w.seen]]
    BY <1>1 DEF DavBusy
<1> QED BY <1>2, <1>3

\* A put or a deletion begins.
LEMMA DavBeginsChange ==
    ASSUME DavInv, NEW c \in Clients, NEW w, call[c].pc = "idle",
           call' = [call EXCEPT ![c] = w], listed' = {}, held' = held,
           NEW n \in Names, w.name = {n}, w.scope = {}, w.seen = {},
           \/ w.op = "put" /\ held[n] = "none"
           \/ w.op = "delete" /\ n \in Stored
    PROVE  Store!Begin(c)
<1> PICK b : b = [op |-> w.op, name |-> {n}, scope |-> {}, seen |-> {}]
    OBVIOUS
<1>1. b = [Store!Idle EXCEPT !.op = w.op, !.name = {n}]
    BY SeenCall
<1>2. DavBusy[c] = Store!Idle /\ DavBusy' = [DavBusy EXCEPT ![c] = b]
    BY DavNewCall
<1>3. CASE w.op = "put" /\ held[n] = "none"
    <2>1. b = [Store!Idle EXCEPT !.op = "put", !.name = {n}]
        BY <1>1, <1>3
    <2> QED BY <1>2, <1>3, <2>1, ZenonT(30) DEF Store!Begin, DavBusy
<1>4. CASE w.op = "delete" /\ n \in Stored
    <2>1. n \in Store!Stored
        BY <1>4 DEF Store!Stored, Stored
    <2>2. b = [Store!Idle EXCEPT !.op = "delete", !.name = {n}]
        BY <1>1, <1>4
    <2> QED BY <1>2, <2>1, <2>2, ZenonT(30) DEF Store!Begin, DavBusy
<1> QED BY <1>3, <1>4

\* A list begins.
LEMMA DavBeginsList ==
    ASSUME DavInv, NEW c \in Clients, NEW w, call[c].pc = "idle",
           call' = [call EXCEPT ![c] = w], listed' = {}, held' = held,
           NEW S \in SUBSET Names, w.op = "list", w.scope = S, w.seen = Stored \intersect S
    PROVE  Store!Begin(c)
<1> PICK t : t = Stored \intersect S
    OBVIOUS
<1> PICK b : b = [op |-> w.op, name |-> IF w.op = "list" THEN {} ELSE w.name,
                  scope |-> w.scope, seen |-> w.seen]
    OBVIOUS
<1>1. b = [Store!Idle EXCEPT !.op = "list", !.scope = S, !.seen = Store!Stored \intersect S]
    <2>1. t = Store!Stored \intersect S
        BY DEF Store!Stored, Stored
    <2>2. [Store!Idle EXCEPT !.op = "list", !.scope = S, !.seen = t]
            = [op |-> "list", name |-> {}, scope |-> S, seen |-> t]
        BY SeenCall
    <2>3. b = [op |-> "list", name |-> {}, scope |-> S, seen |-> t]
        OBVIOUS
    <2> QED BY <2>1, <2>2, <2>3, Zenon
<1>2. DavBusy[c] = Store!Idle /\ DavBusy' = [DavBusy EXCEPT ![c] = b]
    BY DavNewCall
<1>3. \E scope \in SUBSET Names :
         DavBusy' = [DavBusy EXCEPT ![c] = [Store!Idle EXCEPT !.op = "list", !.scope = scope,
                                                              !.seen = Store!Stored \intersect scope]]
    BY <1>1, <1>2
<1> QED BY <1>2, <1>3 DEF Store!Begin, DavBusy

\* Beginning a put, a deletion or a list.
LEMMA DavCallsBegin ==
    ASSUME DavInv, NEW c \in Clients, Put(c) \/ Delete(c) \/ List(c) \/ ListMeta(c)
    PROVE  Store!Begin(c)
<1>1. CASE Put(c)
    <2>1. PICK n \in Names :
             /\ held[n] = "none"
             /\ call' = [call EXCEPT ![c] = [IdleCall EXCEPT !.op = "put", !.name = {n},
                                             !.pc = "ensure", !.level = 1, !.tries = 1]]
        BY <1>1 DEF Put
    <2>2. PICK w : w = [IdleCall EXCEPT !.op = "put", !.name = {n}, !.pc = "ensure", !.level = 1, !.tries = 1]
        OBVIOUS
    <2>3. w.op = "put" /\ w.name = {n} /\ w.scope = {} /\ w.seen = {}
        BY <2>2, DavIdleOk DEF IdleCall, DavCallOk, DavCalls, Ops
    <2>4. call[c].pc = "idle" /\ listed' = {} /\ held' = held /\ call' = [call EXCEPT ![c] = w]
        BY <1>1, <2>1, <2>2 DEF Put
    <2> QED BY <2>1, <2>3, <2>4, DavBeginsChange
<1>2. CASE Delete(c)
    <2>1. PICK n \in Stored :
             call' = [call EXCEPT ![c] = [IdleCall EXCEPT !.op = "delete", !.name = {n}, !.pc = "delete"]]
        BY <1>2 DEF Delete
    <2>2. PICK w : w = [IdleCall EXCEPT !.op = "delete", !.name = {n}, !.pc = "delete"]
        OBVIOUS
    <2>3. w.op = "delete" /\ w.name = {n} /\ w.scope = {} /\ w.seen = {} /\ n \in Names
        BY <2>2, DavIdleOk DEF IdleCall, DavCallOk, DavCalls, Ops, Stored
    <2>4. call[c].pc = "idle" /\ listed' = {} /\ held' = held /\ call' = [call EXCEPT ![c] = w]
        BY <1>2, <2>1, <2>2 DEF Delete
    <2> QED BY <2>3, <2>4, DavBeginsChange
<1>3. CASE List(c)
    <2>1. PICK seen : seen = Stored \intersect Blobs
        OBVIOUS
    <2>2. PICK w : w = [IdleCall EXCEPT !.op = "list", !.scope = Blobs, !.pc = "walk", !.seen = seen, !.todo = {"root"}]
        OBVIOUS
    <2>3. w.op = "list" /\ w.scope = Blobs /\ w.seen = seen /\ Blobs \in SUBSET Names
        BY <2>2, DavIdleOk DEF IdleCall, DavCallOk, DavCalls, Ops, Names
    <2>4. call[c].pc = "idle" /\ listed' = {} /\ held' = held /\ call' = [call EXCEPT ![c] = w]
        BY <1>3, <2>1, <2>2 DEF List
    <2> QED BY <2>1, <2>3, <2>4, DavBeginsList
<1>4. CASE ListMeta(c)
    <2>1. PICK seen : seen = Stored \intersect Metas
        OBVIOUS
    <2>2. PICK m \in Metas :
             call' = [call EXCEPT ![c] = [IdleCall EXCEPT !.op = "list", !.name = {m}, !.scope = Metas,
                                          !.pc = "ensure", !.level = 1, !.seen = seen]]
        BY <1>4, <2>1 DEF ListMeta
    <2>3. PICK w : w = [IdleCall EXCEPT !.op = "list", !.name = {m}, !.scope = Metas,
                                        !.pc = "ensure", !.level = 1, !.seen = seen]
        OBVIOUS
    <2>4. w.op = "list" /\ w.scope = Metas /\ w.seen = seen /\ Metas \in SUBSET Names
        BY <2>3, DavIdleOk DEF IdleCall, DavCallOk, DavCalls, Ops, Names
    <2>5. call[c].pc = "idle" /\ listed' = {} /\ held' = held /\ call' = [call EXCEPT ![c] = w]
        BY <1>4, <2>2, <2>3 DEF ListMeta
    <2> QED BY <2>1, <2>4, <2>5, DavBeginsList
<1> QED BY <1>1, <1>2, <1>3, <1>4

\* A request went wrong: nothing is seen of it but what it stored.
LEMMA DavErrs ==
    ASSUME DavInv, NEW c \in Clients, NEW e, Error(c, e)
    PROVE  DavBusy' = DavBusy
<1>1. call[c] \in DavCalls
    BY DEF DavInv
<1>2. PICK w : w = [call[c] EXCEPT !.pc = "error", !.err = e]
    OBVIOUS
<1>3. call' = [call EXCEPT ![c] = w] /\ DavSeen(w, call[c])
    BY <1>1, <1>2 DEF Error, DavCalls, DavSeen
<1> QED BY <1>3, DavStill

\* Looking after the collections shows nothing.
LEMMA DavEnsures ==
    ASSUME DavInv, NEW c \in Clients, Known(c) \/ Mkcol(c) \/ Mark(c)
    PROVE  UNCHANGED Store!vars
<1>1. call[c] \in DavCalls /\ call \in [Clients -> DavCalls] /\ UNCHANGED <<held, listed>>
    BY DEF DavInv, Known, Mkcol, Mark
<1>2. CASE call' = Advance(c)
    <2>1. PICK w : w = call'[c]
        OBVIOUS
    <2>2. DavSeen(w, call[c]) /\ call' = [call EXCEPT ![c] = w]
        BY <1>1, <1>2, <2>1 DEF Advance, DavCalls, DavSeen
    <2>3. DavBusy' = DavBusy
        BY <2>2, DavStill
    <2> QED BY <1>1, <2>3 DEF Store!vars, DavBusy
<1>3. CASE Goto(c, "mark")
    <2>1. PICK w : w = [call[c] EXCEPT !.pc = "mark"]
        OBVIOUS
    <2>2. DavSeen(w, call[c]) /\ call' = [call EXCEPT ![c] = w]
        BY <1>1, <1>3, <2>1 DEF Goto, DavCalls, DavSeen
    <2>3. DavBusy' = DavBusy
        BY <2>2, DavStill
    <2> QED BY <1>1, <2>3 DEF Store!vars, DavBusy
<1>4. CASE \E e : Error(c, e)
    <2>1. DavBusy' = DavBusy
        BY <1>4, DavErrs
    <2> QED BY <1>1, <2>1 DEF Store!vars, DavBusy
<1> QED BY <1>2, <1>3, <1>4 DEF Known, Mkcol, Mark

\* A put request succeeds, has an effect, or none.
LEMMA DavPuts ==
    ASSUME DavInv, NEW c \in Clients, PutRequest(c)
    PROVE  Store!Succeed(c) \/ Store!Effect(c) \/ UNCHANGED Store!vars
<1>1. /\ call[c].pc = "put" /\ call[c].op = "put" /\ held \in [Names -> Datas]
      /\ listed' = listed /\ DavCallOk(call[c])
    BY DEF PutRequest, DavInv, DavCallOk, DavPcPart
<1>2. PICK n \in Names : call[c].name = {n}
    BY <1>1 DEF DavCallOk, DavAim
<1>3. CASE held' = [held EXCEPT ![n] = "whole"] /\ Return(c)
    BY <1>1, <1>2, <1>3, DavSucceeds
<1>4. CASE held' = held /\ \E e : Error(c, e)
    <2>1. DavBusy' = DavBusy
        BY <1>4, DavErrs
    <2> QED BY <1>1, <1>4, <2>1 DEF Store!vars, DavBusy
<1>5. ASSUME NEW x \in {"part", "whole"}, NEW e, held' = [held EXCEPT ![n] = x], Error(c, e)
      PROVE  Store!Effect(c)
    <2>1. DavBusy' = DavBusy
        BY <1>5, DavErrs
    <2>2. DavBusy[c] # Store!Idle
        BY <1>1 DEF DavBusy, Store!Idle
    <2>3. DavBusy[c].op = "put" /\ DavBusy[c].name = {n}
        BY <1>1, <1>2 DEF DavBusy
    <2>4. Store!MayHold(c, held')
        BY <1>1, <1>5, <2>3 DEF Store!MayHold, Store!Outcomes, DavBusy
    <2>5. held' \in [Names -> {"none", "part", "whole"}]
        BY <1>1, <1>5 DEF Datas
    <2> QED BY <1>1, <2>1, <2>2, <2>4, <2>5 DEF Store!Effect, DavBusy
<1>6. \/ held' = [held EXCEPT ![n] = "whole"] /\ Return(c)
      \/ held' = held /\ \E e : Error(c, e)
      \/ \E x \in {"part", "whole"}, e \in {"again"} : held' = [held EXCEPT ![n] = x] /\ Error(c, e)
    BY <1>2, DavNameIs DEF PutRequest
<1> QED BY <1>3, <1>4, <1>5, <1>6

\* After an error the put goes on, unseen, or any call fails.
LEMMA DavRetries ==
    ASSUME DavInv, NEW c \in Clients, AfterError(c)
    PROVE  Store!Fail(c) \/ UNCHANGED Store!vars
<1>1. /\ call[c].pc = "error" /\ call[c].op # "none" /\ call[c] \in DavCalls
      /\ UNCHANGED <<held, listed>>
    BY DEF AfterError, DavInv, DavCallOk, DavPcPart
<1>2. CASE Return(c)
    BY <1>1, <1>2, DavFails
<1>3. CASE call' = [call EXCEPT ![c] = [call[c] EXCEPT !.pc = "ensure", !.level = 1,
                                                       !.tries = @ + 1, !.err = "none"]]
    <2>1. PICK t : t = call[c].tries + 1
        OBVIOUS
    <2>2. PICK w : w = [call[c] EXCEPT !.pc = "ensure", !.level = 1, !.tries = t, !.err = "none"]
        OBVIOUS
    <2>3. DavSeen(w, call[c]) /\ call' = [call EXCEPT ![c] = w]
        BY <1>1, <1>3, <2>1, <2>2 DEF DavCalls, DavSeen
    <2>4. DavBusy' = DavBusy
        BY <2>3, DavStill
    <2> QED BY <1>1, <2>4 DEF Store!vars, DavBusy
<1> QED BY <1>2, <1>3 DEF AfterError, PauseOrReturn

\* A delete request succeeds, or fails with or without its effect.
LEMMA DavDeletes ==
    ASSUME DavInv, NEW c \in Clients, DeleteRequest(c)
    PROVE  Store!Succeed(c) \/ Store!Fail(c)
<1>1. /\ call[c].pc = "delete" /\ call[c].op = "delete" /\ Return(c) /\ listed' = listed
      /\ DavCallOk(call[c])
    BY DEF DeleteRequest, DavInv, DavCallOk, DavPcPart
<1>2. PICK n \in Names : call[c].name = {n}
    BY <1>1 DEF DavCallOk, DavAim
<1>3. CASE held' = held
    BY <1>1, <1>3, DavFails
<1>4. CASE held' = [held EXCEPT ![n] = "none"]
    BY <1>1, <1>2, <1>4, DavSucceeds
<1> QED BY <1>2, <1>3, <1>4, DavNameIs DEF DeleteRequest

\* The list of Meta backups.
LEMMA DavListsMeta ==
    ASSUME DavInv, NEW c \in Clients, PropfindMeta(c)
    PROVE  Store!Succeed(c) \/ Store!Fail(c)
<1>1. /\ call[c].pc = "propfind" /\ call[c].op = "list" /\ call[c].scope = Metas /\ Return(c)
      /\ held' = held /\ Stored \intersect Metas \subseteq call[c].seen
    BY DEF PropfindMeta, DavInv, DavCallOk, DavPcPart, DavAim
<1>2. CASE listed' = Stored \intersect Metas
    BY <1>1, <1>2, DavAnswers
<1>3. CASE listed' = listed
    BY <1>1, <1>3, DavFails
<1> QED BY <1>2, <1>3 DEF PropfindMeta

\* A walk goes on, unseen, or fails; at its end it has everything.
LEMMA DavWalks ==
    ASSUME DavInv, NEW c \in Clients, Walk(c) \/ WalkEnds(c)
    PROVE  Store!Succeed(c) \/ Store!Fail(c) \/ UNCHANGED Store!vars
<1>1. /\ call[c].pc = "walk" /\ call[c] \in DavCalls /\ held' = held /\ DavWalkPart(call[c])
    BY DEF Walk, WalkEnds, DavInv, DavCallOk
<1>2. call[c].op = "list" /\ call[c].scope = Blobs /\ call[c].found \subseteq call[c].seen
    BY <1>1 DEF DavWalkPart
<1>3. CASE Return(c) /\ listed' = listed
    BY <1>1, <1>2, <1>3, DavFails
<1>4. CASE WalkEnds(c)
    <2>1. Stored \intersect Blobs \subseteq call[c].found
        BY <1>1, <1>4 DEF DavWalkPart, WalkEnds
    <2> QED BY <1>1, <1>2, <1>4, <2>1, DavAnswers DEF WalkEnds
<1>5. CASE /\ \E k \in call[c].todo :
                 call' = [call EXCEPT ![c] = [call[c] EXCEPT !.todo = (@ \ {k}) \union Below(k),
                                                             !.found = @ \union Leaves(k)]]
           /\ listed' = listed
    <2>1. PICK todo, found : call' = [call EXCEPT ![c] = [call[c] EXCEPT !.todo = todo, !.found = found]]
        BY <1>5
    <2>2. PICK w : w = [call[c] EXCEPT !.todo = todo, !.found = found]
        OBVIOUS
    <2>3. DavSeen(w, call[c]) /\ call' = [call EXCEPT ![c] = w]
        BY <1>1, <2>1, <2>2 DEF DavCalls, DavSeen
    <2>4. DavBusy' = DavBusy
        BY <2>3, DavStill
    <2> QED BY <1>1, <1>5, <2>4 DEF Store!vars, DavBusy
<1> QED BY <1>3, <1>4, <1>5 DEF Walk

\* Removed collections and restarts are decay.
LEMMA DavDecays == ASSUME DavInv, Remove \/ Restart PROVE Store!Decay
<1>1. listed' = listed
    BY DEF Remove, Restart
<1>2. held' \in [Names -> {"none", "part", "whole"}]
    BY DEF Remove, Restart, DavInv, Datas
<1>3. \A n \in Names : held'[n] \in {held[n], "none", "part"} /\ (held[n] = "none" => held'[n] = "none")
    BY DEF Remove, Restart
<1>4. DavBusy' = DavBusy \/ DavBusy' = [c \in Clients |-> Store!Idle]
    <2>1. CASE Remove
        BY <2>1 DEF Remove, DavBusy
    <2>2. CASE Restart
        BY <2>2 DEF Restart, DavBusy, Store!Idle, IdleCall
    <2> QED BY <2>1, <2>2
<1> QED BY <1>1, <1>2, <1>3, <1>4 DEF Store!Decay, DavBusy

\* Every step of the WebDAV backend is a step of the store or none.
LEMMA DavRefines == DavInv /\ [Next]_vars => [Store!Next]_Store!vars
<1> SUFFICES ASSUME DavInv, [Next]_vars
             PROVE  Store!Next \/ UNCHANGED Store!vars
    OBVIOUS
<1>1. ASSUME NEW c \in Clients, Step(c)
      PROVE  Store!Next \/ UNCHANGED Store!vars
    BY <1>1, DavEnsures, DavPuts, DavRetries, DavDeletes, DavListsMeta, DavWalks DEF Step, Store!Next
<1>2. ASSUME NEW c \in Clients, Put(c) \/ Delete(c) \/ List(c) \/ ListMeta(c)
      PROVE  Store!Next
    BY <1>2, DavCallsBegin DEF Store!Next
<1>3. CASE UNCHANGED vars
    BY <1>3 DEF vars, Store!vars
<1> QED BY <1>1, <1>2, <1>3, DavDecays DEF Next, Store!Next

\* The store starts empty, without calls.
LEMMA DavInitRefines == Init => Store!Init
<1> SUFFICES ASSUME Init PROVE Store!Init
    OBVIOUS
<1>1. DavBusy = [c \in Clients |-> Store!Idle]
    BY DEF Init, DavBusy, IdleCall, Store!Idle
<1> QED BY <1>1 DEF Init, Store!Init, DavBusy

\* The invariant of the WebDAV backend holds in every reachable state.
LEMMA DavAlways == BackendSpec => []DavInv
<1>1. BackendInit => DavInv
    BY DavInitInv DEF BackendInit
<1>2. DavInv /\ [BackendNext]_allvars => DavInv'
    BY BackendSteps, DavNextInv
<1> QED BY <1>1, <1>2, PTL DEF BackendSpec

\* The WebDAV backend is a blob store, whatever requests and answers get lost
\* and whichever collections are removed: PutContext and PutMetaContext succeed
\* only when the whole object is there, List and ListMetaContext only with
\* every object and nothing else.
THEOREM BackendWebDAVImplements == BackendSpec => ImplementsBlobStore
<1>1. BackendInit => Store!Init
    BY DavInitRefines DEF BackendInit
<1>2. DavInv /\ [BackendNext]_allvars => [Store!Next]_Store!vars
    BY BackendSteps, DavRefines
<1> QED BY <1>1, <1>2, DavAlways, PTL DEF BackendSpec, ImplementsBlobStore, Store!Spec
=============================================================================
