------------------------------- MODULE Backend -------------------------------
(***************************************************************************)
(* The backend of a module: openBackend (internal/core/open.go) makes       *)
(* either a WebDAV or a directory backend from the configuration.          *)
(***************************************************************************)
EXTENDS WebDAVBackend

CONSTANT MaxDirFaults   \* bound, see DirBackend

\* "meta" is no bucket: the parts of a bucket are two hexadecimal digits.
ASSUME DirAssumption ==
    /\ MaxDirFaults \in Nat
    /\ \A b \in Blobs, m \in Metas : Parts[b] # Parts[m]

VARIABLES kind, file, leftover, dcall, dlisted, acked, dfaults

Dir == INSTANCE DirBackend

dirstate == <<file, leftover, dcall, dlisted, acked, dfaults>>
allvars == <<vars, kind, dirstate>>

BackendInit == Init /\ Dir!DirInit /\ kind \in {"webdav", "dir"}

BackendNext ==
    \/ kind = "webdav" /\ Next /\ UNCHANGED <<kind, dirstate>>
    \/ kind = "dir" /\ Dir!DirNext /\ UNCHANGED <<kind, vars>>

BackendSpec ==
    /\ BackendInit /\ [][BackendNext]_allvars
    /\ \A c \in Clients : WF_vars(Step(c) /\ kind = "webdav")

\* Properties: see WebDAVBackend and DirBackend.
DirImplementsBlobStore == Dir!ImplementsBlobStore
MetaDurable == Dir!MetaDurable
=============================================================================
