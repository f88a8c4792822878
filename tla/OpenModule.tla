----------------------------- MODULE OpenModule -----------------------------
(***************************************************************************)
(* How the front ends of the daemon share core.OpenModule (internal/core/  *)
(* open.go): every rsync connection and the WebDAV module cache open the   *)
(* module for themselves; one at a time passes ensureModuleReady, whose    *)
(* inside is module ModuleInit.                                            *)
(***************************************************************************)
EXTENDS Integers, FiniteSets

CONSTANTS
    Conns,           \* rsync connections
    Requests,        \* WebDAV requests
    Nobody,
    MaxOpenFaults    \* bound: opens that fail

Openers == Conns \union Requests

ASSUME OpenAssumption ==
    /\ Conns \intersect Requests = {} /\ Nobody \notin Openers
    /\ MaxOpenFaults \in Nat

VARIABLES
    stage,       \* opener -> how far its OpenModule is
    initMutex,   \* holder of the module's entry in moduleInitMutexes
    openFaults

openvars == <<stage, initMutex, openFaults>>

OpenInit ==
    /\ stage = [o \in Openers |-> "none"]
    /\ initMutex = Nobody
    /\ openFaults = 0

BeginOpen(o) == stage' = [stage EXCEPT ![o] = "ping"] /\ UNCHANGED <<initMutex, openFaults>>
EndOpen(o)   == stage' = [stage EXCEPT ![o] = "none"] /\ UNCHANGED <<initMutex, openFaults>>

\* openBackend and Ping are done; ensureModuleReady takes the mutex.
LockInit(o) ==
    /\ stage[o] = "ping" /\ initMutex = Nobody
    /\ stage' = [stage EXCEPT ![o] = "ready"] /\ initMutex' = o
    /\ UNCHANGED openFaults

\* The mutex is free again; the key file and the Meta file are opened, a
\* Repo is made, without meeting anybody.
ModuleReady(o) ==
    /\ stage[o] = "ready"
    /\ stage' = [stage EXCEPT ![o] = "opened"] /\ initMutex' = Nobody
    /\ UNCHANGED openFaults

OpenFails(o) ==
    /\ stage[o] \in {"ping", "ready"}
    /\ openFaults < MaxOpenFaults /\ openFaults' = openFaults + 1
    /\ stage' = [stage EXCEPT ![o] = "failed"]
    /\ initMutex' = IF initMutex = o THEN Nobody ELSE initMutex

OpenStep(o) == LockInit(o) \/ ModuleReady(o)
=============================================================================
