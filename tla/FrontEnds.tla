------------------------------ MODULE FrontEnds ------------------------------
(***************************************************************************)
(* crysyncd with its two front ends and one module (cmd/crysyncd/main.go): *)
(* rsync connections and WebDAV requests meet in OpenModule.               *)
(***************************************************************************)
EXTENDS RsyncDaemon, ModuleCache

frontvars == <<openvars, daemonvars, cachevars>>

FrontInit == OpenInit /\ DaemonInit /\ CacheInit

FrontNext ==
    \/ \E c \in Conns : ConnNext(c) /\ UNCHANGED cachevars
    \/ \E r \in Requests : RequestNext(r) /\ UNCHANGED daemonvars
    \/ Tick /\ UNCHANGED daemonvars
    \/ \E o \in Openers : (OpenStep(o) \/ OpenFails(o)) /\ UNCHANGED <<daemonvars, cachevars>>

\* Goroutines run, calls of OpenModule return, deadlines and the clock
\* advance.  Strong fairness is for the steps that take a sync.Mutex (its
\* starvation mode serves who waits, although others come and go); every
\* other step stays enabled until it is taken.  Clients owe nothing.
Fairness ==
    /\ \A c \in Conns :
        SF_frontvars(\/ ConnStep(c) /\ UNCHANGED <<limit, users, cachevars>>
                     \/ OpenStep(c) /\ UNCHANGED <<daemonvars, cachevars>>)
    /\ \A r \in Requests :
        SF_frontvars(\/ RequestStep(r) /\ UNCHANGED daemonvars
                     \/ OpenStep(r) /\ UNCHANGED <<daemonvars, cachevars>>)
    /\ WF_frontvars(Tick /\ UNCHANGED daemonvars)

FrontSpec == FrontInit /\ [][FrontNext]_frontvars /\ Fairness
=============================================================================
