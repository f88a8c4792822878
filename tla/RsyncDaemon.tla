----------------------------- MODULE RsyncDaemon -----------------------------
(***************************************************************************)
(* A connection to the rsync front end (internal/front/rsync/server.go,    *)
(* protocol/handshake.go, protocol/timeout.go) from accept to close: the   *)
(* text handshake, the connection slots of the module, authentication,     *)
(* OpenModule, the arguments, the session (module RsyncSession) and the    *)
(* deadlines that end each of them.                                        *)
(***************************************************************************)
EXTENDS OpenModule

CONSTANT MaxConnections   \* of a module whose connections are limited

ASSUME DaemonAssumption == MaxConnections \in Nat \ {0}

VARIABLES
    conn,     \* connection -> where its goroutine is
    count,    \* moduleConnLimiter.counts of the module
    limit,    \* ModuleConfig.MaxConnections: 0 no limit, negative disabled
    users     \* whether Auth.Users is configured

daemonvars == <<conn, count, limit, users>>

DaemonInit ==
    /\ conn = [c \in Conns |-> "closed"]
    /\ count = 0
    /\ limit \in {-1, 0, MaxConnections}
    /\ users \in BOOLEAN

At(c, S)  == conn[c] \in S
To(c, pc) == conn' = [conn EXCEPT ![c] = pc]

-----------------------------------------------------------------------------
(* HandleModuleRequest.                                                    *)

Accept(c) == At(c, {"closed"}) /\ To(c, "greeting") /\ UNCHANGED <<count, openvars>>

\* The client's greeting is refused, or it is its turn to name a module.
Greeting(c) ==
    /\ At(c, {"greeting"})
    /\ To(c, "closed") \/ To(c, "module")
    /\ UNCHANGED <<count, openvars>>

\* A request for the list, an unknown command or module; or the module.
ModuleLine(c) ==
    /\ At(c, {"module"})
    /\ To(c, "closed") \/ To(c, "allow")
    /\ UNCHANGED <<count, openvars>>

\* With users configured a challenge is sent; without, OK and OpenModule.
Admitted(c) ==
    \/ users /\ To(c, "auth") /\ UNCHANGED openvars
    \/ ~users /\ To(c, "opening") /\ BeginOpen(c)

\* moduleConnLimiter.allow
Allow(c) ==
    /\ At(c, {"allow"})
    /\ \/ limit = 0 /\ Admitted(c) /\ UNCHANGED count
       \/ limit < 0 /\ To(c, "closed") /\ UNCHANGED <<count, openvars>>
       \/ limit > 0 /\ count < limit /\ count' = count + 1 /\ Admitted(c)
       \/ limit > 0 /\ count >= limit /\ count' = count + 1 /\ To(c, "rollback") /\ UNCHANGED openvars

RollbackTwice(c) ==   \* mutant: the refused connection is released as well
    /\ At(c, {"rollback"})
    /\ count' = count - 2 /\ To(c, "closed")
    /\ UNCHANGED openvars

\* The counter was raised too far: lowered again by an addition of its own.
Rollback(c) ==
    /\ At(c, {"rollback"})
    /\ count' = count - 1 /\ To(c, "closed")
    /\ UNCHANGED openvars

\* A wrong answer to the challenge returns before release is deferred.
AuthLine(c) ==
    /\ At(c, {"auth"})
    /\ \/ To(c, "opening") /\ BeginOpen(c)
       \/ To(c, "closed") /\ UNCHANGED openvars
    /\ UNCHANGED count

-----------------------------------------------------------------------------
(* handleConn from the deferred release on, and RunSessionWithReader.      *)

Opened(c) ==
    /\ At(c, {"opening"})
    /\ \/ stage[c] = "opened" /\ To(c, "argv")
       \/ stage[c] = "failed" /\ To(c, "release")
    /\ EndOpen(c) /\ UNCHANGED count

\* The arguments are refused or the session begins, with deadlines of its own.
Argv(c) ==
    /\ At(c, {"argv"})
    /\ To(c, "release") \/ To(c, "session")
    /\ UNCHANGED <<count, openvars>>

\* The session comes to its end, or its client falls silent.
Session(c) ==
    /\ At(c, {"session"})
    /\ To(c, "release") \/ To(c, "silent")
    /\ UNCHANGED <<count, openvars>>

ReleaseSkipped(c) ==   \* mutant: release is not deferred
    /\ At(c, {"release"})
    /\ To(c, "closed") /\ UNCHANGED <<count, openvars>>

Release(c) ==
    /\ At(c, {"release"})
    /\ count' = IF limit > 0 THEN count - 1 ELSE count
    /\ To(c, "closed")
    /\ UNCHANGED openvars

GreetingDeadline(c) ==   \* mutant: the 60 s apply to the greeting only
    /\ \/ At(c, {"greeting"}) /\ To(c, "closed")
       \/ At(c, {"silent"}) /\ To(c, "release")
    /\ UNCHANGED <<count, openvars>>

\* A client that closes, or sends nothing until the deadline: 60 s for the
\* whole handshake, then 24 hours or --timeout since the last frame.
ReadFails(c) ==
    /\ \/ At(c, {"greeting", "module", "auth"}) /\ To(c, "closed")
       \/ At(c, {"argv", "silent"}) /\ To(c, "release")
    /\ UNCHANGED <<count, openvars>>

-----------------------------------------------------------------------------
ConnStep(c) ==
    \/ Allow(c) \/ Rollback(c) \/ Opened(c) \/ Release(c) \/ ReadFails(c)

ConnNext(c) ==
    /\ \/ Accept(c) \/ Greeting(c) \/ ModuleLine(c) \/ AuthLine(c) \/ Argv(c) \/ Session(c)
       \/ ConnStep(c)
    /\ UNCHANGED <<limit, users>>

-----------------------------------------------------------------------------
(* Properties.                                                             *)

\* However connections come, are refused and end, no more than the limit use
\* the module at once, and none when it is disabled (server.go:172-187).
Using == {c \in Conns : At(c, {"auth", "opening", "argv", "session", "silent", "release"})}
LimitRespected == limit # 0 => Cardinality(Using) <= IF limit < 0 THEN 0 ELSE limit

\* Every slot taken comes back: once all connections are closed the whole
\* limit is free again (server.go:166-167: allow is paired with release by
\* handleConn's defer).
SlotsComeBack == (\A c \in Conns : At(c, {"closed"})) => count = 0

\* So it is when no users are configured, and nothing can end a connection
\* between allow and the deferred release.
SlotsComeBackWithoutAuth == ~users => SlotsComeBack

\* A client that stalls does not keep its goroutine: whatever line it owes,
\* the handshake ends, and so does a session whose client fell silent
\* (server.go:200-203, timeout.go:63-76).
StalledClientsLeave ==
    \A c \in Conns : ~At(c, {"closed", "session"}) ~> At(c, {"closed", "session"})
=============================================================================
