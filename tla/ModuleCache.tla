----------------------------- MODULE ModuleCache -----------------------------
(***************************************************************************)
(* The module cache of the WebDAV front end (internal/front/webdav/        *)
(* module_cache.go): requests share the handler of the opened module;      *)
(* while there is none, one request at a time tries to open it, and a      *)
(* failure starts a cooldown.                                              *)
(***************************************************************************)
EXTENDS OpenModule

CONSTANT Cooldown   \* moduleOpenCooldown, in ticks of the clock

ASSUME CacheAssumption == Cooldown \in Nat

VARIABLES
    req,       \* request -> where its goroutine is
    mu,        \* holder of moduleEntry.mu
    handler,   \* whether the handler is there
    cooling,   \* whether cooldownUntil is set: to the start of the failed
    since,     \*   attempt + Cooldown; ticks since the last attempt started
    opens      \* Modules opened by the cache and never closed

cachevars == <<req, mu, handler, cooling, since, opens>>

\* Serve has tried to open the module and listens now.
CacheInit ==
    /\ req = [r \in Requests |-> "none"]
    /\ mu = Nobody
    /\ handler \in BOOLEAN
    /\ opens = IF handler THEN 1 ELSE 0
    /\ cooling = FALSE /\ since = Cooldown

Becomes(r, pc) == req' = [req EXCEPT ![r] = pc]
Cold == cooling /\ since < Cooldown

-----------------------------------------------------------------------------
\* basicAuth let it pass; it is for the module, or for the list of modules.
Arrive(r) ==
    /\ req[r] = "none"
    /\ Becomes(r, "lock") \/ Becomes(r, "names")
    /\ UNCHANGED <<mu, handler, cooling, since, opens, openvars>>

\* names() asks every entry under its lock.
Names(r) ==
    /\ req[r] = "names" /\ mu = Nobody
    /\ Becomes(r, "none")
    /\ UNCHANGED <<mu, handler, cooling, since, opens, openvars>>

\* open: the handler is there.
Cached(r) ==
    /\ req[r] = "lock" /\ mu = Nobody /\ handler
    /\ Becomes(r, "serve")
    /\ UNCHANGED <<mu, handler, cooling, since, opens, openvars>>

RefuseAndWait(r) ==   \* mutant: every refused request prolongs the cooldown
    /\ req[r] = "lock" /\ mu = Nobody /\ ~handler /\ Cold
    /\ Becomes(r, "none") /\ since' = 0
    /\ UNCHANGED <<mu, handler, cooling, opens, openvars>>

\* 503 within the cooldown.
Refuse(r) ==
    /\ req[r] = "lock" /\ mu = Nobody /\ ~handler /\ Cold
    /\ Becomes(r, "none")
    /\ UNCHANGED <<mu, handler, cooling, since, opens, openvars>>

TryUnlocked(r) ==   \* mutant: the entry is unlocked while the module is opened
    /\ req[r] = "lock" /\ mu = Nobody /\ ~handler /\ ~Cold
    /\ Becomes(r, "opening") /\ since' = 0
    /\ BeginOpen(r)
    /\ UNCHANGED <<mu, handler, cooling, opens>>

\* The time is taken before openOne, the lock is held until it returns.
Try(r) ==
    /\ req[r] = "lock" /\ mu = Nobody /\ ~handler /\ ~Cold
    /\ mu' = r /\ Becomes(r, "opening") /\ since' = 0
    /\ BeginOpen(r)
    /\ UNCHANGED <<handler, cooling, opens>>

Ready(r) ==
    /\ req[r] = "opening" /\ stage[r] = "opened"
    /\ handler' = TRUE /\ cooling' = FALSE /\ opens' = opens + 1
    /\ mu' = Nobody /\ Becomes(r, "serve")
    /\ EndOpen(r) /\ UNCHANGED since

NotReadyKeepsLock(r) ==   \* mutant: no unlock on the error path
    /\ req[r] = "opening" /\ stage[r] = "failed"
    /\ cooling' = TRUE /\ Becomes(r, "none")
    /\ EndOpen(r) /\ UNCHANGED <<mu, handler, since, opens>>

\* 503 after a failure.
NotReady(r) ==
    /\ req[r] = "opening" /\ stage[r] = "failed"
    /\ cooling' = TRUE
    /\ mu' = Nobody /\ Becomes(r, "none")
    /\ EndOpen(r) /\ UNCHANGED <<handler, since, opens>>

Serve(r) ==
    /\ req[r] = "serve" /\ Becomes(r, "none")
    /\ UNCHANGED <<mu, handler, cooling, since, opens, openvars>>

Tick ==
    /\ since < Cooldown /\ since' = since + 1
    /\ UNCHANGED <<req, mu, handler, cooling, opens, openvars>>

-----------------------------------------------------------------------------
RequestStep(r) ==
    Names(r) \/ Cached(r) \/ Refuse(r) \/ Try(r) \/ Ready(r) \/ NotReady(r) \/ Serve(r)
RequestNext(r) == Arrive(r) \/ RequestStep(r)

-----------------------------------------------------------------------------
(* Properties.                                                             *)

\* However many requests find the module closed, the cache opens it once; the
\* Module it keeps is never closed, so a second would be lost
\* (module_cache.go:20, the lock held over openOne).
OneOpen == opens <= 1

\* Every request is answered, requests for the list of modules that wait for
\* an attempt to open one included (module_cache.go:58, :88).
RequestsAnswered == \A r \in Requests : req[r] # "none" ~> req[r] = "none"

\* Once opening no longer fails, requests get through for ever, however many
\* are refused during the cooldown (module_cache.go:69).
Answers503(r) == req[r] \in {"lock", "opening"} /\ req'[r] = "none"
ModuleHeals == <>[][\A r \in Requests : ~Answers503(r)]_<<cachevars, openvars>>
=============================================================================
