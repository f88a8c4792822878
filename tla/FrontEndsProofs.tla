--------------------------- MODULE FrontEndsProofs ---------------------------
(***************************************************************************)
(* Proofs about the two front ends, for any number of connections and      *)
(* requests, any limit and any cooldown.                                   *)
(***************************************************************************)
EXTENDS FrontEnds, FiniteSetTheorems, TLAPS

-----------------------------------------------------------------------------
(* Connection slots.  The counter is not the number of connections that    *)
(* use the module: a refused connection has raised it and not lowered it   *)
(* again, and a failed login never gives its slot back.  Counted is what   *)
(* the counter owes to live connections; it bounds the counter from below, *)
(* and without users it is the counter.                                    *)

Counted == Using \union {c \in Conns : At(c, {"rollback"})}

ConnStates == {"closed", "greeting", "module", "allow", "rollback", "auth", "opening", "argv",
               "session", "silent", "release"}

SlotTypes ==
    /\ conn \in [Conns -> ConnStates]
    /\ count \in Int
    /\ limit \in Int
    /\ users \in BOOLEAN

\* With a limit: the counter covers Counted, and Using is within the limit.
Limited ==
    /\ IsFiniteSet(Counted)
    /\ count >= Cardinality(Counted)
    /\ ~users => count = Cardinality(Counted)
    /\ Cardinality(Using) <= limit

SlotsInv ==
    /\ SlotTypes
    /\ limit > 0 => Limited
    /\ limit <= 0 => count = 0 /\ \A c \in Conns : conn[c] # "rollback"
    /\ limit < 0 => Using = {}
    /\ ~users => \A c \in Conns : conn[c] # "auth"

\* SlotsInv is stronger than the two properties.
LEMMA SlotsInvImplies == SlotsInv => LimitRespected /\ SlotsComeBackWithoutAuth
<1> SUFFICES ASSUME SlotsInv PROVE LimitRespected /\ SlotsComeBackWithoutAuth
    OBVIOUS
<1>1. LimitRespected
    <2>1. Using = {} => Cardinality(Using) = 0
        BY FS_EmptySet
    <2>2. QED
        BY <2>1 DEF SlotsInv, SlotTypes, Limited, LimitRespected
<1>2. ASSUME ~users, \A c \in Conns : At(c, {"closed"})
      PROVE  count = 0
    <2>1. Counted = {}
        BY <1>2 DEF Counted, Using, At
    <2>2. Cardinality(Counted) = 0
        BY <2>1, FS_EmptySet
    <2>3. QED
        BY <1>2, <2>2 DEF SlotsInv, SlotTypes, Limited
<1>3. QED
    BY <1>1, <1>2 DEF SlotsComeBackWithoutAuth, SlotsComeBack

\* Nobody is connected when the daemon starts.
LEMMA InitSlots == FrontInit => SlotsInv
<1> SUFFICES ASSUME FrontInit PROVE SlotsInv
    OBVIOUS
<1>1. SlotTypes
    BY DaemonAssumption DEF FrontInit, DaemonInit, SlotTypes, ConnStates
<1>2. Counted = {} /\ Using = {}
    BY DEF FrontInit, DaemonInit, Counted, Using, At
<1>3. IsFiniteSet({}) /\ Cardinality({}) = 0
    BY FS_EmptySet
<1>4. count = 0
    BY DEF FrontInit, DaemonInit
<1>5. limit > 0 => Limited
    BY <1>1, <1>2, <1>3, <1>4 DEF Limited, SlotTypes
<1>6. QED
    BY <1>1, <1>2, <1>4, <1>5 DEF SlotsInv, FrontInit, DaemonInit

\* A connection that enters or leaves a finite set of them.
LEMMA OneMore ==
    ASSUME NEW S, IsFiniteSet(S), NEW c, c \notin S
    PROVE  IsFiniteSet(S \union {c}) /\ Cardinality(S \union {c}) = Cardinality(S) + 1
BY FS_AddElement

\* A finite set without one of its members has one member less.
LEMMA OneLess ==
    ASSUME NEW S, IsFiniteSet(S), NEW c \in S
    PROVE  IsFiniteSet(S \ {c}) /\ Cardinality(S \ {c}) = Cardinality(S) - 1
BY FS_RemoveElement

\* SlotsInv reads no other variables.
LEMMA SlotsFrame ==
    SlotsInv /\ UNCHANGED <<conn, count, limit, users>> => SlotsInv'
BY DEF SlotsInv, SlotTypes, Limited, Counted, Using, At

\* A step between two states on the same side of the counter.
LEMMA SlotsKept ==
    ASSUME SlotsInv, NEW c \in Conns, NEW q \in ConnStates, To(c, q),
           UNCHANGED <<count, limit, users>>,
           Using' = Using, Counted' = Counted, q = "auth" => users, q # "rollback"
    PROVE  SlotsInv'
BY DEF SlotsInv, SlotTypes, Limited, To

\* A connection has one state.
LEMMA OneConn ==
    ASSUME SlotTypes, NEW c \in Conns, NEW q, To(c, q)
    PROVE  /\ conn'[c] = q
           /\ \A d \in Conns : d # c => conn'[d] = conn[d]
BY DEF SlotTypes, To

\* The module admits a connection below the limit.
LEMMA AllowKeepsSlots ==
    ASSUME SlotsInv, NEW c \in Conns, Allow(c), UNCHANGED <<limit, users>>
    PROVE  SlotsInv'
<1> DEFINE admitted == conn'[c] \in {"auth", "opening"}
<1>1. conn[c] = "allow" /\ c \notin Using /\ c \notin Counted
    BY DEF Allow, At, Using, Counted
<1>2. CASE limit = 0
    <2>1. PICK q \in {"auth", "opening"} : To(c, q) /\ (q = "auth" => users)
        BY <1>2 DEF Allow, Admitted
    <2>2. QED
        BY <1>2, <2>1 DEF SlotsInv, SlotTypes, ConnStates, To, Allow
<1>3. CASE limit < 0
    <2>1. To(c, "closed") /\ UNCHANGED count
        BY <1>3 DEF Allow, SlotsInv, SlotTypes
    <2>2. Using' = Using /\ Counted' = Counted
        BY <1>1, <2>1, OneConn DEF SlotsInv, Using, Counted, At
    <2>3. QED
        BY <2>1, <2>2, SlotsKept DEF ConnStates
<1>4. CASE limit > 0 /\ count < limit
    <2>1. PICK q \in {"auth", "opening"} : To(c, q) /\ (q = "auth" => users)
        BY <1>4 DEF Allow, Admitted, SlotsInv, SlotTypes
    <2>2. count' = count + 1
        BY <1>4 DEF Allow, SlotsInv, SlotTypes
    <2>3. Using' = Using \union {c} /\ Counted' = Counted \union {c}
        BY <1>1, <2>1, OneConn DEF SlotsInv, Using, Counted, At
    <2>4. Limited /\ IsFiniteSet(Using) /\ Cardinality(Using) <= Cardinality(Counted)
        BY <1>4, FS_Subset DEF SlotsInv, Limited, Counted
    <2>5. Cardinality(Using) \in Nat /\ Cardinality(Counted) \in Nat
        BY <2>4, FS_CardinalityType DEF Limited
    <2>6. /\ Cardinality(Using') = Cardinality(Using) + 1
          /\ Cardinality(Counted') = Cardinality(Counted) + 1
          /\ IsFiniteSet(Counted')
        BY <1>1, <2>3, <2>4, OneMore DEF Limited
    <2>7. Limited'
        BY <1>4, <2>2, <2>4, <2>5, <2>6 DEF Limited, SlotsInv, SlotTypes
    <2>8. SlotTypes'
        BY <2>1, <2>2 DEF SlotsInv, SlotTypes, To, ConnStates
    <2>9. \A d \in Conns : conn'[d] = "auth" => users
        BY <2>1, OneConn DEF SlotsInv
    <2>10. QED
        BY <1>4, <2>7, <2>8, <2>9 DEF SlotsInv, SlotTypes
<1>5. CASE limit > 0 /\ count >= limit
    <2>1. To(c, "rollback") /\ count' = count + 1
        BY <1>5 DEF Allow, SlotsInv, SlotTypes
    <2>2. Using' = Using /\ Counted' = Counted \union {c}
        BY <1>1, <2>1, OneConn DEF SlotsInv, Using, Counted, At
    <2>3. Limited
        BY <1>5 DEF SlotsInv
    <2>4. Cardinality(Counted) \in Nat
        BY <2>3, FS_CardinalityType DEF Limited
    <2>5. IsFiniteSet(Counted') /\ Cardinality(Counted') = Cardinality(Counted) + 1
        BY <1>1, <2>2, <2>3, OneMore DEF Limited
    <2>6. Limited'
        BY <2>1, <2>2, <2>3, <2>4, <2>5 DEF Limited, SlotsInv, SlotTypes
    <2>7. SlotTypes'
        BY <2>1 DEF SlotsInv, SlotTypes, To, ConnStates
    <2>8. \A d \in Conns : conn'[d] = "auth" => users
        BY <2>1, OneConn DEF SlotsInv
    <2>9. QED
        BY <1>5, <2>6, <2>7, <2>8 DEF SlotsInv, SlotTypes
<1>6. QED
    BY <1>2, <1>3, <1>4, <1>5 DEF SlotsInv, SlotTypes

\* A connection gives back what it had: its count and its use, if any.
LEMMA LeaveKeepsSlots ==
    ASSUME SlotsInv, NEW c \in Conns, c \in Counted, To(c, "closed"),
           UNCHANGED <<limit, users>>,
           limit > 0 => count' = count - 1,
           limit <= 0 => count' = count
    PROVE  SlotsInv'
<1>1. Using' = Using \ {c} /\ Counted' = Counted \ {c}
    BY OneConn DEF SlotsInv, Using, Counted, At
<1>2. ASSUME limit > 0 PROVE Limited'
    <2>1. Limited /\ IsFiniteSet(Using) /\ IsFiniteSet(Using')
        BY <1>1, <1>2, FS_Subset DEF SlotsInv, Limited, Counted
    <2>2. Cardinality(Using) \in Nat /\ Cardinality(Counted) \in Nat
        BY <2>1, FS_CardinalityType DEF Limited
    <2>3. Cardinality(Counted') = Cardinality(Counted) - 1 /\ IsFiniteSet(Counted')
        BY <1>1, <2>1, OneLess DEF Limited
    <2>4. Cardinality(Using') <= Cardinality(Using) /\ Cardinality(Using') \in Nat
        BY <1>1, <2>1, FS_Subset, FS_CardinalityType
    <2>5. QED
        BY <1>2, <2>1, <2>2, <2>3, <2>4 DEF Limited, SlotsInv, SlotTypes
<1>3. SlotTypes'
    BY DEF SlotsInv, SlotTypes, To, ConnStates
<1>4. \A d \in Conns : conn'[d] \in {"auth", "rollback"} => conn'[d] = conn[d]
    BY OneConn DEF SlotsInv
<1>5. QED
    BY <1>1, <1>2, <1>3, <1>4 DEF SlotsInv, SlotTypes

\* A login that fails: the connection is gone, its count stays.
LEMMA LoginFailsKeepsSlots ==
    ASSUME SlotsInv, NEW c \in Conns, conn[c] = "auth", To(c, "closed"),
           UNCHANGED <<count, limit, users>>
    PROVE  SlotsInv'
<1>1. Using' = Using \ {c} /\ Counted' = Counted \ {c} /\ c \in Counted
    BY OneConn DEF SlotsInv, Using, Counted, At
<1>2. users
    BY DEF SlotsInv, SlotTypes
<1>3. ASSUME limit > 0 PROVE Limited'
    <2>1. Limited /\ IsFiniteSet(Using)
        BY <1>3, FS_Subset DEF SlotsInv, Limited, Counted
    <2>2. Cardinality(Using) \in Nat /\ Cardinality(Counted) \in Nat
        BY <2>1, FS_CardinalityType DEF Limited
    <2>3. Cardinality(Counted') = Cardinality(Counted) - 1 /\ IsFiniteSet(Counted')
        BY <1>1, <2>1, OneLess DEF Limited
    <2>4. Cardinality(Using') <= Cardinality(Using) /\ Cardinality(Using') \in Nat
        BY <1>1, <2>1, FS_Subset, FS_CardinalityType
    <2>5. QED
        BY <1>2, <2>1, <2>2, <2>3, <2>4 DEF Limited, SlotsInv, SlotTypes
<1>4. SlotTypes' /\ \A d \in Conns : conn'[d] = "rollback" => conn'[d] = conn[d]
    BY OneConn DEF SlotsInv, SlotTypes, To, ConnStates
<1>5. QED
    BY <1>1, <1>2, <1>3, <1>4 DEF SlotsInv, SlotTypes

\* Every step of a connection keeps the counter right.
LEMMA ConnKeepsSlots ==
    ASSUME SlotsInv, NEW c \in Conns, ConnNext(c)
    PROVE  SlotsInv'
<1> DEFINE outside == {"closed", "greeting", "module", "allow"}
           inside  == {"opening", "argv", "session", "silent", "release"}
<1>1. UNCHANGED <<limit, users>>
    BY DEF ConnNext
<1>2. ASSUME NEW q \in outside, conn[c] \in outside, To(c, q), UNCHANGED count
      PROVE  SlotsInv'
    <2>1. Using' = Using /\ Counted' = Counted
        BY <1>2, OneConn DEF SlotsInv, Using, Counted, At
    <2>2. QED
        BY <1>1, <1>2, <2>1, SlotsKept DEF ConnStates
<1>3. ASSUME NEW q \in inside, conn[c] \in inside \union {"auth"}, To(c, q), UNCHANGED count
      PROVE  SlotsInv'
    <2>1. Using' = Using /\ Counted' = Counted
        BY <1>3, OneConn DEF SlotsInv, Using, Counted, At
    <2>2. QED
        BY <1>1, <1>3, <2>1, SlotsKept DEF ConnStates
<1>4. CASE Accept(c) \/ Greeting(c) \/ ModuleLine(c)
    BY <1>2, <1>4 DEF Accept, Greeting, ModuleLine, At
<1>5. CASE Argv(c) \/ Session(c) \/ Opened(c)
    BY <1>3, <1>5 DEF Argv, Session, Opened, At
<1>6. CASE AuthLine(c)
    BY <1>1, <1>3, <1>6, LoginFailsKeepsSlots DEF AuthLine, At
<1>7. CASE Allow(c)
    BY <1>1, <1>7, AllowKeepsSlots
<1>8. CASE Rollback(c) \/ Release(c)
    <2>1. c \in Counted /\ To(c, "closed")
        BY <1>8 DEF Rollback, Release, At, Counted, Using
    <2>2. limit > 0 => count' = count - 1
        BY <1>8 DEF Rollback, Release
    <2>3. limit <= 0 => count' = count
        BY <1>8 DEF Rollback, Release, SlotsInv, SlotTypes, At
    <2>4. QED
        BY <1>1, <2>1, <2>2, <2>3, LeaveKeepsSlots
<1>9. CASE ReadFails(c)
    BY <1>1, <1>2, <1>3, <1>9, LoginFailsKeepsSlots DEF ReadFails, At
<1>10. QED
    BY <1>4, <1>5, <1>6, <1>7, <1>8, <1>9 DEF ConnNext, ConnStep

\* No step of the daemon makes the counter wrong.
LEMMA NextSlots == SlotsInv /\ [FrontNext]_frontvars => SlotsInv'
<1> SUFFICES ASSUME SlotsInv, [FrontNext]_frontvars PROVE SlotsInv'
    OBVIOUS
<1>1. CASE \E c \in Conns : ConnNext(c)
    BY <1>1, ConnKeepsSlots
<1>2. CASE UNCHANGED daemonvars
    BY <1>2, SlotsFrame DEF daemonvars
<1>3. QED
    BY <1>1, <1>2 DEF FrontNext, frontvars

\* The accounting of slots holds in every reachable state.
LEMMA SlotsAlways == FrontSpec => []SlotsInv
BY InitSlots, NextSlots, PTL DEF FrontSpec

\* However connections come, are refused, log in, stall and end, no more than
\* the limit use the module, and none use a disabled one: allow admits below
\* the limit only, and the counter never falls below the connections that
\* are counted, the rollback of a refused one included (server.go:172-198).
THEOREM FrontLimitRespected == FrontSpec => []LimitRespected
BY SlotsAlways, SlotsInvImplies, PTL

\* Without users every slot comes back: the counter is the number of counted
\* connections at every moment, so it is 0 when all are closed.
THEOREM FrontSlotsComeBack == FrontSpec => []SlotsComeBackWithoutAuth
BY SlotsAlways, SlotsInvImplies, PTL

-----------------------------------------------------------------------------
(* The module cache.  The entry's lock is held from the check that there   *)
(* is no handler until there is one.                                       *)

RequestStates == {"none", "lock", "names", "opening", "serve"}

CacheInv ==
    /\ req \in [Requests -> RequestStates]
    /\ handler \in BOOLEAN
    /\ opens = IF handler THEN 1 ELSE 0
    /\ \A r \in Requests : req[r] = "opening" => mu = r /\ ~handler

\* Serve starts the cache with the module it opened, or with none.
LEMMA InitCache == FrontInit => CacheInv
BY DEF FrontInit, CacheInit, CacheInv, RequestStates

\* A request that opens nothing and finishes no attempt.
LEMMA BystanderKeepsCache ==
    ASSUME CacheInv, NEW r \in Requests, NEW q \in RequestStates \ {"opening"}, Becomes(r, q),
           UNCHANGED <<mu, handler, opens>>
    PROVE  CacheInv'
BY DEF CacheInv, Becomes, RequestStates

\* No step of a request opens a second Module.
LEMMA RequestKeepsCache ==
    ASSUME CacheInv, NEW r \in Requests, RequestNext(r)
    PROVE  CacheInv'
<1>1. CASE Arrive(r) \/ Names(r) \/ Cached(r) \/ Refuse(r) \/ Serve(r)
    BY <1>1, BystanderKeepsCache DEF Arrive, Names, Cached, Refuse, Serve, RequestStates
<1>2. CASE Try(r)
    <2>1. mu = Nobody /\ Nobody \notin Requests
        BY <1>2, OpenAssumption DEF Try, Openers
    <2>2. \A s \in Requests : req[s] # "opening"
        BY <2>1 DEF CacheInv
    <2>3. QED
        BY <1>2, <2>2 DEF Try, CacheInv, Becomes, RequestStates
<1>3. CASE Ready(r) \/ NotReady(r)
    <2>1. \A s \in Requests : req[s] = "opening" => s = r
        BY <1>3 DEF Ready, NotReady, CacheInv
    <2>2. CASE Ready(r)
        BY <2>1, <2>2 DEF Ready, CacheInv, Becomes, RequestStates
    <2>3. CASE NotReady(r)
        BY <2>1, <2>3 DEF NotReady, CacheInv, Becomes, RequestStates
    <2>4. QED
        BY <1>3, <2>2, <2>3
<1>4. QED
    BY <1>1, <1>2, <1>3 DEF RequestNext, RequestStep

\* Every step of the front ends keeps at most one open module.
LEMMA NextCache == CacheInv /\ [FrontNext]_frontvars => CacheInv'
<1> SUFFICES ASSUME CacheInv, [FrontNext]_frontvars PROVE CacheInv'
    OBVIOUS
<1>1. CASE \E r \in Requests : RequestNext(r)
    BY <1>1, RequestKeepsCache
<1>2. CASE Tick \/ UNCHANGED cachevars
    BY <1>2 DEF Tick, CacheInv, cachevars
<1>3. QED
    BY <1>1, <1>2 DEF FrontNext, frontvars

\* However many requests find the module closed, and however often opening it
\* fails, the cache never opens a second Module: nobody else can find the
\* handler missing while the lock is held over openOne (module_cache.go:58-85).
THEOREM FrontOneOpen == FrontSpec => []OneOpen
<1>1. CacheInv => OneOpen
    BY DEF CacheInv, OneOpen
<1>2. QED
    BY <1>1, InitCache, NextCache, PTL DEF FrontSpec
=============================================================================
