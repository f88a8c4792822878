--------------------------- MODULE PipelineProofs ---------------------------
(***************************************************************************)
(* The upload pipeline, for any number of requests, workers and slots and  *)
(* bodies of any length: the limiter is exact, a failed request leaves no  *)
(* rows, and a successful one has committed its whole body in order.       *)
(*                                                                         *)
(* Requests meet only in the limiter, so all but the count of its slots is *)
(* a statement about one request record (ReqOk).  Its core is CoverPart:   *)
(* while nothing has gone wrong every block read so far is on its way, in  *)
(* the producer's hand, in jobCh, with a worker or in refsByIdx.           *)
(***************************************************************************)
EXTENDS PutPipeline, FiniteSetTheorems, TLAPS

BlockSet  == [idx : Nat, whole : BOOLEAN]
WorkerSet == [pc : {"exited", "take", "store", "report", "fail"}, block : BlockSet, new : BOOLEAN]
ReqTyped(q) ==
    q \in [pc : {"idle", "collect", "commit", "ok", "failed"},
           body : Nat, read : Nat, closed : BOOLEAN,
           prod : {"acquire", "wait", "read", "send", "done"}, hand : BlockSet,
           next : {"acquire", "done", "error"}, jobs : Seq(BlockSet),
           work : [Workers -> WorkerSet], refs : {q.refs}, new : SUBSET Nat,
           err : BOOLEAN, errCh : BOOLEAN, cancelled : BOOLEAN, stopped : BOOLEAN,
           rows : SUBSET Nat]

\* A worker with a block.
Busy(w) == w.pc \in {"store", "report", "fail"}

\* A request that does not collect has no goroutines; a worker leaves when
\* there is nothing left to take, now and later.
LeavePart(q) ==
    /\ q.pc # "collect" => /\ q.prod = "done" /\ q.jobs = << >>
                           /\ \A k \in Workers : q.work[k].pc = "exited"
    /\ (\E k \in Workers : q.work[k].pc = "exited") => q.jobs = << >> /\ q.prod = "done"
    /\ Len(q.jobs) <= Capacity

\* Nothing has gone wrong yet.
Clean(q) == ~q.err /\ ~q.errCh /\ ~q.cancelled

\* The producer has ended without an error only at the end of the body.
ProducerPart(q) ==
    /\ q.stopped => q.err
    /\ q.prod = "send" =>
        /\ q.hand.idx = q.read /\ q.read # 0
        /\ BodyMayBreak \/ q.hand.whole \/ q.next = "error"
        /\ q.next = "done" => BodyMayBreak \/ q.read = q.body
    /\ q.prod # "done" => ~q.errCh
    /\ q.prod = "done" /\ q.pc = "collect" /\ Clean(q) => BodyMayBreak \/ q.read = q.body

\* A block is as it was cut: one of those read, and whole but for the last
\* one before an error.
Sound(b, q) == b.idx \in 1 .. q.read /\ (BodyMayBreak \/ b.whole \/ q.errCh)
KeptPart(q) ==
    /\ \A j \in 1 .. Len(q.jobs) : Sound(q.jobs[j], q)
    /\ \A k \in Workers : Busy(q.work[k]) => Sound(q.work[k].block, q)
    /\ DOMAIN q.refs \subseteq 1 .. q.read /\ q.refs \in [DOMAIN q.refs -> BlockSet]
    /\ \A i \in DOMAIN q.refs : q.refs[i].idx = i /\ Sound(q.refs[i], q)

\* Where block i can be.
Handed(q, i)   == q.prod = "send" /\ i = q.read
Waiting(q, i)  == \E j \in 1 .. Len(q.jobs) : q.jobs[j].idx = i
AtWorker(q, i) == \E k \in Workers : Busy(q.work[k]) /\ q.work[k].block.idx = i
CoverPart(q) ==
    q.pc = "collect" /\ Clean(q) => \A i \in 1 .. q.read :
        Handed(q, i) \/ Waiting(q, i) \/ AtWorker(q, i) \/ i \in DOMAIN q.refs

\* A row that was inserted is known to the collector or about to be reported.
RowsPart(q) == \A i \in q.rows :
    i \in q.new \/ \E k \in Workers : /\ q.work[k].pc = "report" /\ q.work[k].new
                                      /\ q.work[k].block.idx = i
EndPart(q) ==
    /\ q.pc \in {"commit", "ok"} => BodyMayBreak \/ q.refs = [i \in 1 .. q.body |-> Block(i, TRUE)]
    /\ q.pc = "failed" => q.rows = {}

ReqOk(q) ==
    /\ ReqTyped(q) /\ LeavePart(q) /\ ProducerPart(q) /\ KeptPart(q) /\ CoverPart(q)
    /\ RowsPart(q) /\ EndPart(q)

PipelineInv ==
    /\ req = [r \in Requests |-> req[r]]
    /\ \A r \in Requests : ReqOk(req[r])
    /\ sem \in Int /\ others \in Nat
    /\ SlotsExact

-----------------------------------------------------------------------------
\* What the theorems state is a part of the invariant.
LEMMA PipelineInvImplies ==
    PipelineInv => /\ SlotsExact /\ FailureLeavesNoRows
                   /\ BodyMayBreak \/ CommitsWholeBody
BY DEF PipelineInv, ReqOk, EndPart, FailureLeavesNoRows, CommitsWholeBody

\* The capacity of the pool is a number.
LEMMA CapacityTyped == Capacity \in Nat
BY PipelineAssumption, FS_CardinalityType DEF Capacity

\* A request that is not there.
LEMMA IdleOk == ReqOk(Idle)
<1>1. /\ Idle.pc = "idle" /\ Idle.body = 0 /\ Idle.read = 0 /\ Idle.prod = "done"
      /\ Idle.jobs = << >> /\ Idle.refs = << >> /\ Idle.new = {} /\ Idle.rows = {}
      /\ Idle.stopped = FALSE /\ Idle.errCh = FALSE
      /\ Idle.work = [k \in Workers |-> IdleWorker]
    BY DEF Idle
<1>2. NoBlock \in BlockSet
    BY DEF NoBlock, Block, BlockSet
<1>3. IdleWorker \in WorkerSet /\ IdleWorker.pc = "exited"
    BY <1>2 DEF IdleWorker, WorkerSet
<1>4. << >> \in Seq(BlockSet) /\ Len(<< >>) = 0 /\ DOMAIN << >> = {}
    OBVIOUS
<1>5. ReqTyped(Idle)
    BY <1>2, <1>3 DEF ReqTyped, Idle
<1>6. LeavePart(Idle)
    BY <1>1, <1>3, <1>4, CapacityTyped DEF LeavePart
<1>7. ProducerPart(Idle)
    BY <1>1 DEF ProducerPart
<1>8. KeptPart(Idle)
    <2>1. \A k \in Workers : ~Busy(Idle.work[k])
        BY <1>1, <1>3 DEF Busy
    <2>2. Idle.refs \in [DOMAIN Idle.refs -> BlockSet]
        BY <1>1, <1>4
    <2>3. QED
        BY <1>1, <1>4, <2>1, <2>2 DEF KeptPart
<1>9. CoverPart(Idle) /\ RowsPart(Idle) /\ EndPart(Idle)
    BY <1>1 DEF CoverPart, RowsPart, EndPart
<1>10. QED
    BY <1>5, <1>6, <1>7, <1>8, <1>9 DEF ReqOk

-----------------------------------------------------------------------------
(* One request, action by action.                                          *)

SameResults(p, q) == /\ p.refs = q.refs /\ p.new = q.new /\ p.rows = q.rows
                     /\ p.err = q.err /\ p.stopped = q.stopped
SameWorkers(p, q) == p.jobs = q.jobs /\ p.work = q.work
SameReading(p, q) == p.body = q.body /\ p.read = q.read
SameProducer(p, q) == /\ SameReading(p, q) /\ p.prod = q.prod /\ p.hand = q.hand
                      /\ p.next = q.next /\ p.errCh = q.errCh
SameRequest(p, q) == p.pc = q.pc /\ p.cancelled = q.cancelled

\* Start: the goroutines of a new request.
LEMMA StartOk ==
    ASSUME NEW n \in 0 .. MaxBlocks,
           NEW p, p = [Idle EXCEPT !.pc = "collect", !.body = n, !.prod = "acquire",
                           !.work = [k \in Workers |-> [IdleWorker EXCEPT !.pc = "take"]]]
    PROVE  ReqOk(p)
<1>1. n \in Nat
    BY PipelineAssumption
<1>2. NoBlock \in BlockSet
    BY DEF NoBlock, Block, BlockSet
<1>3. [IdleWorker EXCEPT !.pc = "take"] \in WorkerSet /\ [IdleWorker EXCEPT !.pc = "take"].pc = "take"
    BY <1>2 DEF IdleWorker, WorkerSet
<1>4. /\ p.pc = "collect" /\ p.body = n /\ p.read = 0 /\ p.prod = "acquire"
      /\ p.jobs = << >> /\ p.refs = << >> /\ p.new = {} /\ p.rows = {}
      /\ p.stopped = FALSE /\ p.errCh = FALSE
      /\ p.work = [k \in Workers |-> [IdleWorker EXCEPT !.pc = "take"]]
    BY DEF Idle
<1>5. << >> \in Seq(BlockSet) /\ Len(<< >>) = 0 /\ DOMAIN << >> = {}
    OBVIOUS
<1>6. ReqTyped(p)
    <2>1. ReqTyped(Idle)
        BY IdleOk DEF ReqOk
    <2>2. [k \in Workers |-> [IdleWorker EXCEPT !.pc = "take"]] \in [Workers -> WorkerSet]
        BY <1>3
    <2>3. QED
        BY <1>1, <2>1, <2>2 DEF ReqTyped
<1>7. \A k \in Workers : p.work[k].pc = "take"
    BY <1>3, <1>4
<1>8. LeavePart(p)
    BY <1>4, <1>5, <1>7, CapacityTyped DEF LeavePart
<1>9. ProducerPart(p)
    BY <1>1, <1>4 DEF ProducerPart
<1>10. KeptPart(p)
    <2>1. p.refs = Idle.refs
        BY <1>4 DEF Idle
    <2>2. p.refs \in [DOMAIN p.refs -> BlockSet]
        BY <2>1, IdleOk DEF ReqOk, KeptPart
    <2>3. QED
        BY <1>4, <1>5, <1>7, <2>2 DEF KeptPart, Busy
<1>11. CoverPart(p) /\ RowsPart(p) /\ EndPart(p)
    BY <1>4 DEF CoverPart, RowsPart, EndPart
<1>12. QED
    BY <1>6, <1>8, <1>9, <1>10, <1>11 DEF ReqOk

\* Cancel: the client goes away.
LEMMA CancelOk ==
    ASSUME NEW q, ReqOk(q), NEW p, p = [q EXCEPT !.cancelled = TRUE, !.closed = TRUE]
    PROVE  ReqOk(p)
<1>1. /\ p.pc = q.pc /\ p.cancelled /\ SameProducer(p, q) /\ SameWorkers(p, q) /\ SameResults(p, q)
    BY DEF ReqOk, ReqTyped, SameProducer, SameReading, SameWorkers, SameResults
<1>2. ReqTyped(p)
    BY DEF ReqOk, ReqTyped
<1>3. QED
    BY <1>1, <1>2 DEF ReqOk, LeavePart, ProducerPart, KeptPart, Sound, CoverPart, Clean, RowsPart,
       EndPart, SameProducer, SameReading, SameWorkers, SameResults

\* CheckCancelled, TakeSlot and a read of nothing: the producer goes on, ends
\* with an error, or ends at the end of the body.
LEMMA ProducerMovesOk ==
    ASSUME NEW q, ReqOk(q), q.prod \in {"acquire", "wait", "read"},
           NEW a, NEW e \in BOOLEAN, NEW p, p = [q EXCEPT !.prod = a, !.errCh = e],
           \/ a \in {"wait", "read"} /\ ~e
           \/ a = "done" /\ (e \/ BodyMayBreak \/ q.read = q.body)
    PROVE  ReqOk(p)
<1>1. /\ p.prod = a /\ p.errCh = e /\ SameReading(p, q) /\ SameRequest(p, q)
      /\ SameWorkers(p, q) /\ SameResults(p, q)
    BY DEF ReqOk, ReqTyped, SameReading, SameRequest, SameWorkers, SameResults
<1>2. ReqTyped(p)
    BY DEF ReqOk, ReqTyped
<1>3. LeavePart(p)
    BY <1>1 DEF ReqOk, LeavePart, SameRequest, SameWorkers
<1>4. ~q.errCh
    BY DEF ReqOk, ProducerPart
<1>5. ProducerPart(p)
    BY <1>1 DEF ReqOk, ProducerPart, Clean, SameReading, SameRequest, SameResults
<1>6. KeptPart(p)
    BY <1>1, <1>4 DEF ReqOk, KeptPart, Sound, SameReading, SameWorkers, SameResults
<1>7. CoverPart(p)
    <2>1. \A i : ~Handed(q, i)
        BY DEF Handed
    <2>2. \A i : (Waiting(p, i) <=> Waiting(q, i)) /\ (AtWorker(p, i) <=> AtWorker(q, i))
        BY <1>1 DEF Waiting, AtWorker, SameWorkers
    <2>3. Clean(p) => Clean(q)
        BY <1>1, <1>4 DEF Clean, SameRequest, SameResults
    <2>4. QED
        BY <1>1, <2>1, <2>2, <2>3 DEF ReqOk, CoverPart, SameReading, SameRequest, SameResults
<1>8. RowsPart(p) /\ EndPart(p)
    BY <1>1 DEF ReqOk, RowsPart, EndPart, SameReading, SameRequest, SameWorkers, SameResults
<1>9. QED
    BY <1>2, <1>3, <1>5, <1>6, <1>7, <1>8 DEF ReqOk

\* Read: a block is cut.
LEMMA GotBlockOk ==
    ASSUME NEW q, ReqOk(q), q.prod = "read", NEW whole \in BOOLEAN,
           NEW next \in {"acquire", "done", "error"}, q.read < q.body,
           BodyMayBreak \/ whole \/ next = "error",
           next = "done" => BodyMayBreak \/ q.read + 1 = q.body,
           NEW b, b = Block(q.read + 1, whole),
           NEW p, p = [q EXCEPT !.read = @ + 1, !.prod = "send", !.next = next, !.hand = b]
    PROVE  ReqOk(p)
<1>1. q.read \in Nat /\ q.body \in Nat
    BY DEF ReqOk, ReqTyped
<1>2. b \in BlockSet /\ b.idx = q.read + 1 /\ b.whole = whole
    BY <1>1 DEF Block, BlockSet
<1>3. /\ p.read = q.read + 1 /\ p.body = q.body /\ p.prod = "send" /\ p.next = next
      /\ p.hand.idx = q.read + 1 /\ p.hand.whole = whole /\ p.errCh = q.errCh
      /\ SameRequest(p, q) /\ SameWorkers(p, q) /\ SameResults(p, q)
    BY <1>2 DEF ReqOk, ReqTyped, SameRequest, SameWorkers, SameResults
<1>4. ReqTyped(p)
    <2>1. q.read + 1 \in Nat /\ b \in BlockSet /\ ReqTyped(q)
        BY <1>1, <1>2 DEF ReqOk
    <2> DEFINE n == q.read + 1
    <2>2. p = [q EXCEPT !.read = n, !.prod = "send", !.next = next, !.hand = b]
        OBVIOUS
    <2>3. n \in Nat
        BY <2>1
    <2> HIDE DEF n
    <2>4. QED
        BY <2>1, <2>2, <2>3, ZenonT(30) DEF ReqTyped
<1>5. LeavePart(p)
    BY <1>3 DEF ReqOk, LeavePart, SameRequest, SameWorkers
<1>6. ProducerPart(p)
    BY <1>1, <1>3 DEF ReqOk, ProducerPart, Clean, SameRequest, SameResults
<1>7. KeptPart(p)
    <2>1. \A d : Sound(d, q) => Sound(d, p)
        BY <1>1, <1>3 DEF Sound
    <2>2. 1 .. q.read \subseteq 1 .. p.read
        BY <1>1, <1>3
    <2>3. QED
        BY <1>3, <2>1, <2>2 DEF ReqOk, KeptPart, SameWorkers, SameResults
<1>8. CoverPart(p)
    <2> SUFFICES ASSUME p.pc = "collect", Clean(p), NEW i \in 1 .. p.read
                 PROVE  Handed(p, i) \/ Waiting(p, i) \/ AtWorker(p, i) \/ i \in DOMAIN p.refs
        BY DEF CoverPart
    <2>1. CASE i = p.read
        BY <1>3, <2>1 DEF Handed
    <2>2. CASE i # p.read
        <3>1. i \in 1 .. q.read
            BY <1>1, <1>3, <2>2
        <3>2. q.pc = "collect" /\ Clean(q)
            BY <1>3 DEF Clean, SameRequest, SameResults
        <3>3. Waiting(q, i) \/ AtWorker(q, i) \/ i \in DOMAIN q.refs
            BY <3>1, <3>2 DEF ReqOk, CoverPart, Handed
        <3>4. QED
            BY <1>3, <3>3 DEF Waiting, AtWorker, SameWorkers, SameResults
    <2>3. QED
        BY <2>1, <2>2
<1>9. RowsPart(p) /\ EndPart(p)
    BY <1>3 DEF ReqOk, RowsPart, EndPart, SameRequest, SameWorkers, SameResults
<1>10. QED
    BY <1>4, <1>5, <1>6, <1>7, <1>8, <1>9 DEF ReqOk

\* Send: the block in the producer's hand goes to jobCh.
LEMMA SendOk ==
    ASSUME NEW q, ReqOk(q), q.prod = "send", Len(q.jobs) < Capacity,
           NEW a, a = IF q.next = "acquire" THEN "acquire" ELSE "done",
           NEW e \in BOOLEAN, e <=> q.next = "error",
           NEW p, p = [q EXCEPT !.jobs = Append(@, q.hand), !.hand = NoBlock, !.prod = a, !.errCh = e]
    PROVE  ReqOk(p)
<1>1. /\ q.hand \in BlockSet /\ q.jobs \in Seq(BlockSet) /\ q.read \in Nat
      /\ q.next \in {"acquire", "done", "error"}
    BY DEF ReqOk, ReqTyped
<1>2. NoBlock \in BlockSet
    BY DEF NoBlock, Block, BlockSet
<1>3. /\ p.jobs = Append(q.jobs, q.hand) /\ p.prod = a /\ a \in {"acquire", "done"}
      /\ p.errCh = e /\ p.work = q.work
      /\ a = "done" => q.next # "acquire"
      /\ SameReading(p, q) /\ SameRequest(p, q) /\ SameResults(p, q)
    BY <1>1 DEF ReqOk, ReqTyped, SameRequest, SameReading, SameResults
<1>4. ReqTyped(p)
    <2>1. Append(q.jobs, q.hand) \in Seq(BlockSet)
        BY <1>1
    <2>2. QED
        BY <1>2, <2>1, ZenonT(30) DEF ReqOk, ReqTyped
<1>5. /\ Len(p.jobs) = Len(q.jobs) + 1 /\ Len(q.jobs) \in Nat
      /\ \A j \in 1 .. Len(q.jobs) : p.jobs[j] = q.jobs[j]
      /\ p.jobs[Len(q.jobs) + 1] = q.hand
    BY <1>1, <1>3
<1>6. ~q.errCh /\ q.pc = "collect"
    BY DEF ReqOk, ProducerPart, LeavePart
<1>7. LeavePart(p)
    BY <1>3, <1>5, <1>6, CapacityTyped DEF ReqOk, LeavePart, SameRequest
<1>8. ProducerPart(p)
    BY <1>1, <1>3, <1>6 DEF ReqOk, ProducerPart, Clean, SameReading, SameRequest, SameResults
<1>9. KeptPart(p)
    <2>1. \A b : Sound(b, q) => Sound(b, p)
        BY <1>3, <1>6 DEF Sound, SameReading
    <2>2. Sound(q.hand, p)
        <3>1. q.hand.idx = q.read /\ q.read # 0 /\ p.read = q.read
              /\ (BodyMayBreak \/ q.hand.whole \/ p.errCh)
            BY <1>3 DEF ReqOk, ProducerPart, SameReading
        <3>2. q.hand.idx \in 1 .. p.read
            BY <1>1, <3>1
        <3>3. QED
            BY <3>1, <3>2 DEF Sound
    <2>3. \A j \in 1 .. Len(p.jobs) : Sound(p.jobs[j], p)
        BY <1>5, <2>1, <2>2 DEF ReqOk, KeptPart
    <2>4. QED
        BY <1>3, <2>1, <2>3 DEF ReqOk, KeptPart, SameReading, SameResults
<1>10. CoverPart(p)
    <2> SUFFICES ASSUME p.pc = "collect", Clean(p), NEW i \in 1 .. p.read
                 PROVE  Handed(p, i) \/ Waiting(p, i) \/ AtWorker(p, i) \/ i \in DOMAIN p.refs
        BY DEF CoverPart
    <2>1. Handed(q, i) \/ Waiting(q, i) \/ AtWorker(q, i) \/ i \in DOMAIN q.refs
        BY <1>3, <1>6 DEF ReqOk, CoverPart, Clean, SameReading, SameRequest, SameResults
    <2>2. CASE Handed(q, i)
        <3>1. p.jobs[Len(q.jobs) + 1].idx = i /\ Len(q.jobs) + 1 \in 1 .. Len(p.jobs)
            BY <1>5, <2>2 DEF Handed, ReqOk, ProducerPart
        <3>2. QED
            BY <3>1 DEF Waiting
    <2>3. CASE Waiting(q, i)
        BY <1>5, <2>3 DEF Waiting
    <2>4. CASE AtWorker(q, i) \/ i \in DOMAIN q.refs
        BY <1>3, <2>4 DEF AtWorker, SameResults
    <2>5. QED
        BY <2>1, <2>2, <2>3, <2>4
<1>11. RowsPart(p) /\ EndPart(p)
    BY <1>3, <1>6 DEF ReqOk, RowsPart, EndPart, SameRequest, SameResults
<1>12. QED
    BY <1>4, <1>7, <1>8, <1>9, <1>10, <1>11 DEF ReqOk

\* Send gives up.
LEMMA GiveUpOk ==
    ASSUME NEW q, ReqOk(q), q.prod = "send", WorkDone(q),
           NEW p, p = [q EXCEPT !.hand = NoBlock, !.prod = "done"]
    PROVE  ReqOk(p)
<1>1. NoBlock \in BlockSet
    BY DEF NoBlock, Block, BlockSet
<1>2. /\ p.prod = "done" /\ p.errCh = q.errCh /\ SameReading(p, q) /\ SameRequest(p, q)
      /\ SameWorkers(p, q) /\ SameResults(p, q)
    BY DEF ReqOk, ReqTyped, SameRequest, SameReading, SameWorkers, SameResults
<1>3. ReqTyped(p)
    BY <1>1 DEF ReqOk, ReqTyped
<1>4. LeavePart(p)
    BY <1>2 DEF ReqOk, LeavePart, SameRequest, SameWorkers
<1>5. ~Clean(p) /\ ~q.errCh
    BY <1>2 DEF ReqOk, ProducerPart, WorkDone, Clean, SameRequest, SameResults
<1>6. ProducerPart(p)
    BY <1>2, <1>5 DEF ReqOk, ProducerPart, SameReading, SameResults
<1>7. KeptPart(p)
    BY <1>2 DEF ReqOk, KeptPart, Sound, SameReading, SameWorkers, SameResults
<1>8. CoverPart(p)
    BY <1>5 DEF CoverPart
<1>9. RowsPart(p) /\ EndPart(p)
    BY <1>2 DEF ReqOk, RowsPart, EndPart, SameReading, SameRequest, SameWorkers, SameResults
<1>10. QED
    BY <1>3, <1>4, <1>6, <1>7, <1>8, <1>9 DEF ReqOk

\* A worker takes the next job.
LEMMA TakeOk ==
    ASSUME NEW q, ReqOk(q), NEW k \in Workers, q.work[k].pc = "take", q.jobs # << >>,
           NEW w, w = [pc |-> "store", block |-> Head(q.jobs), new |-> FALSE],
           NEW p, p = [q EXCEPT !.jobs = Tail(@), !.work[k] = w]
    PROVE  ReqOk(p)
<1>1. q.jobs \in Seq(BlockSet) /\ q.work \in [Workers -> WorkerSet] /\ Len(q.jobs) \in Nat
    BY DEF ReqOk, ReqTyped
<1>2. /\ Head(q.jobs) = q.jobs[1] /\ q.jobs[1] \in BlockSet /\ 1 \in 1 .. Len(q.jobs)
      /\ Tail(q.jobs) \in Seq(BlockSet) /\ Len(Tail(q.jobs)) = Len(q.jobs) - 1
      /\ \A j \in 1 .. Len(Tail(q.jobs)) : Tail(q.jobs)[j] = q.jobs[j + 1]
    BY <1>1
<1>3. w \in WorkerSet /\ w.pc = "store" /\ w.block = q.jobs[1]
    BY <1>2 DEF WorkerSet
<1>4. /\ p.jobs = Tail(q.jobs) /\ p.work = [q.work EXCEPT ![k] = w]
      /\ SameProducer(p, q) /\ SameRequest(p, q) /\ SameResults(p, q)
    BY DEF ReqOk, ReqTyped, SameProducer, SameReading, SameRequest, SameResults
<1>5. \A h \in Workers : p.work[h] = IF h = k THEN w ELSE q.work[h]
    BY <1>1, <1>4
<1>6. ReqTyped(p)
    <2>1. [q.work EXCEPT ![k] = w] \in [Workers -> WorkerSet]
        BY <1>1, <1>3
    <2>2. QED
        BY <1>2, <2>1 DEF ReqOk, ReqTyped
<1>7. q.pc = "collect" /\ \A h \in Workers : q.work[h].pc # "exited"
    BY DEF ReqOk, LeavePart
<1>8. LeavePart(p)
    <2>1. Len(p.jobs) <= Capacity
        BY <1>1, <1>2, <1>4, CapacityTyped DEF ReqOk, LeavePart
    <2>2. QED
        BY <1>3, <1>4, <1>5, <1>7, <2>1 DEF LeavePart, SameRequest
<1>9. ProducerPart(p)
    BY <1>4 DEF ReqOk, ProducerPart, Clean, SameProducer, SameReading, SameRequest, SameResults
<1>10. KeptPart(p)
    <2>1. \A b : Sound(b, q) => Sound(b, p)
        BY <1>4 DEF Sound, SameProducer, SameReading
    <2>2. \A j \in 1 .. Len(p.jobs) : Sound(p.jobs[j], p)
        BY <1>1, <1>2, <1>4, <2>1 DEF ReqOk, KeptPart
    <2>3. Sound(w.block, p)
        BY <1>2, <1>3, <2>1 DEF ReqOk, KeptPart
    <2>4. \A h \in Workers : Busy(p.work[h]) => Sound(p.work[h].block, p)
        BY <1>5, <2>1, <2>3 DEF ReqOk, KeptPart
    <2>5. QED
        BY <1>4, <2>1, <2>2, <2>4 DEF ReqOk, KeptPart, SameProducer, SameReading, SameResults
<1>11. CoverPart(p)
    <2> SUFFICES ASSUME p.pc = "collect", Clean(p), NEW i \in 1 .. p.read
                 PROVE  Handed(p, i) \/ Waiting(p, i) \/ AtWorker(p, i) \/ i \in DOMAIN p.refs
        BY DEF CoverPart
    <2>1. Handed(q, i) \/ Waiting(q, i) \/ AtWorker(q, i) \/ i \in DOMAIN q.refs
        BY <1>4, <1>7 DEF ReqOk, CoverPart, Clean, SameProducer, SameReading, SameRequest, SameResults
    <2>2. CASE Waiting(q, i)
        <3>1. PICK j \in 1 .. Len(q.jobs) : q.jobs[j].idx = i
            BY <2>2 DEF Waiting
        <3>2. CASE j = 1
            BY <1>3, <1>5, <3>1, <3>2 DEF AtWorker, Busy
        <3>3. CASE j # 1
            <4>1. j - 1 \in 1 .. Len(p.jobs) /\ (j - 1) + 1 = j
                BY <1>1, <1>2, <1>4, <3>3
            <4>2. p.jobs[j - 1] = q.jobs[j]
                BY <1>2, <1>4, <4>1
            <4>3. QED
                BY <3>1, <4>1, <4>2 DEF Waiting
        <3>4. QED
            BY <3>2, <3>3
    <2>3. CASE AtWorker(q, i)
        BY <1>5, <2>3 DEF AtWorker, Busy
    <2>4. CASE Handed(q, i) \/ i \in DOMAIN q.refs
        BY <1>4, <2>4 DEF Handed, SameProducer, SameReading, SameResults
    <2>5. QED
        BY <2>1, <2>2, <2>3, <2>4
<1>12. RowsPart(p) /\ EndPart(p)
    <2>1. RowsPart(p)
        BY <1>4, <1>5 DEF ReqOk, RowsPart, SameResults
    <2>2. QED
        BY <1>4, <1>7, <2>1 DEF EndPart, SameRequest
<1>13. QED
    BY <1>6, <1>8, <1>9, <1>10, <1>11, <1>12 DEF ReqOk

\* A worker leaves, or storeChunkContext returns to it: jobCh is untouched.
\* When it returned a new row the row is noted.
LEMMA WorkerMovesOk ==
    ASSUME NEW q, ReqOk(q), NEW k \in Workers, q.work[k].pc \in {"take", "store"},
           NEW w \in WorkerSet,
           \/ /\ q.work[k].pc = "take" /\ w.pc = "exited" /\ q.jobs = << >> /\ q.prod = "done"
           \/ /\ q.work[k].pc = "store" /\ w.pc \in {"report", "fail"}
              /\ w.block = q.work[k].block,
           NEW rows, \/ rows = q.rows
                     \/ /\ rows = q.rows \union {q.work[k].block.idx}
                        /\ w.pc = "report" /\ w.new,
           NEW p, p = [q EXCEPT !.work[k] = w, !.rows = rows]
    PROVE  ReqOk(p)
<1>1. q.work \in [Workers -> WorkerSet] /\ q.work[k].block.idx \in Nat /\ q.rows \subseteq Nat
    BY DEF ReqOk, ReqTyped, WorkerSet, BlockSet
<1>2. /\ p.work = [q.work EXCEPT ![k] = w] /\ p.jobs = q.jobs /\ p.rows = rows
      /\ p.refs = q.refs /\ p.new = q.new /\ p.err = q.err /\ p.stopped = q.stopped
      /\ SameProducer(p, q) /\ SameRequest(p, q)
    BY DEF ReqOk, ReqTyped, SameProducer, SameReading, SameRequest
<1>3. \A h \in Workers : p.work[h] = IF h = k THEN w ELSE q.work[h]
    BY <1>1, <1>2
<1>4. ReqTyped(p)
    <2>1. [q.work EXCEPT ![k] = w] \in [Workers -> WorkerSet]
        BY <1>1
    <2>2. rows \in SUBSET Nat
        BY <1>1
    <2>3. QED
        BY <2>1, <2>2 DEF ReqOk, ReqTyped
<1>5. q.pc = "collect"
    BY DEF ReqOk, LeavePart
<1>6. LeavePart(p)
    BY <1>2, <1>3, <1>5 DEF ReqOk, LeavePart, SameProducer, SameRequest
<1>7. ProducerPart(p)
    BY <1>2 DEF ReqOk, ProducerPart, Clean, SameProducer, SameReading, SameRequest
<1>8. KeptPart(p)
    <2>1. \A b : Sound(b, q) => Sound(b, p)
        BY <1>2 DEF Sound, SameProducer, SameReading
    <2>2. \A h \in Workers : Busy(p.work[h]) => Sound(p.work[h].block, p)
        BY <1>3, <2>1 DEF ReqOk, KeptPart, Busy
    <2>3. QED
        BY <1>2, <2>1, <2>2 DEF ReqOk, KeptPart, SameProducer, SameReading
<1>9. CoverPart(p)
    <2>1. \A i : /\ Handed(q, i) => Handed(p, i)
                 /\ Waiting(q, i) => Waiting(p, i)
        BY <1>2 DEF Handed, Waiting, SameProducer, SameReading
    <2>2. \A i : AtWorker(q, i) => AtWorker(p, i)
        BY <1>3 DEF AtWorker, Busy
    <2>3. QED
        BY <1>2, <2>1, <2>2 DEF ReqOk, CoverPart, Clean, SameProducer, SameReading, SameRequest
<1>10. RowsPart(p)
    <2> SUFFICES ASSUME NEW i \in rows
                 PROVE  \/ i \in q.new
                        \/ \E h \in Workers : /\ p.work[h].pc = "report" /\ p.work[h].new
                                              /\ p.work[h].block.idx = i
        BY <1>2 DEF RowsPart
    <2>1. CASE i \in q.rows
        BY <1>3, <2>1 DEF ReqOk, RowsPart
    <2>2. CASE i \notin q.rows
        BY <1>3, <2>2
    <2>3. QED
        BY <2>1, <2>2
<1>11. EndPart(p)
    BY <1>2, <1>5 DEF EndPart, SameRequest
<1>12. QED
    BY <1>4, <1>6, <1>7, <1>8, <1>9, <1>10, <1>11 DEF ReqOk

\* The collector receives a block.
LEMMA ReportOk ==
    ASSUME NEW q, ReqOk(q), NEW k \in Workers, q.work[k].pc = "report",
           NEW p, p = AfterReport(Record(q, q.work[k]), k)
    PROVE  ReqOk(p)
<1> DEFINE w    == q.work[k]
           i0   == w.block.idx
           refs == [j \in DOMAIN q.refs \union {i0} |-> IF j = i0 THEN w.block ELSE q.refs[j]]
           new  == IF w.new THEN q.new \union {i0} ELSE q.new
           idle == [IdleWorker EXCEPT !.pc = "take"]
<1>1. /\ q.work \in [Workers -> WorkerSet] /\ w.block \in BlockSet /\ i0 \in Nat
      /\ q.new \subseteq Nat /\ q.read \in Nat
    BY DEF ReqOk, ReqTyped, WorkerSet, BlockSet
<1>2. idle \in WorkerSet /\ idle.pc = "take"
    <2>1. NoBlock \in BlockSet
        BY DEF NoBlock, Block, BlockSet
    <2>2. QED
        BY <2>1 DEF IdleWorker, WorkerSet
<1>3. /\ DOMAIN refs = DOMAIN q.refs \union {i0} /\ refs[i0] = w.block
      /\ \A j \in DOMAIN q.refs : j # i0 => refs[j] = q.refs[j]
      /\ refs \in [DOMAIN refs -> BlockSet]
    BY <1>1 DEF ReqOk, KeptPart
<1>4. new \subseteq Nat /\ q.new \subseteq new /\ (w.new => i0 \in new)
    BY <1>1
<1>5. p = [[q EXCEPT !.refs = refs, !.new = new] EXCEPT !.work[k] = idle]
    BY DEF AfterReport, Record, PutAt
<1> HIDE DEF refs, new, idle
<1>6. /\ p.work = [q.work EXCEPT ![k] = idle] /\ p.jobs = q.jobs /\ p.rows = q.rows
      /\ p.refs = refs /\ p.new = new /\ p.err = q.err /\ p.stopped = q.stopped
      /\ SameProducer(p, q) /\ SameRequest(p, q)
    BY <1>5 DEF ReqOk, ReqTyped, SameProducer, SameReading, SameRequest
<1>7. \A h \in Workers : p.work[h] = IF h = k THEN idle ELSE q.work[h]
    BY <1>1, <1>6
<1>8. ReqTyped(p)
    <2>1. [q.work EXCEPT ![k] = idle] \in [Workers -> WorkerSet]
        BY <1>1, <1>2
    <2>2. QED
        BY <1>4, <1>5, <1>6, <2>1 DEF ReqOk, ReqTyped
<1>9. q.pc = "collect"
    BY DEF ReqOk, LeavePart
<1>10. LeavePart(p)
    BY <1>2, <1>6, <1>7, <1>9 DEF ReqOk, LeavePart, SameProducer, SameRequest
<1>11. ProducerPart(p)
    BY <1>6 DEF ReqOk, ProducerPart, Clean, SameProducer, SameReading, SameRequest
<1>12. KeptPart(p)
    <2>1. \A b : Sound(b, q) => Sound(b, p)
        BY <1>6 DEF Sound, SameProducer, SameReading
    <2>2. Sound(w.block, q) /\ i0 \in 1 .. q.read
        BY DEF ReqOk, KeptPart, Busy, Sound
    <2>3. \A h \in Workers : Busy(p.work[h]) => Sound(p.work[h].block, p)
        BY <1>2, <1>7, <2>1 DEF ReqOk, KeptPart, Busy
    <2>4. DOMAIN refs \subseteq 1 .. q.read
        BY <1>3, <2>2 DEF ReqOk, KeptPart
    <2>5. \A j \in DOMAIN refs : refs[j].idx = j /\ Sound(refs[j], p)
        BY <1>3, <2>1, <2>2 DEF ReqOk, KeptPart
    <2>6. \A j \in 1 .. Len(p.jobs) : Sound(p.jobs[j], p)
        BY <1>6, <2>1 DEF ReqOk, KeptPart
    <2>7. QED
        BY <1>3, <1>6, <2>3, <2>4, <2>5, <2>6 DEF KeptPart, SameProducer, SameReading
<1>13. CoverPart(p)
    <2>1. \A i : /\ Handed(q, i) => Handed(p, i)
                 /\ Waiting(q, i) => Waiting(p, i)
        BY <1>6 DEF Handed, Waiting, SameProducer, SameReading
    <2>2. \A i : AtWorker(q, i) => AtWorker(p, i) \/ i \in DOMAIN p.refs
        BY <1>3, <1>6, <1>7 DEF AtWorker
    <2>3. \A i \in DOMAIN q.refs : i \in DOMAIN p.refs
        BY <1>3, <1>6
    <2>4. QED
        BY <1>6, <2>1, <2>2, <2>3 DEF ReqOk, CoverPart, Clean, SameProducer, SameReading, SameRequest
<1>14. RowsPart(p)
    BY <1>4, <1>6, <1>7 DEF ReqOk, RowsPart
<1>15. EndPart(p)
    BY <1>6, <1>9 DEF EndPart, SameRequest
<1>16. QED
    BY <1>8, <1>10, <1>11, <1>12, <1>13, <1>14, <1>15 DEF ReqOk

\* It receives an error, and the work is stopped.
LEMMA ReportErrorOk ==
    ASSUME NEW q, ReqOk(q), NEW k \in Workers, q.work[k].pc = "fail",
           NEW p, p = AfterReport(StopOthers(q), k)
    PROVE  ReqOk(p)
<1> DEFINE idle == [IdleWorker EXCEPT !.pc = "take"]
<1>1. q.work \in [Workers -> WorkerSet]
    BY DEF ReqOk, ReqTyped
<1>2. idle \in WorkerSet /\ idle.pc = "take"
    <2>1. NoBlock \in BlockSet
        BY DEF NoBlock, Block, BlockSet
    <2>2. QED
        BY <2>1 DEF IdleWorker, WorkerSet
<1>3. p = [[q EXCEPT !.err = TRUE, !.closed = TRUE, !.stopped = TRUE] EXCEPT !.work[k] = idle]
    BY DEF AfterReport, StopOthers
<1> HIDE DEF idle
<1>4. /\ p.work = [q.work EXCEPT ![k] = idle] /\ p.jobs = q.jobs /\ p.rows = q.rows
      /\ p.refs = q.refs /\ p.new = q.new /\ p.err
      /\ SameProducer(p, q) /\ SameRequest(p, q)
    BY <1>3 DEF ReqOk, ReqTyped, SameProducer, SameReading, SameRequest
<1>5. \A h \in Workers : p.work[h] = IF h = k THEN idle ELSE q.work[h]
    BY <1>1, <1>4
<1>6. ReqTyped(p)
    <2>1. [q.work EXCEPT ![k] = idle] \in [Workers -> WorkerSet]
        BY <1>1, <1>2
    <2>2. QED
        BY <1>3, <2>1 DEF ReqOk, ReqTyped
<1>7. q.pc = "collect" /\ ~Clean(p)
    BY <1>4 DEF ReqOk, LeavePart, Clean
<1>8. LeavePart(p)
    BY <1>2, <1>4, <1>5, <1>7 DEF ReqOk, LeavePart, SameProducer, SameRequest
<1>9. ProducerPart(p)
    BY <1>4, <1>7 DEF ReqOk, ProducerPart, SameProducer, SameReading
<1>10. KeptPart(p)
    BY <1>2, <1>4, <1>5 DEF ReqOk, KeptPart, Sound, Busy, SameProducer, SameReading
<1>11. CoverPart(p) /\ RowsPart(p) /\ EndPart(p)
    <2>1. RowsPart(p)
        BY <1>4, <1>5 DEF ReqOk, RowsPart
    <2>2. QED
        BY <1>4, <1>7, <2>1 DEF CoverPart, EndPart, SameRequest
<1>12. QED
    BY <1>6, <1>8, <1>9, <1>10, <1>11 DEF ReqOk

\* The request leaves its goroutines, which are gone, and commits or fails.
\* Every block is in its place, or what was inserted is cleaned up.
LEMMA EndOk ==
    ASSUME NEW q, ReqOk(q), q.pc \in {"collect", "commit"},
           \A k \in Workers : q.work[k].pc = "exited",
           NEW p, \/ /\ p = Fail(q)
                  \/ /\ p = [q EXCEPT !.pc = "commit"] /\ q.pc = "collect" /\ Clean(q)
                  \/ /\ p = [q EXCEPT !.pc = "ok"] /\ q.pc = "commit"
    PROVE  ReqOk(p)
<1>1. q.prod = "done" /\ q.jobs = << >>
    BY PipelineAssumption DEF ReqOk, LeavePart
<1>2. q.rows \subseteq q.new
    BY DEF ReqOk, RowsPart
<1>3. PICK c \in {"failed", "commit", "ok"}, rows \in SUBSET q.rows :
          /\ p = [q EXCEPT !.pc = c, !.rows = rows]
          /\ c = "failed" => rows = {}
          /\ c = "commit" => q.pc = "collect" /\ Clean(q)
          /\ c = "ok" => q.pc = "commit"
    <2>1. CASE p = Fail(q)
        <3> DEFINE rows == q.rows \ q.new
        <3>1. rows \in SUBSET q.rows /\ rows = {}
            BY <1>2
        <3>2. p = [q EXCEPT !.pc = "failed", !.rows = rows]
            BY <2>1 DEF Fail
        <3> HIDE DEF rows
        <3>3. QED
            BY <3>1, <3>2
    <2>2. CASE p # Fail(q)
        <3>1. PICK c \in {"commit", "ok"} :
                  /\ p = [q EXCEPT !.pc = c]
                  /\ c = "commit" => q.pc = "collect" /\ Clean(q)
                  /\ c = "ok" => q.pc = "commit"
            BY <2>2
        <3>2. [q EXCEPT !.pc = c] = [q EXCEPT !.pc = c, !.rows = q.rows]
            BY DEF ReqOk, ReqTyped
        <3>3. QED
            BY <3>1, <3>2
    <2>3. QED
        BY <2>1, <2>2
<1>4. /\ p.refs = q.refs /\ p.err = q.err /\ p.stopped = q.stopped /\ p.cancelled = q.cancelled
       /\ p.pc = c /\ p.rows = rows /\ p.new = q.new
       /\ SameProducer(p, q) /\ SameWorkers(p, q)
    BY <1>3 DEF ReqOk, ReqTyped, SameProducer, SameReading, SameWorkers
<1>5. ReqTyped(p)
    <2>1. rows \in SUBSET Nat
        BY DEF ReqOk, ReqTyped
    <2>2. c \in {"idle", "collect", "commit", "ok", "failed"}
        OBVIOUS
    <2>3. QED
        BY <1>3, <2>1, <2>2 DEF ReqOk, ReqTyped
<1>6. LeavePart(p)
    BY <1>1, <1>3, <1>4 DEF ReqOk, LeavePart, SameProducer, SameWorkers
<1>7. ProducerPart(p)
    BY <1>1, <1>3, <1>4 DEF ReqOk, ProducerPart, SameProducer, SameReading
<1>8. KeptPart(p)
    BY <1>3, <1>4 DEF ReqOk, KeptPart, Sound, SameProducer, SameReading, SameWorkers
<1>9. CoverPart(p)
    BY <1>3, <1>4 DEF CoverPart
<1>10. RowsPart(p)
    BY <1>2, <1>3, <1>4 DEF RowsPart
<1>11. EndPart(p)
    <2>1. ASSUME p.pc = "commit", ~BodyMayBreak
          PROVE  q.refs = [i \in 1 .. q.body |-> Block(i, TRUE)]
        <3>1. q.pc = "collect" /\ Clean(q) /\ q.read = q.body /\ q.read \in Nat
            BY <1>1, <1>3, <1>4, <2>1 DEF ReqOk, ReqTyped, ProducerPart
        <3>2. ASSUME NEW i \in 1 .. q.read PROVE i \in DOMAIN q.refs
            <4>1. Handed(q, i) \/ Waiting(q, i) \/ AtWorker(q, i) \/ i \in DOMAIN q.refs
                BY <3>1 DEF ReqOk, CoverPart
            <4>2. ~Handed(q, i) /\ ~AtWorker(q, i)
                BY <1>1 DEF Handed, AtWorker, Busy
            <4>3. ~Waiting(q, i)
                BY <1>1 DEF Waiting
            <4>4. QED
                BY <4>1, <4>2, <4>3
        <3>3. DOMAIN q.refs = 1 .. q.body
            BY <3>1, <3>2 DEF ReqOk, KeptPart
        <3>4. ASSUME NEW i \in DOMAIN q.refs PROVE q.refs[i] = Block(i, TRUE)
            <4>1. q.refs[i] \in BlockSet /\ q.refs[i].idx = i /\ q.refs[i].whole
                BY <2>1, <3>1 DEF ReqOk, KeptPart, Sound, Clean
            <4>2. q.refs[i].whole = TRUE
                BY <4>1 DEF BlockSet
            <4>3. QED
                BY <4>1, <4>2 DEF BlockSet, Block
        <3>5. q.refs = [i \in DOMAIN q.refs |-> q.refs[i]]
            BY DEF ReqOk, KeptPart
        <3>6. QED
            BY <3>3, <3>4, <3>5
    <2>2. p.pc = "ok" => BodyMayBreak \/ q.refs = [i \in 1 .. q.body |-> Block(i, TRUE)]
        BY <1>3, <1>4 DEF ReqOk, EndPart
    <2>3. QED
        BY <1>3, <1>4, <2>1, <2>2 DEF EndPart, SameProducer, SameReading
<1>12. QED
    BY <1>5, <1>6, <1>7, <1>8, <1>9, <1>10, <1>11 DEF ReqOk

-----------------------------------------------------------------------------
(* The slots.                                                              *)

Reads(q)  == IF q.prod \in {"read", "send"} THEN 1 ELSE 0
Stores(w) == IF w.pc = "store" THEN 1 ELSE 0

\* The holders of slots are finitely many.
LEMMA HoldersFinite ==
    /\ IsFiniteSet(Producing) /\ IsFiniteSet(Queued) /\ IsFiniteSet(Storing)
    /\ Cardinality(Producing) \in Nat /\ Cardinality(Queued) \in Nat /\ Cardinality(Storing) \in Nat
<1>1. IsFiniteSet(1 .. Capacity)
    <2>1. 1 \in Int /\ Capacity \in Int
        BY CapacityTyped
    <2>2. QED
        BY <2>1, FS_Interval
<1>2. IsFiniteSet(Requests \X (1 .. Capacity)) /\ IsFiniteSet(Requests \X Workers)
    BY <1>1, PipelineAssumption, FS_Product
<1>3. IsFiniteSet(Producing)
    BY PipelineAssumption, FS_Subset DEF Producing
<1>4. IsFiniteSet(Queued)
    <2>1. Queued \subseteq Requests \X (1 .. Capacity)
        BY DEF Queued
    <2>2. QED
        BY <1>2, <2>1, FS_Subset
<1>5. IsFiniteSet(Storing)
    <2>1. Storing \subseteq Requests \X Workers
        BY DEF Storing
    <2>2. QED
        BY <1>2, <2>1, FS_Subset
<1>6. QED
    BY <1>3, <1>4, <1>5, FS_CardinalityType

\* One member more, one member less.
LEMMA OneMore ==
    ASSUME NEW S, IsFiniteSet(S), NEW x, x \notin S
    PROVE  Cardinality(S \union {x}) = Cardinality(S) + 1
BY FS_AddElement

\* A finite set without one of its members has one member less.
LEMMA OneLess ==
    ASSUME NEW S, IsFiniteSet(S), NEW x \in S
    PROVE  Cardinality(S \ {x}) = Cardinality(S) - 1
BY FS_RemoveElement

\* One request changes: how the producers that hold a slot change.
LEMMA ProducingStep ==
    ASSUME req = [h \in Requests |-> req[h]], NEW r \in Requests, NEW p, Become(r, p)
    PROVE  Cardinality(Producing') = Cardinality(Producing) + Reads(p) - Reads(req[r])
<1>1. \A h \in Requests : req'[h] = IF h = r THEN p ELSE req[h]
    BY DEF Become
<1>2. CASE Reads(p) = Reads(req[r])
    <2>1. Producing' = Producing
        BY <1>1, <1>2 DEF Producing, Reads
    <2>2. QED
        BY <1>2, <2>1, HoldersFinite DEF Reads
<1>3. CASE Reads(p) = 1 /\ Reads(req[r]) = 0
    <2>1. Producing' = Producing \union {r} /\ r \notin Producing
        BY <1>1, <1>3 DEF Producing, Reads
    <2>2. Cardinality(Producing') = Cardinality(Producing) + 1
        BY <2>1, HoldersFinite, OneMore
    <2>3. QED
        BY <1>3, <2>2, HoldersFinite
<1>4. CASE Reads(p) = 0 /\ Reads(req[r]) = 1
    <2>1. Producing' = Producing \ {r} /\ r \in Producing
        BY <1>1, <1>4 DEF Producing, Reads
    <2>2. Cardinality(Producing') = Cardinality(Producing) - 1
        BY <2>1, HoldersFinite, OneLess
    <2>3. QED
        BY <1>4, <2>2, HoldersFinite
<1>5. QED
    BY <1>2, <1>3, <1>4 DEF Reads

\* How the jobs in the queues change.
LEMMA QueuedStep ==
    ASSUME req = [h \in Requests |-> req[h]], NEW r \in Requests, NEW p, Become(r, p),
           ReqOk(req[r]), ReqOk(p), Len(p.jobs) - Len(req[r].jobs) \in {-1, 0, 1}
    PROVE  Cardinality(Queued') = Cardinality(Queued) + Len(p.jobs) - Len(req[r].jobs)
<1>1. \A h \in Requests : req'[h] = IF h = r THEN p ELSE req[h]
    BY DEF Become
<1> DEFINE n == Len(req[r].jobs)
           m == Len(p.jobs)
<1>2. n \in 0 .. Capacity /\ m \in 0 .. Capacity /\ Capacity \in Nat
    BY CapacityTyped DEF ReqOk, ReqTyped, LeavePart
<1>3. \A h \in Requests \X (1 .. Capacity) :
          h \in Queued' <=> h[2] <= IF h[1] = r THEN m ELSE Len(req[h[1]].jobs)
    BY <1>1 DEF Queued
<1>4. \A h \in Requests \X (1 .. Capacity) : h \in Queued <=> h[2] <= Len(req[h[1]].jobs)
    BY DEF Queued
<1>5. Queued \subseteq Requests \X (1 .. Capacity) /\ Queued' \subseteq Requests \X (1 .. Capacity)
    BY DEF Queued
<1>6. CASE m = n
    <2>1. Queued' = Queued
        BY <1>3, <1>4, <1>5, <1>6
    <2>2. QED
        BY <1>2, <1>6, <2>1, HoldersFinite
<1>7. CASE m = n + 1
    <2>1. <<r, m>> \in Requests \X (1 .. Capacity)
        BY <1>2, <1>7
    <2>2. \A h \in Requests \X (1 .. Capacity) :
              h # <<r, m>> => (h \in Queued' <=> h \in Queued)
        <3> SUFFICES ASSUME NEW g \in Requests, NEW i \in 1 .. Capacity, <<g, i>> # <<r, m>>
                     PROVE  <<g, i>> \in Queued' <=> <<g, i>> \in Queued
            OBVIOUS
        <3>1. <<g, i>> \in Queued' <=> i <= IF g = r THEN m ELSE Len(req[g].jobs)
            BY <1>3
        <3>2. <<g, i>> \in Queued <=> i <= Len(req[g].jobs)
            BY <1>4
        <3>3. QED
            BY <1>2, <1>7, <3>1, <3>2
    <2>3. <<r, m>> \in Queued' /\ <<r, m>> \notin Queued
        BY <1>2, <1>3, <1>4, <1>7, <2>1
    <2>4. Queued' = Queued \union {<<r, m>>}
        BY <1>5, <2>2, <2>3
    <2>5. Cardinality(Queued') = Cardinality(Queued) + 1
        BY <2>3, <2>4, HoldersFinite, OneMore
    <2>6. QED
        BY <1>2, <1>7, <2>5, HoldersFinite
<1>8. CASE m = n - 1
    <2>1. <<r, n>> \in Requests \X (1 .. Capacity)
        BY <1>2, <1>8
    <2>2. \A h \in Requests \X (1 .. Capacity) :
              h # <<r, n>> => (h \in Queued' <=> h \in Queued)
        <3> SUFFICES ASSUME NEW g \in Requests, NEW i \in 1 .. Capacity, <<g, i>> # <<r, n>>
                     PROVE  <<g, i>> \in Queued' <=> <<g, i>> \in Queued
            OBVIOUS
        <3>1. <<g, i>> \in Queued' <=> i <= IF g = r THEN m ELSE Len(req[g].jobs)
            BY <1>3
        <3>2. <<g, i>> \in Queued <=> i <= Len(req[g].jobs)
            BY <1>4
        <3>3. QED
            BY <1>2, <1>8, <3>1, <3>2
    <2>3. <<r, n>> \notin Queued' /\ <<r, n>> \in Queued
        BY <1>2, <1>3, <1>4, <1>8, <2>1
    <2>4. Queued' = Queued \ {<<r, n>>}
        BY <1>5, <2>2, <2>3
    <2>5. Cardinality(Queued') = Cardinality(Queued) - 1
        BY <2>3, <2>4, HoldersFinite, OneLess
    <2>6. QED
        BY <1>2, <1>8, <2>5, HoldersFinite
<1>9. m = n \/ m = n + 1 \/ m = n - 1
    BY <1>2
<1>10. QED
    BY <1>6, <1>7, <1>8, <1>9

\* How the workers that store change when at most worker k does.
LEMMA StoringStep ==
    ASSUME req = [h \in Requests |-> req[h]], NEW r \in Requests, NEW p, Become(r, p),
           NEW k \in Workers,
           \A h \in Workers : h # k => (p.work[h].pc = "store" <=> req[r].work[h].pc = "store")
    PROVE  Cardinality(Storing') =
               Cardinality(Storing) + Stores(p.work[k]) - Stores(req[r].work[k])
<1>1. \A h \in Requests : req'[h] = IF h = r THEN p ELSE req[h]
    BY DEF Become
<1>2. /\ Storing \subseteq Requests \X Workers /\ Storing' \subseteq Requests \X Workers
      /\ <<r, k>> \in Requests \X Workers
    BY DEF Storing
<1>3. /\ \A g \in Requests, h \in Workers :
             <<g, h>> \in Storing' <=> (IF g = r THEN p ELSE req[g]).work[h].pc = "store"
      /\ \A g \in Requests, h \in Workers : <<g, h>> \in Storing <=> req[g].work[h].pc = "store"
    BY <1>1 DEF Storing
<1>4. \A x \in Requests \X Workers : x # <<r, k>> => (x \in Storing' <=> x \in Storing)
    <2> SUFFICES ASSUME NEW g \in Requests, NEW h \in Workers, <<g, h>> # <<r, k>>
                 PROVE  <<g, h>> \in Storing' <=> <<g, h>> \in Storing
        OBVIOUS
    <2>1. QED
        BY <1>3
<1>5. /\ Stores(p.work[k]) = IF <<r, k>> \in Storing' THEN 1 ELSE 0
      /\ Stores(req[r].work[k]) = IF <<r, k>> \in Storing THEN 1 ELSE 0
    BY <1>3 DEF Stores
<1>6. CASE <<r, k>> \in Storing' <=> <<r, k>> \in Storing
    <2>1. \A x \in Requests \X Workers : x \in Storing' <=> x \in Storing
        BY <1>4, <1>6
    <2>2. Storing' = Storing
        BY <1>2, <2>1
    <2>3. QED
        BY <1>5, <1>6, <2>2, HoldersFinite
<1>7. CASE <<r, k>> \in Storing' /\ <<r, k>> \notin Storing
    <2>1. Storing' = Storing \union {<<r, k>>}
        BY <1>2, <1>4, <1>7
    <2>2. Cardinality(Storing') = Cardinality(Storing) + 1
        BY <1>7, <2>1, HoldersFinite, OneMore
    <2>3. QED
        BY <1>5, <1>7, <2>2, HoldersFinite
<1>8. CASE <<r, k>> \notin Storing' /\ <<r, k>> \in Storing
    <2>1. Storing' = Storing \ {<<r, k>>}
        BY <1>2, <1>4, <1>8
    <2>2. Cardinality(Storing') = Cardinality(Storing) - 1
        BY <1>8, <2>1, HoldersFinite, OneLess
    <2>3. QED
        BY <1>5, <1>8, <2>2, HoldersFinite
<1>9. QED
    BY <1>6, <1>7, <1>8

\* The limiter counts on when it moves with its holders.
LEMMA SlotsBalance ==
    ASSUME sem \in Int, others \in Nat, SlotsExact, others' = others,
           NEW da \in Int, NEW db \in Int, NEW dc \in Int,
           Cardinality(Producing') = Cardinality(Producing) + da,
           Cardinality(Queued') = Cardinality(Queued) + db,
           Cardinality(Storing') = Cardinality(Storing) + dc,
           sem' = sem + da + db + dc
    PROVE  sem' \in Int /\ SlotsExact'
<1> DEFINE A == Cardinality(Producing)
           B == Cardinality(Queued)
           C == Cardinality(Storing)
<1>1. A \in Int /\ B \in Int /\ C \in Int
    BY HoldersFinite
<1>2. sem = others + A + B + C
    BY DEF SlotsExact
<1>3. SlotsExact' <=> sem' = others + (A + da) + (B + db) + (C + dc)
    BY DEF SlotsExact
<1> HIDE DEF A, B, C
<1>4. QED
    BY <1>1, <1>2, <1>3

\* Request r becomes p; the slots it takes or gives back are those its producer,
\* its queue and worker k take or give back.
SlotsMove(r, p, k) ==
    /\ \A h \in Workers : h # k => (p.work[h].pc = "store" <=> req[r].work[h].pc = "store")
    /\ Len(p.jobs) - Len(req[r].jobs) \in {-1, 0, 1}
    /\ sem' = sem + (Reads(p) - Reads(req[r])) + (Len(p.jobs) - Len(req[r].jobs))
                  + (Stores(p.work[k]) - Stores(req[r].work[k]))

\* One request changes in line with the limiter.
LEMMA RequestStep ==
    ASSUME PipelineInv, NEW r \in Requests, NEW p, Become(r, p), ReqOk(p), others' = others,
           NEW k \in Workers, SlotsMove(r, p, k)
    PROVE  PipelineInv'
<1>1. req = [h \in Requests |-> req[h]] /\ ReqOk(req[r]) /\ sem \in Int /\ others \in Nat
    BY DEF PipelineInv
<1>2. req' = [h \in Requests |-> req'[h]] /\ \A h \in Requests : ReqOk(req'[h])
    BY <1>1 DEF Become, PipelineInv
<1>3. /\ Len(p.jobs) \in Int /\ Len(req[r].jobs) \in Int
      /\ Reads(p) \in Int /\ Reads(req[r]) \in Int
      /\ Stores(p.work[k]) \in Int /\ Stores(req[r].work[k]) \in Int
    BY <1>1 DEF ReqOk, ReqTyped, Reads, Stores
<1> DEFINE da == Reads(p) - Reads(req[r])
           db == Len(p.jobs) - Len(req[r].jobs)
           dc == Stores(p.work[k]) - Stores(req[r].work[k])
<1>4. /\ Cardinality(Producing') = Cardinality(Producing) + da
      /\ Cardinality(Queued') = Cardinality(Queued) + db
      /\ Cardinality(Storing') = Cardinality(Storing) + dc
    BY <1>1, <1>3, ProducingStep, QueuedStep, StoringStep, HoldersFinite DEF SlotsMove
<1>5. da \in Int /\ db \in Int /\ dc \in Int /\ sem' = sem + da + db + dc
    BY <1>3 DEF SlotsMove
<1> HIDE DEF da, db, dc
<1>6. SlotsExact
    BY DEF PipelineInv
<1>7. sem' \in Int /\ SlotsExact'
    BY <1>1, <1>4, <1>5, <1>6, SlotsBalance
<1>8. QED
    BY <1>1, <1>2, <1>7 DEF PipelineInv

\* The same when the queue and every worker's slot stay as they are.
LEMMA ProducerStep ==
    ASSUME PipelineInv, NEW r \in Requests, NEW p, Become(r, p), ReqOk(p), others' = others,
           Len(p.jobs) = Len(req[r].jobs),
           \A h \in Workers : p.work[h].pc = "store" <=> req[r].work[h].pc = "store",
           sem' = sem + (Reads(p) - Reads(req[r]))
    PROVE  PipelineInv'
<1>1. PICK k \in Workers : TRUE
    BY PipelineAssumption
<1>2. Stores(p.work[k]) = Stores(req[r].work[k]) /\ Stores(p.work[k]) \in Int
    BY DEF Stores
<1>3. Len(p.jobs) \in Int /\ sem \in Int /\ Reads(p) \in Int /\ Reads(req[r]) \in Int
    BY DEF ReqOk, ReqTyped, PipelineInv, Reads
<1>4. SlotsMove(r, p, k)
    BY <1>2, <1>3 DEF SlotsMove
<1>5. QED
    BY <1>4, RequestStep

\* An rsync session takes and returns slots; no request changes.
LEMMA OtherStep ==
    ASSUME PipelineInv, OtherTakes \/ OtherReturns
    PROVE  PipelineInv'
<1>1. req' = req
    BY DEF OtherTakes, OtherReturns
<1>2. Producing' = Producing /\ Queued' = Queued /\ Storing' = Storing
    BY <1>1 DEF Producing, Queued, Storing
<1>3. sem' - sem = others' - others /\ sem' \in Int /\ others' \in Nat
    BY DEF OtherTakes, OtherReturns, PipelineInv
<1>4. sem = others + Cardinality(Producing) + Cardinality(Queued) + Cardinality(Storing)
    BY DEF PipelineInv, SlotsExact
<1>5. sem' = others' + Cardinality(Producing) + Cardinality(Queued) + Cardinality(Storing)
    <2>1. sem \in Int /\ others \in Int /\ others' \in Int
        BY <1>3 DEF PipelineInv
    <2>2. QED
        BY <1>3, <1>4, <2>1, HoldersFinite
<1>6. SlotsExact'
    BY <1>2, <1>5 DEF SlotsExact
<1>7. QED
    BY <1>1, <1>3, <1>6 DEF PipelineInv

-----------------------------------------------------------------------------
(* The steps of a request.                                                 *)

\* What the invariant says of a request, in the forms the steps use.
LEMMA RequestOf ==
    ASSUME PipelineInv, NEW r \in Requests
    PROVE  ReqOk(req[r]) /\ sem \in Int /\ Len(req[r].jobs) \in Nat
BY DEF PipelineInv, ReqOk, ReqTyped

\* Start, Cancel and Reset take and return no slot.
LEMMA LifeSteps ==
    ASSUME PipelineInv, NEW r \in Requests, Start(r) \/ Cancel(r) \/ Reset(r)
    PROVE  PipelineInv'
<1> DEFINE q == req[r]
<1>1. ReqOk(q) /\ sem \in Int
    BY RequestOf
<1>2. PICK p : /\ Become(r, p) /\ ReqOk(p) /\ p.jobs = q.jobs /\ Reads(p) = Reads(q)
               /\ \A h \in Workers : p.work[h].pc = "store" <=> q.work[h].pc = "store"
    <2>1. CASE Start(r)
        <3>1. PICK n \in 0 .. MaxBlocks :
                Become(r, [Idle EXCEPT !.pc = "collect", !.body = n, !.prod = "acquire",
                               !.work = [k \in Workers |-> [IdleWorker EXCEPT !.pc = "take"]]])
            BY <2>1 DEF Start
        <3> DEFINE p == [Idle EXCEPT !.pc = "collect", !.body = n, !.prod = "acquire",
                             !.work = [k \in Workers |-> [IdleWorker EXCEPT !.pc = "take"]]]
        <3>2. ReqOk(p)
            BY StartOk
        <3>3. /\ p.jobs = << >> /\ p.prod = "acquire"
              /\ \A k \in Workers : p.work[k].pc = "take"
            BY DEF Idle, IdleWorker
        <3>4. q.jobs = << >> /\ q.prod = "done" /\ \A k \in Workers : q.work[k].pc = "exited"
            BY <1>1, <2>1 DEF Start, ReqOk, LeavePart
        <3> HIDE DEF p
        <3>5. QED
            BY <3>1, <3>2, <3>3, <3>4 DEF Reads, p
    <2>2. CASE Cancel(r)
        <3> DEFINE p == [q EXCEPT !.cancelled = TRUE, !.closed = TRUE]
        <3>1. Become(r, p) /\ ReqOk(p)
            BY <1>1, <2>2, CancelOk DEF Cancel
        <3>2. p.jobs = q.jobs /\ p.prod = q.prod /\ p.work = q.work
            BY <1>1 DEF ReqOk, ReqTyped
        <3> HIDE DEF p
        <3>3. QED
            BY <3>1, <3>2 DEF Reads
    <2>3. CASE Reset(r)
        <3>1. Idle.jobs = << >> /\ Idle.prod = "done" /\ \A k \in Workers : Idle.work[k].pc = "exited"
            BY DEF Idle, IdleWorker
        <3>2. q.jobs = << >> /\ q.prod = "done" /\ \A k \in Workers : q.work[k].pc = "exited"
            BY <1>1, <2>3 DEF Reset, ReqOk, LeavePart
        <3>3. Become(r, Idle)
            BY <2>3 DEF Reset
        <3>4. QED
            BY <3>1, <3>2, <3>3, IdleOk DEF Reads
    <2>4. QED
        BY <2>1, <2>2, <2>3
<1>3. sem' = sem /\ others' = others
    BY DEF Start, Cancel, Reset
<1>4. sem' = sem + (Reads(p) - Reads(q))
    BY <1>1, <1>2, <1>3 DEF Reads
<1>5. QED
    BY <1>2, <1>3, <1>4, ProducerStep

\* CheckCancelled, TakeSlot and Read: the producer takes a slot, reads, and
\* returns the slot when nothing was read.
LEMMA MoveStep ==
    ASSUME PipelineInv, NEW r \in Requests, req[r].prod \in {"acquire", "wait", "read"},
           NEW a, NEW e \in BOOLEAN, Become(r, [req[r] EXCEPT !.prod = a, !.errCh = e]),
           \/ a \in {"wait", "read"} /\ ~e
           \/ a = "done" /\ (e \/ BodyMayBreak \/ req[r].read = req[r].body),
           others' = others,
           sem' = sem + (IF a = "read" THEN 1 ELSE 0) - (IF req[r].prod = "read" THEN 1 ELSE 0)
    PROVE  PipelineInv'
<1> DEFINE q == req[r]
           p == [q EXCEPT !.prod = a, !.errCh = e]
<1>1. ReqOk(q) /\ sem \in Int
    BY RequestOf
<1>2. ReqOk(p)
    BY <1>1, ProducerMovesOk
<1>3. p.jobs = q.jobs /\ p.work = q.work /\ p.prod = a
    BY <1>1 DEF ReqOk, ReqTyped
<1>4. Become(r, p)
    OBVIOUS
<1> HIDE DEF p
<1>5. sem' = sem + (Reads(p) - Reads(q))
    BY <1>1, <1>3 DEF Reads
<1>6. QED
    BY <1>2, <1>3, <1>4, <1>5, ProducerStep

\* The same without an error.
LEMMA QuietMoveStep ==
    ASSUME PipelineInv, NEW r \in Requests, req[r].prod \in {"acquire", "wait"},
           NEW a \in {"wait", "read"}, Become(r, [req[r] EXCEPT !.prod = a]),
           others' = others, sem' = sem + (IF a = "read" THEN 1 ELSE 0)
    PROVE  PipelineInv'
<1>1. ReqTyped(req[r]) /\ req[r].errCh = FALSE /\ sem \in Int
    BY RequestOf DEF ReqOk, ReqTyped, ProducerPart
<1>2. [req[r] EXCEPT !.prod = a] = [req[r] EXCEPT !.prod = a, !.errCh = FALSE]
    BY <1>1 DEF ReqTyped
<1>3. Become(r, [req[r] EXCEPT !.prod = a, !.errCh = FALSE])
    BY <1>2
<1>4. sem' = sem + (IF a = "read" THEN 1 ELSE 0) - (IF req[r].prod = "read" THEN 1 ELSE 0)
    BY <1>1
<1>5. QED
    BY <1>3, <1>4, MoveStep

\* The producer before it has a block.
LEMMA AcquireSteps ==
    ASSUME PipelineInv, NEW r \in Requests, CheckCancelled(r) \/ TakeSlot(r)
    PROVE  PipelineInv'
<1>1. sem \in Int /\ others' = others
    BY RequestOf DEF CheckCancelled, TakeSlot
<1>2. CASE CheckCancelled(r)
    <2>1. req[r].prod = "acquire" /\ sem' = sem
        BY <1>2 DEF CheckCancelled
    <2>2. CASE WorkDone(req[r])
        <3>1. Become(r, [req[r] EXCEPT !.prod = "done", !.errCh = TRUE])
            BY <1>2, <2>2 DEF CheckCancelled
        <3>2. sem' = sem + (IF "done" = "read" THEN 1 ELSE 0)
                         - (IF req[r].prod = "read" THEN 1 ELSE 0)
            BY <1>1, <2>1
        <3>3. QED
            BY <1>1, <2>1, <3>1, <3>2, MoveStep
    <2>3. CASE ~WorkDone(req[r])
        <3>1. Become(r, [req[r] EXCEPT !.prod = "wait"])
            BY <1>2, <2>3 DEF CheckCancelled
        <3>2. sem' = sem + (IF "wait" = "read" THEN 1 ELSE 0)
            BY <1>1, <2>1
        <3>3. QED
            BY <1>1, <2>1, <3>1, <3>2, QuietMoveStep
    <2>4. QED
        BY <2>2, <2>3
<1>3. CASE TakeSlot(r)
    <2>1. req[r].prod = "wait"
        BY <1>3 DEF TakeSlot
    <2>2. CASE sem' = sem + 1 /\ Become(r, [req[r] EXCEPT !.prod = "read"])
        <3>1. sem' = sem + (IF "read" = "read" THEN 1 ELSE 0)
            BY <1>1, <2>2
        <3>2. QED
            BY <1>1, <2>1, <2>2, <3>1, QuietMoveStep
    <2>3. CASE Become(r, [req[r] EXCEPT !.prod = "done", !.errCh = TRUE]) /\ sem' = sem
        <3>1. sem' = sem + (IF "done" = "read" THEN 1 ELSE 0)
                         - (IF req[r].prod = "read" THEN 1 ELSE 0)
            BY <1>1, <2>1, <2>3
        <3>2. QED
            BY <1>1, <2>1, <2>3, <3>1, MoveStep
    <2>4. QED
        BY <1>3, <2>2, <2>3 DEF TakeSlot
<1>4. QED
    BY <1>2, <1>3

\* A block is cut: the producer keeps its slot.
LEMMA GotBlockStep ==
    ASSUME PipelineInv, NEW r \in Requests, req[r].prod = "read", req[r].read < req[r].body,
           NEW whole \in BOOLEAN, NEW next \in {"acquire", "done", "error"},
           BodyMayBreak \/ whole \/ next = "error",
           next = "done" => BodyMayBreak \/ req[r].read + 1 = req[r].body,
           GotBlock(r, whole, next), others' = others
    PROVE  PipelineInv'
<1> DEFINE q == req[r]
           b == Block(q.read + 1, whole)
           p == [q EXCEPT !.read = @ + 1, !.prod = "send", !.next = next, !.hand = b]
<1>1. ReqOk(q) /\ sem \in Int
    BY RequestOf
<1>2. Become(r, p) /\ sem' = sem
    BY DEF GotBlock
<1>3. ReqOk(p)
    BY <1>1, GotBlockOk
<1>4. p.jobs = q.jobs /\ p.work = q.work /\ p.prod = "send"
    BY <1>1 DEF ReqOk, ReqTyped
<1> HIDE DEF p
<1>5. sem' = sem + (Reads(p) - Reads(q))
    BY <1>1, <1>2, <1>4 DEF Reads
<1>6. QED
    BY <1>2, <1>3, <1>4, <1>5, ProducerStep

\* Nothing was read: the slot goes back.
LEMMA GotNothingStep ==
    ASSUME PipelineInv, NEW r \in Requests, req[r].prod = "read", NEW e \in BOOLEAN,
           e \/ BodyMayBreak \/ req[r].read = req[r].body,
           GotNothing(r, e), others' = others
    PROVE  PipelineInv'
<1>1. sem \in Int
    BY RequestOf
<1>2. Become(r, [req[r] EXCEPT !.prod = "done", !.errCh = e]) /\ sem' = sem - 1
    BY DEF GotNothing
<1>3. sem' = sem + (IF "done" = "read" THEN 1 ELSE 0) - (IF req[r].prod = "read" THEN 1 ELSE 0)
    BY <1>1, <1>2
<1>4. QED
    BY <1>2, <1>3, MoveStep

\* Read.
LEMMA ReadStep ==
    ASSUME PipelineInv, NEW r \in Requests, Read(r)
    PROVE  PipelineInv'
<1> DEFINE q == req[r]
<1>1. /\ q.prod = "read" /\ others' = others /\ BodyMayBreak \in BOOLEAN
      /\ q.read \in Nat /\ q.body \in Nat
    BY RequestOf, PipelineAssumption DEF Read, ReqOk, ReqTyped
<1>2. \/ q.read < q.body /\ GotBlock(r, TRUE, "acquire")
      \/ q.read + 1 = q.body /\ GotBlock(r, TRUE, "done")
      \/ q.read = q.body /\ GotNothing(r, FALSE)
      \/ BodyMayBreak /\ q.read < q.body /\ GotBlock(r, FALSE, "done")
      \/ BodyMayBreak /\ GotNothing(r, FALSE)
      \/ q.read < q.body /\ GotBlock(r, FALSE, "error")
      \/ GotNothing(r, TRUE)
    BY DEF Read
<1>3. CASE q.read < q.body /\ GotBlock(r, TRUE, "acquire")
    BY <1>1, <1>3, GotBlockStep
<1>4. CASE q.read + 1 = q.body /\ GotBlock(r, TRUE, "done")
    <2>1. q.read < q.body
        BY <1>1, <1>4
    <2>2. QED
        BY <1>1, <1>4, <2>1, GotBlockStep
<1>5. CASE q.read = q.body /\ GotNothing(r, FALSE)
    BY <1>1, <1>5, GotNothingStep
<1>6. CASE BodyMayBreak /\ q.read < q.body /\ GotBlock(r, FALSE, "done")
    BY <1>1, <1>6, GotBlockStep
<1>7. CASE BodyMayBreak /\ GotNothing(r, FALSE)
    BY <1>1, <1>7, GotNothingStep
<1>8. CASE q.read < q.body /\ GotBlock(r, FALSE, "error")
    BY <1>1, <1>8, GotBlockStep
<1>9. CASE GotNothing(r, TRUE)
    BY <1>1, <1>9, GotNothingStep
<1>10. QED
    BY <1>2, <1>3, <1>4, <1>5, <1>6, <1>7, <1>8, <1>9

\* Send: the slot goes with the block into the queue, or back.
LEMMA SendStep ==
    ASSUME PipelineInv, NEW r \in Requests, Send(r)
    PROVE  PipelineInv'
<1> DEFINE q == req[r]
<1>1. ReqOk(q) /\ sem \in Int /\ q.prod = "send" /\ others' = others
    BY RequestOf DEF Send
<1>2. ASSUME Len(q.jobs) < Capacity, sem' = sem,
             Become(r, [q EXCEPT !.jobs = Append(@, q.hand), !.hand = NoBlock,
                            !.prod = IF q.next = "acquire" THEN "acquire" ELSE "done",
                            !.errCh = (q.next = "error")])
      PROVE  PipelineInv'
    <2> DEFINE a == IF q.next = "acquire" THEN "acquire" ELSE "done"
               e == (q.next = "error")
               p == [q EXCEPT !.jobs = Append(@, q.hand), !.hand = NoBlock, !.prod = a, !.errCh = e]
    <2>1. e \in BOOLEAN
        OBVIOUS
    <2>2. Become(r, p)
        BY <1>2
    <2>3. a \in {"acquire", "done"} /\ (a = IF q.next = "acquire" THEN "acquire" ELSE "done")
        OBVIOUS
    <2>4. e <=> q.next = "error"
        OBVIOUS
    <2> HIDE DEF a, e
    <2>5. ReqOk(p)
        BY <1>1, <1>2, <2>1, <2>3, <2>4, SendOk
    <2>6. p.jobs = Append(q.jobs, q.hand) /\ p.work = q.work /\ p.prod = a
        BY <1>1 DEF ReqOk, ReqTyped
    <2> HIDE DEF p
    <2>7. Len(p.jobs) = Len(q.jobs) + 1 /\ Len(q.jobs) \in Int
        BY <1>1, <2>6 DEF ReqOk, ReqTyped
    <2>8. PICK k \in Workers : TRUE
        BY PipelineAssumption
    <2>9. Reads(p) = 0 /\ Reads(q) = 1 /\ Stores(p.work[k]) = Stores(q.work[k])
          /\ Stores(q.work[k]) \in Int
        BY <1>1, <2>3, <2>6 DEF Reads, Stores
    <2>10. SlotsMove(r, p, k)
        BY <1>1, <1>2, <2>6, <2>7, <2>9 DEF SlotsMove
    <2>11. QED
        BY <1>1, <2>2, <2>5, <2>8, <2>10, RequestStep
<1>3. ASSUME WorkDone(q), sem' = sem - 1,
             Become(r, [q EXCEPT !.hand = NoBlock, !.prod = "done"])
      PROVE  PipelineInv'
    <2> DEFINE p == [q EXCEPT !.hand = NoBlock, !.prod = "done"]
    <2>1. ReqOk(p)
        BY <1>1, <1>3, GiveUpOk
    <2>2. p.jobs = q.jobs /\ p.work = q.work /\ p.prod = "done"
        BY <1>1 DEF ReqOk, ReqTyped
    <2>3. Become(r, p)
        BY <1>3
    <2> HIDE DEF p
    <2>4. sem' = sem + (Reads(p) - Reads(q))
        BY <1>1, <1>3, <2>2 DEF Reads
    <2>5. QED
        BY <1>1, <2>1, <2>2, <2>3, <2>4, ProducerStep
<1>4. QED
    BY <1>2, <1>3 DEF Send

\* Take: the slot goes with the block to the worker.
LEMMA TakeJobStep ==
    ASSUME PipelineInv, NEW r \in Requests, NEW k \in Workers,
           req[r].work[k].pc = "take", req[r].jobs # << >>, sem' = sem, others' = others,
           Become(r, [req[r] EXCEPT !.jobs = Tail(@),
                !.work[k] = [pc |-> "store", block |-> Head(req[r].jobs), new |-> FALSE]])
    PROVE  PipelineInv'
<1> DEFINE q == req[r]
           w == [pc |-> "store", block |-> Head(q.jobs), new |-> FALSE]
           p == [q EXCEPT !.jobs = Tail(@), !.work[k] = w]
<1>1. ReqOk(q) /\ sem \in Int
    BY RequestOf
<1>2. Become(r, p) /\ w.pc = "store"
    OBVIOUS
<1>3. ReqOk(p)
    BY <1>1, TakeOk
<1> HIDE DEF w
<1>4. p.jobs = Tail(q.jobs) /\ p.work = [q.work EXCEPT ![k] = w] /\ p.prod = q.prod
    BY <1>1 DEF ReqOk, ReqTyped
<1>5. q.work \in [Workers -> WorkerSet] /\ q.jobs \in Seq(BlockSet)
    BY <1>1 DEF ReqOk, ReqTyped
<1> HIDE DEF p
<1>6. Len(p.jobs) = Len(q.jobs) - 1 /\ Len(q.jobs) \in Int
    BY <1>4, <1>5
<1>7. \A h \in Workers : p.work[h] = IF h = k THEN w ELSE q.work[h]
    BY <1>4, <1>5
<1>8. Stores(p.work[k]) = 1 /\ Stores(q.work[k]) = 0 /\ Reads(p) = Reads(q) /\ Reads(q) \in Int
    BY <1>2, <1>4, <1>7 DEF Stores, Reads
<1>9. SlotsMove(r, p, k)
    BY <1>1, <1>6, <1>7, <1>8 DEF SlotsMove
<1>10. QED
    BY <1>2, <1>3, <1>9, RequestStep

\* A worker that does not store afterwards returns the slot it had.
LEMMA WorkerSlotStep ==
    ASSUME PipelineInv, NEW r \in Requests, NEW k \in Workers,
           NEW p, Become(r, p), ReqOk(p), p.jobs = req[r].jobs, p.prod = req[r].prod,
           p.work[k].pc # "store", \A h \in Workers : h # k => p.work[h] = req[r].work[h],
           others' = others, sem' = IF req[r].work[k].pc = "store" THEN sem - 1 ELSE sem
    PROVE  PipelineInv'
<1> DEFINE q == req[r]
<1>1. ReqOk(q) /\ sem \in Int
    BY RequestOf
<1>2. Len(p.jobs) = Len(q.jobs) /\ Len(q.jobs) \in Int
    BY <1>1 DEF ReqOk, ReqTyped
<1>3. /\ Stores(p.work[k]) = 0 /\ Reads(p) = Reads(q) /\ Reads(q) \in Int
      /\ Stores(q.work[k]) \in Int /\ sem' = sem - Stores(q.work[k])
    BY <1>1 DEF Stores, Reads
<1>4. SlotsMove(r, p, k)
    BY <1>1, <1>2, <1>3 DEF SlotsMove
<1>5. QED
    BY <1>4, RequestStep

\* A worker leaves, or stores and returns the slot.
LEMMA WorkerMoveStep ==
    ASSUME PipelineInv, NEW r \in Requests, NEW k \in Workers,
           req[r].work[k].pc \in {"take", "store"}, NEW w \in WorkerSet, NEW rows,
           \/ /\ req[r].work[k].pc = "take" /\ w.pc = "exited"
              /\ req[r].jobs = << >> /\ req[r].prod = "done"
           \/ /\ req[r].work[k].pc = "store" /\ w.pc \in {"report", "fail"}
              /\ w.block = req[r].work[k].block,
           \/ rows = req[r].rows
           \/ /\ rows = req[r].rows \union {req[r].work[k].block.idx}
              /\ w.pc = "report" /\ w.new,
           Become(r, [req[r] EXCEPT !.work[k] = w, !.rows = rows]), others' = others,
           sem' = IF req[r].work[k].pc = "store" THEN sem - 1 ELSE sem
    PROVE  PipelineInv'
<1> DEFINE p == [req[r] EXCEPT !.work[k] = w, !.rows = rows]
<1>1. ReqOk(req[r])
    BY RequestOf
<1>2. ReqOk(p)
    BY <1>1, WorkerMovesOk
<1>3. /\ p.jobs = req[r].jobs /\ p.prod = req[r].prod
      /\ p.work = [req[r].work EXCEPT ![k] = w]
    BY <1>1 DEF ReqOk, ReqTyped
<1>4. Become(r, p)
    OBVIOUS
<1> HIDE DEF p
<1>5. p.work[k].pc # "store" /\ \A h \in Workers : h # k => p.work[h] = req[r].work[h]
    <2>1. req[r].work \in [Workers -> WorkerSet]
        BY <1>1 DEF ReqOk, ReqTyped
    <2>2. QED
        BY <1>3, <2>1
<1>6. QED
    BY <1>2, <1>3, <1>4, <1>5, WorkerSlotStep

\* Take.
LEMMA TakeStep ==
    ASSUME PipelineInv, NEW r \in Requests, NEW k \in Workers, Take(r, k)
    PROVE  PipelineInv'
<1> DEFINE q == req[r]
<1>1. ReqOk(q) /\ q.work[k].pc = "take" /\ sem' = sem /\ others' = others /\ sem \in Int
    BY RequestOf DEF Take
<1>2. ASSUME q.jobs # << >>,
             Become(r, [q EXCEPT !.jobs = Tail(@),
                !.work[k] = [pc |-> "store", block |-> Head(q.jobs), new |-> FALSE]])
      PROVE  PipelineInv'
    BY <1>1, <1>2, TakeJobStep
<1>3. ASSUME q.jobs = << >>, q.prod = "done", Become(r, [q EXCEPT !.work[k].pc = "exited"])
      PROVE  PipelineInv'
    <2> DEFINE w == [q.work[k] EXCEPT !.pc = "exited"]
    <2>1. w \in WorkerSet /\ w.pc = "exited"
        BY <1>1 DEF ReqOk, ReqTyped, WorkerSet
    <2>2. [q EXCEPT !.work[k].pc = "exited"] = [q EXCEPT !.work[k] = w, !.rows = q.rows]
        BY <1>1 DEF ReqOk, ReqTyped, WorkerSet
    <2>3. Become(r, [q EXCEPT !.work[k] = w, !.rows = q.rows])
        BY <1>3, <2>2
    <2> HIDE DEF w
    <2>4. sem' = IF q.work[k].pc = "store" THEN sem - 1 ELSE sem
        BY <1>1
    <2>5. QED
        BY <1>1, <1>3, <2>1, <2>3, <2>4, WorkerMoveStep
<1>4. QED
    BY <1>2, <1>3 DEF Take

\* Store.
LEMMA StoreStep ==
    ASSUME PipelineInv, NEW r \in Requests, NEW k \in Workers, Store(r, k)
    PROVE  PipelineInv'
<1> DEFINE q == req[r]
<1>1. ReqOk(q) /\ q.work[k].pc = "store" /\ sem' = sem - 1 /\ others' = others
    BY RequestOf DEF Store
<1>2. q.work[k] \in WorkerSet /\ sem' = IF q.work[k].pc = "store" THEN sem - 1 ELSE sem
    BY <1>1 DEF ReqOk, ReqTyped
<1>3. ASSUME NEW c \in {"report", "fail"}, Become(r, [q EXCEPT !.work[k].pc = c])
      PROVE  PipelineInv'
    <2> DEFINE w == [q.work[k] EXCEPT !.pc = c]
    <2>1. w \in WorkerSet /\ w.pc = c /\ w.block = q.work[k].block
        BY <1>2 DEF WorkerSet
    <2>2. [q EXCEPT !.work[k].pc = c] = [q EXCEPT !.work[k] = w, !.rows = q.rows]
        BY <1>1 DEF ReqOk, ReqTyped, WorkerSet
    <2>3. Become(r, [q EXCEPT !.work[k] = w, !.rows = q.rows])
        BY <1>3, <2>2
    <2> HIDE DEF w
    <2>4. QED
        BY <1>1, <1>2, <2>1, <2>3, WorkerMoveStep
<1>4. ASSUME Become(r, [q EXCEPT !.work[k].pc = "report", !.work[k].new = TRUE,
                                 !.rows = @ \union {q.work[k].block.idx}])
      PROVE  PipelineInv'
    <2> DEFINE w    == [q.work[k] EXCEPT !.pc = "report", !.new = TRUE]
               rows == q.rows \union {q.work[k].block.idx}
    <2>1. w \in WorkerSet /\ w.pc = "report" /\ w.new /\ w.block = q.work[k].block
        BY <1>2 DEF WorkerSet
    <2>2. [q EXCEPT !.work[k].pc = "report", !.work[k].new = TRUE, !.rows = rows]
              = [q EXCEPT !.work[k] = w, !.rows = rows]
        BY <1>1 DEF ReqOk, ReqTyped, WorkerSet
    <2>3. Become(r, [q EXCEPT !.work[k] = w, !.rows = rows])
        BY <1>4, <2>2
    <2>4. rows = q.rows \union {q.work[k].block.idx}
        OBVIOUS
    <2> HIDE DEF w, rows
    <2>5. QED
        BY <1>1, <1>2, <2>1, <2>3, <2>4, WorkerMoveStep
<1>5. QED
    BY <1>3, <1>4 DEF Store

\* Report.
LEMMA ReportStep ==
    ASSUME PipelineInv, NEW r \in Requests, NEW k \in Workers, Report(r, k)
    PROVE  PipelineInv'
<1> DEFINE q == req[r]
<1>1. /\ ReqOk(q) /\ q.work[k].pc \in {"report", "fail"} /\ sem' = sem /\ others' = others
      /\ sem \in Int /\ q.work \in [Workers -> WorkerSet]
    BY RequestOf DEF Report, ReqOk, ReqTyped
<1>2. PICK p : /\ Become(r, p) /\ ReqOk(p) /\ p.jobs = q.jobs /\ p.prod = q.prod
               /\ p.work = [q.work EXCEPT ![k] = [IdleWorker EXCEPT !.pc = "take"]]
    <2>1. CASE q.work[k].pc = "fail"
        <3> DEFINE p == AfterReport(StopOthers(q), k)
        <3>1. Become(r, p) /\ ReqOk(p)
            BY <1>1, <2>1, ReportErrorOk DEF Report
        <3>2. /\ p.jobs = q.jobs /\ p.prod = q.prod
              /\ p.work = [q.work EXCEPT ![k] = [IdleWorker EXCEPT !.pc = "take"]]
            BY <1>1 DEF AfterReport, StopOthers, ReqOk, ReqTyped
        <3> HIDE DEF p
        <3>3. QED
            BY <3>1, <3>2
    <2>2. CASE q.work[k].pc = "report"
        <3> DEFINE p == AfterReport(Record(q, q.work[k]), k)
        <3>1. Become(r, p) /\ ReqOk(p)
            BY <1>1, <2>2, ReportOk DEF Report
        <3>2. /\ p.jobs = q.jobs /\ p.prod = q.prod
              /\ p.work = [q.work EXCEPT ![k] = [IdleWorker EXCEPT !.pc = "take"]]
            BY <1>1 DEF AfterReport, Record, PutAt, ReqOk, ReqTyped
        <3> HIDE DEF p
        <3>3. QED
            BY <3>1, <3>2
    <2>3. QED
        BY <1>1, <2>1, <2>2
<1>3. \A h \in Workers : p.work[h].pc = "store" <=> q.work[h].pc = "store"
    <2>1. [IdleWorker EXCEPT !.pc = "take"].pc = "take"
        BY DEF IdleWorker
    <2>2. QED
        BY <1>1, <1>2, <2>1
<1>4. sem' = sem + (Reads(p) - Reads(q))
    BY <1>1, <1>2 DEF Reads
<1>5. QED
    BY <1>1, <1>2, <1>3, <1>4, ProducerStep

\* Collected and Commit: the request's own goroutine ends.
LEMMA EndStep ==
    ASSUME PipelineInv, NEW r \in Requests, Collected(r) \/ Commit(r)
    PROVE  PipelineInv'
<1> DEFINE q == req[r]
<1>1. ReqOk(q) /\ sem' = sem /\ others' = others /\ sem \in Int
    BY RequestOf DEF Collected, Commit
<1>2. q.pc \in {"collect", "commit"} /\ \A k \in Workers : q.work[k].pc = "exited"
    BY <1>1 DEF Collected, Commit, ReqOk, LeavePart
<1>3. PICK p : /\ Become(r, p)
               /\ \/ p = Fail(q)
                  \/ p = [q EXCEPT !.pc = "commit"] /\ q.pc = "collect" /\ Clean(q)
                  \/ p = [q EXCEPT !.pc = "ok"] /\ q.pc = "commit"
    BY DEF Collected, Commit, Clean
<1>4. ReqOk(p)
    BY <1>1, <1>2, <1>3, EndOk
<1>5. p.jobs = q.jobs /\ p.work = q.work /\ p.prod = q.prod
    BY <1>1, <1>3 DEF Fail, ReqOk, ReqTyped
<1>6. sem' = sem + (Reads(p) - Reads(q))
    BY <1>1, <1>5 DEF Reads
<1>7. QED
    BY <1>1, <1>3, <1>4, <1>5, <1>6, ProducerStep

-----------------------------------------------------------------------------
\* The invariant holds when the server starts.
LEMMA InitPipeline == Init => PipelineInv
<1> SUFFICES ASSUME Init PROVE PipelineInv
    OBVIOUS
<1>1. /\ req = [r \in Requests |-> req[r]] /\ \A r \in Requests : req[r] = Idle
      /\ sem = 0 /\ others = 0
    BY DEF Init
<1>2. Idle.prod = "done" /\ Idle.jobs = << >> /\ \A k \in Workers : Idle.work[k].pc = "exited"
    BY DEF Idle, IdleWorker
<1>3. Producing = {} /\ Storing = {} /\ Queued = {}
    <2>1. Producing = {} /\ Storing = {}
        BY <1>1, <1>2 DEF Producing, Storing
    <2>2. \A r \in Requests : Len(req[r].jobs) = 0
        BY <1>1, <1>2
    <2>3. Queued = {}
        BY <2>2, CapacityTyped DEF Queued
    <2>4. QED
        BY <2>1, <2>3
<1>4. SlotsExact
    BY <1>1, <1>3, FS_EmptySet DEF SlotsExact
<1>5. QED
    BY <1>1, <1>4, IdleOk DEF PipelineInv

\* And every step keeps it.
LEMMA NextPipeline == PipelineInv /\ [Next]_vars => PipelineInv'
<1> SUFFICES ASSUME PipelineInv, [Next]_vars PROVE PipelineInv'
    OBVIOUS
<1>1. CASE OtherTakes \/ OtherReturns
    BY <1>1, OtherStep
<1>2. ASSUME NEW r \in Requests, Start(r) \/ Cancel(r) \/ Reset(r) PROVE PipelineInv'
    BY <1>2, LifeSteps
<1>3. ASSUME NEW r \in Requests, CheckCancelled(r) \/ TakeSlot(r) PROVE PipelineInv'
    BY <1>3, AcquireSteps
<1>4. ASSUME NEW r \in Requests, Read(r) PROVE PipelineInv'
    BY <1>4, ReadStep
<1>5. ASSUME NEW r \in Requests, Send(r) PROVE PipelineInv'
    BY <1>5, SendStep
<1>6. ASSUME NEW r \in Requests, Collected(r) \/ Commit(r) PROVE PipelineInv'
    BY <1>6, EndStep
<1>7. ASSUME NEW r \in Requests, NEW k \in Workers, Worker(r, k) PROVE PipelineInv'
    BY <1>7, TakeStep, StoreStep, ReportStep DEF Worker
<1>8. CASE UNCHANGED vars
    BY <1>8 DEF vars, PipelineInv, SlotsExact, Producing, Queued, Storing
<1>9. QED
    BY <1>1, <1>2, <1>3, <1>4, <1>5, <1>6, <1>7, <1>8 DEF Next

\* The limiter, for any number of requests, workers and slots: whatever order
\* producers, workers, errors and cancellations come in, the slots taken are
\* those of the blocks in memory (inflight.go, PutFileContext).
THEOREM PipelineSlotsExact == Spec => []SlotsExact
<1>1. PipelineInv => SlotsExact
    BY PipelineInvImplies
<1>2. QED
    BY <1>1, InitPipeline, NextPipeline, PTL DEF Spec

\* A failed PutFileContext leaves no row: every row a worker inserted has
\* reached the collector, and so cleanupNewChunks, when the request returns.
THEOREM PipelineFailureLeavesNoRows == Spec => []FailureLeavesNoRows
<1>1. PipelineInv => FailureLeavesNoRows
    BY PipelineInvImplies
<1>2. QED
    BY <1>1, InitPipeline, NextPipeline, PTL DEF Spec

\* A body that does not break off unnoticed is committed whole and in order,
\* whatever order its blocks are stored in.
THEOREM PipelineCommitsWholeBody == ~BodyMayBreak /\ Spec => []CommitsWholeBody
<1> SUFFICES ASSUME ~BodyMayBreak PROVE Spec => []CommitsWholeBody
    OBVIOUS
<1>1. PipelineInv => CommitsWholeBody
    BY PipelineInvImplies
<1>2. QED
    BY <1>1, InitPipeline, NextPipeline, PTL DEF Spec
=============================================================================
