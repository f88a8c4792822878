---------------------------- MODULE PutPipeline ----------------------------
(***************************************************************************)
(* Inside PutFileContext: per request a producer that cuts the body into   *)
(* blocks, uploadWorkers workers that store them, and the collector that   *)
(* puts the results in order and commits.  Requests share the process-wide *)
(* limiter of blocks in memory with each other and with rsync sessions.    *)
(* What storing one block does is in module Repo; here it succeeds, with a *)
(* new or a reused row, or fails.                                          *)
(***************************************************************************)
EXTENDS Integers, Sequences, FiniteSets

CONSTANTS
    Requests,
    Workers,       \* uploadWorkers, as a set; jobCh has as many places
    Slots,         \* upload.max_inflight_chunks
    MaxBlocks,     \* bound: blocks in a body
    BodyMayBreak   \* may the connection end before the announced body does?

ASSUME PipelineAssumption ==
    /\ IsFiniteSet(Requests) /\ IsFiniteSet(Workers) /\ Workers # {}
    /\ Slots \in Nat \ {0} /\ MaxBlocks \in Nat
    /\ BodyMayBreak \in BOOLEAN

VARIABLES
    req,     \* request -> its goroutines and what they share
    sem,     \* InflightLimiter: slots taken
    others   \* how many of them by rsync blocks (StoreChunkContext)

vars == <<req, sem, others>>

\* A block as cut by the producer: its index, and is it all the client sent?
Block(i, whole) == [idx |-> i, whole |-> whole]
NoBlock    == Block(0, TRUE)
IdleWorker == [pc |-> "exited", block |-> NoBlock, new |-> FALSE]
Capacity   == Cardinality(Workers)

Idle == [pc |-> "idle",                        \* the request's own goroutine
         body |-> 0, read |-> 0,               \* blocks sent by the client, delivered by src
         closed |-> FALSE,                     \* src has been closed
         prod |-> "done", hand |-> NoBlock, next |-> "done",   \* producer
         jobs |-> << >>,                       \* jobCh
         work |-> [k \in Workers |-> IdleWorker],
         refs |-> << >>, new |-> {}, err |-> FALSE,   \* refsByIdx, newChunks, firstErr
         errCh |-> FALSE,                      \* the producer's error has been sent
         cancelled |-> FALSE, stopped |-> FALSE,   \* ctx and workCtx
         rows |-> {}]                          \* ghost: blocks it inserted a row for

Init == req = [r \in Requests |-> Idle] /\ sem = 0 /\ others = 0

Become(r, q) == req' = [req EXCEPT ![r] = q]
Running(q)   == q.pc \notin {"idle", "ok", "failed"}
WorkDone(q)  == q.cancelled \/ q.stopped

\* The request arrives: all goroutines are started.
Start(r) ==
    /\ req[r].pc = "idle"
    /\ \E n \in 0 .. MaxBlocks :
        Become(r, [Idle EXCEPT !.pc = "collect", !.body = n, !.prod = "acquire",
                               !.work = [k \in Workers |-> [IdleWorker EXCEPT !.pc = "take"]]])
    /\ UNCHANGED <<sem, others>>

\* The client goes away and the watcher closes the body.
Cancel(r) ==
    /\ Running(req[r])
    /\ Become(r, [req[r] EXCEPT !.cancelled = TRUE, !.closed = TRUE])
    /\ UNCHANGED <<sem, others>>

\* The handler has answered; its client may send another request.
Reset(r) ==
    /\ req[r].pc \in {"ok", "failed"}
    /\ Become(r, Idle)
    /\ UNCHANGED <<sem, others>>

\* StoreChunkContext of an rsync session: one slot for one block.
OtherTakes   == sem < Slots /\ sem' = sem + 1 /\ others' = others + 1 /\ UNCHANGED req
OtherReturns == others > 0 /\ sem' = sem - 1 /\ others' = others - 1 /\ UNCHANGED req

-----------------------------------------------------------------------------
(* Producer.                                                               *)

\* Acquire: a request that is already cancelled takes no slot ...
CheckCancelled(r) ==
    /\ req[r].prod = "acquire"
    /\ Become(r, IF WorkDone(req[r]) THEN [req[r] EXCEPT !.prod = "done", !.errCh = TRUE]
                                     ELSE [req[r] EXCEPT !.prod = "wait"])
    /\ UNCHANGED <<sem, others>>

\* ... one that waits takes a slot or is cancelled, whichever select picks.
TakeSlot(r) ==
    /\ req[r].prod = "wait"
    /\ \/ sem < Slots /\ sem' = sem + 1 /\ Become(r, [req[r] EXCEPT !.prod = "read"])
       \/ /\ WorkDone(req[r])
          /\ Become(r, [req[r] EXCEPT !.prod = "done", !.errCh = TRUE])
          /\ UNCHANGED sem
    /\ UNCHANGED others

\* io.ReadFull returned n > 0 bytes; next is what its error makes of the loop.
GotBlock(r, whole, next) ==
    /\ Become(r, [req[r] EXCEPT !.read = @ + 1, !.prod = "send", !.next = next,
                                !.hand = Block(req[r].read + 1, whole)])
    /\ UNCHANGED sem

\* Mutant: an empty read keeps its slot.
GotNothingKeepsSlot(r, err) ==
    Become(r, [req[r] EXCEPT !.prod = "done", !.errCh = err]) /\ UNCHANGED sem

\* io.ReadFull returned nothing: the slot goes back.
GotNothing(r, err) ==
    Become(r, [req[r] EXCEPT !.prod = "done", !.errCh = err]) /\ sem' = sem - 1

\* One io.ReadFull.  A full block continues the loop; io.EOF and
\* io.ErrUnexpectedEOF end the body.  ReadFull makes ErrUnexpectedEOF of a short
\* last block; the HTTP server reports a body that breaks off by the same value.
Read(r) ==
    /\ req[r].prod = "read"
    /\ \/ req[r].read < req[r].body /\ GotBlock(r, TRUE, "acquire")
       \/ req[r].read + 1 = req[r].body /\ GotBlock(r, TRUE, "done")
       \/ req[r].read = req[r].body /\ GotNothing(r, FALSE)
       \/ /\ BodyMayBreak /\ req[r].read < req[r].body
          /\ GotBlock(r, FALSE, "done") \/ GotNothing(r, FALSE)
       \/ req[r].read < req[r].body /\ GotBlock(r, FALSE, "error")
       \/ GotNothing(r, TRUE)
    /\ UNCHANGED others

\* Hand the block over with its slot, or give up.
Send(r) ==
    /\ req[r].prod = "send"
    /\ \/ /\ Len(req[r].jobs) < Capacity
          /\ Become(r, [req[r] EXCEPT !.jobs = Append(@, req[r].hand), !.hand = NoBlock,
                            !.prod = IF req[r].next = "acquire" THEN "acquire" ELSE "done",
                            !.errCh = (req[r].next = "error")])
          /\ UNCHANGED sem
       \/ /\ WorkDone(req[r])
          /\ Become(r, [req[r] EXCEPT !.hand = NoBlock, !.prod = "done"])
          /\ sem' = sem - 1
    /\ UNCHANGED others

-----------------------------------------------------------------------------
(* Workers and collector.                                                  *)

\* The next job, or the end: jobCh is empty and closed.
Take(r, k) ==
    /\ req[r].work[k].pc = "take"
    /\ \/ /\ req[r].jobs # << >>
          /\ Become(r, [req[r] EXCEPT !.jobs = Tail(@),
                !.work[k] = [pc |-> "store", block |-> Head(req[r].jobs), new |-> FALSE]])
       \/ /\ req[r].jobs = << >> /\ req[r].prod = "done"
          /\ Become(r, [req[r] EXCEPT !.work[k].pc = "exited"])
    /\ UNCHANGED <<sem, others>>

\* storeChunkContext returns and the slot is released.
Store(r, k) ==
    /\ req[r].work[k].pc = "store"
    /\ \/ Become(r, [req[r] EXCEPT !.work[k].pc = "report"])
       \/ Become(r, [req[r] EXCEPT !.work[k].pc = "report", !.work[k].new = TRUE,
                                   !.rows = @ \union {req[r].work[k].block.idx}])
       \/ Become(r, [req[r] EXCEPT !.work[k].pc = "fail"])
    /\ sem' = sem - 1
    /\ UNCHANGED others

\* Block w.block takes place i of refsByIdx; a new row joins newChunks.
PutAt(q, i, w) ==
    [q EXCEPT !.refs = [j \in DOMAIN q.refs \union {i} |-> IF j = i THEN w.block ELSE q.refs[j]],
              !.new = IF w.new THEN @ \union {w.block.idx} ELSE @]

\* Mutants: blocks kept in order of arrival; no rows recorded after an error.
RecordArrival(q, w)    == PutAt(q, Cardinality(DOMAIN q.refs) + 1, w)
RecordUntilError(q, w) == IF q.err THEN q ELSE PutAt(q, w.block.idx, w)

\* The collector receives a block: it goes to the place of its index.
Record(q, w) == PutAt(q, w.block.idx, w)

\* It receives an error; the worker closes the body and cancels workCtx.
StopOthersNoClose(q) == [q EXCEPT !.err = TRUE, !.stopped = TRUE]   \* mutant
StopOthers(q) == [q EXCEPT !.err = TRUE, !.closed = TRUE, !.stopped = TRUE]

\* After its result a worker takes the next job (mutant: not after a failure).
AfterReportReturn(q, k) ==
    [q EXCEPT !.work[k] = [IdleWorker EXCEPT !.pc = IF q.work[k].pc = "fail" THEN "exited" ELSE "take"]]
AfterReport(q, k) == [q EXCEPT !.work[k] = [IdleWorker EXCEPT !.pc = "take"]]

\* The result goes to the collector, which always receives: resCh only delays.
Report(r, k) ==
    /\ req[r].work[k].pc \in {"report", "fail"}
    /\ Become(r, AfterReport(IF req[r].work[k].pc = "fail" THEN StopOthers(req[r])
                             ELSE Record(req[r], req[r].work[k]), k))
    /\ UNCHANGED <<sem, others>>

\* Return an error: every new chunk the collector knows of is cleaned up.
Fail(q) == [q EXCEPT !.pc = "failed", !.rows = @ \ q.new]

\* After the last worker: the producer's error, then the request's context.
Collected(r) ==
    /\ req[r].pc = "collect"
    /\ \A k \in Workers : req[r].work[k].pc = "exited"
    /\ Become(r, IF req[r].err \/ req[r].errCh \/ req[r].cancelled
                 THEN Fail(req[r]) ELSE [req[r] EXCEPT !.pc = "commit"])
    /\ UNCHANGED <<sem, others>>

\* Under the write lock: the context again, the parent directory, UpsertFile.
Commit(r) ==
    /\ req[r].pc = "commit"
    /\ \/ ~req[r].cancelled /\ Become(r, [req[r] EXCEPT !.pc = "ok"])
       \/ Become(r, Fail(req[r]))
    /\ UNCHANGED <<sem, others>>

-----------------------------------------------------------------------------
Worker(r, k) == Take(r, k) \/ Store(r, k) \/ Report(r, k)

Next ==
    \/ OtherTakes \/ OtherReturns
    \/ \E r \in Requests :
        \/ Start(r) \/ Cancel(r) \/ Reset(r)
        \/ CheckCancelled(r) \/ TakeSlot(r) \/ Read(r) \/ Send(r)
        \/ Collected(r) \/ Commit(r)
        \/ \E k \in Workers : Worker(r, k)

Spec == Init /\ [][Next]_vars

\* Goroutines run and block stores return.  A read returns once the body is
\* closed; nothing is assumed of a client that is just slow.  Senders on the
\* limiter's channel are served in their order (strong fairness).
Fairness == \A r \in Requests :
    /\ WF_vars(CheckCancelled(r) \/ Send(r) \/ (req[r].closed /\ Read(r)))
    /\ SF_vars(TakeSlot(r))
    /\ WF_vars(Collected(r) \/ Commit(r))
    /\ \A k \in Workers : WF_vars(Worker(r, k))

FairSpec == Spec /\ Fairness

-----------------------------------------------------------------------------
(* Properties.                                                             *)

\* Holders of a slot: producers that read or hand over, queued jobs, and
\* workers that store.
Producing == {r \in Requests : req[r].prod \in {"read", "send"}}
Queued    == {h \in Requests \X (1 .. Capacity) : h[2] <= Len(req[h[1]].jobs)}
Storing   == {h \in Requests \X Workers : req[h[1]].work[h[2]].pc = "store"}

\* The limiter counts exactly the blocks in memory: no path through producer
\* and workers loses a slot or gives one back twice (inflight.go: "every
\* successful Acquire must call the returned release").
SlotsExact ==
    sem = others + Cardinality(Producing) + Cardinality(Queued) + Cardinality(Storing)

\* A successful answer means that the whole body is stored, block i of the body
\* at index i, whatever order the workers finished in (docs/usage.md:127: a
\* broken stream does not make part of a request count as success).
CommitsWholeBody ==
    \A r \in Requests : req[r].pc = "ok" =>
        req[r].refs = [i \in 1 .. req[r].body |-> Block(i, TRUE)]

\* A failed request has passed every row it inserted to cleanupNewChunks, also
\* the rows whose results arrived after the first error.
FailureLeavesNoRows == \A r \in Requests : req[r].pc = "failed" => req[r].rows = {}

\* A request that was cancelled or one of whose blocks failed returns, however
\* long its own client and the holders of the other slots wait.
FailedReturns ==
    \A r \in Requests : req[r].cancelled \/ req[r].err ~> ~Running(req[r])

\* If neither clients nor sessions stall for ever every request returns:
\* limiter, channel and goroutines cannot block each other.
AllReturn ==
    /\ \A r \in Requests : []<>(req[r].prod # "read")
    /\ []<>(others = 0)
    => \A r \in Requests : req[r].pc = "collect" ~> ~Running(req[r])
=============================================================================
