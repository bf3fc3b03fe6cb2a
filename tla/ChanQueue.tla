----------------------------- MODULE ChanQueue -----------------------------
(***************************************************************************)
(* The job queue of internal/queue (chan_queue.go, worker.go): a buffered  *)
(* channel of jobs, a dispatcher goroutine, a pool of worker goroutines    *)
(* that lend their private channel through a channel of channels, and a    *)
(* WaitGroup that Terminate waits on before it closes the channels.        *)
(*                                                                         *)
(* Each job is pushed by a goroutine of its own (the event bus runs every  *)
(* handler in one), so the push of job j and the job itself share the      *)
(* program counter stage[j].  A send on a closed channel panics, and so    *)
(* does a WaitGroup that notices an Add while its waiter is being          *)
(* released; either ends the process: panicked.                            *)
(***************************************************************************)
EXTENDS Naturals, Sequences, FiniteSets

CONSTANTS
  Jobs,          (* jobs that may be pushed, each at most once              *)
  MaxThread,     (* number of workers                                       *)
  MaxCapacity,   (* capacity of jobQueue                                    *)
  JoinPushers,   (* TRUE: the caller of Terminate has waited for its pushes *)
                 (* to return, as the package's tests do; FALSE: pushes may *)
                 (* be under way, as in main.go, where the bus owns them    *)
  NoJob          (* the zero value of a job variable                        *)

ASSUME QueueAssumption ==
  /\ IsFiniteSet(Jobs)
  /\ MaxThread \in Nat \ {0}
  /\ MaxCapacity \in Nat \ {0}
  /\ JoinPushers \in BOOLEAN
  /\ NoJob \notin Jobs

Workers == 1..MaxThread

(* The receive of a closed, empty workerPool yields a nil channel.         *)
NilChan == 0

VARIABLES
  caller,      (* the goroutine that calls Run and then Terminate           *)
  running,     (* Queue.running                                             *)
  wg,          (* the WaitGroup's counter                                   *)
  jobQueue, jobQueueClosed,       (* chan Jober                             *)
  workerPool, workerPoolClosed,   (* chan chan Jober: worker numbers        *)
  quit,        (* Stop was called on the workers 1..quit                    *)
  dpc, djob, dworker,   (* the dispatcher: program counter, job, worker     *)
  wpc, wjob,   (* the workers' program counters and jobs                    *)
  stage,       (* how far the push and the execution of each job got        *)
  ran,         (* how often each job's Job() was run                        *)
  panicked

vars == <<caller, running, wg, jobQueue, jobQueueClosed, workerPool,
          workerPoolClosed, quit, dpc, djob, dworker, wpc, wjob, stage, ran,
          panicked>>

callerVars == <<caller, running, jobQueueClosed, workerPoolClosed, quit>>
dispVars == <<dpc, djob, dworker>>
workerVars == <<wpc, wjob, ran>>

Stages == {"idle", "checked", "added", "queued", "dispatched",
           "running", "ran", "repooled", "done", "dropped"}

(* Counted by wg: between wg.Add(1) in Push and wg.Done() in the worker.   *)
InFlight == {"added", "queued", "dispatched", "running", "ran", "repooled"}

(* wg.Wait has returned.                                                   *)
PastWait == caller \in {"closing", "stopping", "done"}

Init ==
  /\ caller = "created"
  /\ running = 0
  /\ wg = 0
  /\ jobQueue = <<>> /\ jobQueueClosed = FALSE
  /\ workerPool = <<>> /\ workerPoolClosed = FALSE
  /\ quit = 0
  /\ dpc = "off" /\ djob = NoJob /\ dworker = NilChan
  /\ wpc = [w \in Workers |-> "off"]
  /\ wjob = [w \in Workers |-> NoJob]
  /\ stage = [j \in Jobs |-> "idle"]
  /\ ran = [j \in Jobs |-> 0]
  /\ panicked = FALSE

-----------------------------------------------------------------------------
(* Run: mark running, put every worker's channel into the pool, start the  *)
(* workers' goroutines and the dispatcher.  main.go calls it once.         *)
Run ==
  /\ ~panicked
  /\ caller = "created"
  /\ caller' = "serving"
  /\ running' = 1
  /\ workerPool' = [w \in Workers |-> w]
  /\ wpc' = [w \in Workers |-> "select"]
  /\ dpc' = "range"
  /\ UNCHANGED <<wg, jobQueue, jobQueueClosed, workerPoolClosed, quit, djob,
                 dworker, wjob, stage, ran, panicked>>

-----------------------------------------------------------------------------
(* A send on a closed channel, or a misused WaitGroup: the process ends.   *)
Panics ==
  /\ ~panicked
  /\ panicked' = TRUE
  /\ UNCHANGED <<callerVars, wg, jobQueue, workerPool, dispVars, workerVars, stage>>

-----------------------------------------------------------------------------
(* Push, in its three atomic steps: the load of running, wg.Add, the send. *)
PushStep(j, from, to) ==
  /\ ~panicked
  /\ stage[j] = from
  /\ stage' = [stage EXCEPT ![j] = to]
  /\ UNCHANGED <<callerVars, workerPool, dispVars, workerVars, panicked>>

PushCheck(j) ==
  /\ PushStep(j, "idle", IF running = 1 THEN "checked" ELSE "dropped")
  /\ UNCHANGED <<wg, jobQueue>>

(* The counter has come back to zero and the WaitGroup still knows its     *)
(* waiter.                                                                 *)
Releasing == caller = "blocked" /\ wg = 0

(* wg.Add panics on a counter of zero that has a waiter ("Add called       *)
(* concurrently with Wait").                                               *)
PushAdd(j) ==
  /\ stage[j] = "checked"
  /\ \/ Releasing /\ Panics
     \/ /\ ~Releasing
        /\ PushStep(j, "checked", "added")
        /\ wg' = wg + 1
        /\ UNCHANGED jobQueue

PushSend(j) ==
  /\ stage[j] = "added"
  /\ \/ jobQueueClosed /\ Panics
     \/ /\ PushStep(j, "added", "queued")
        /\ ~jobQueueClosed
        /\ Len(jobQueue) < MaxCapacity
        /\ jobQueue' = Append(jobQueue, j)
        /\ UNCHANGED wg

-----------------------------------------------------------------------------
(* Queue.dispatcher: range over jobQueue; take a worker's channel from the *)
(* pool; hand it the job.                                                  *)
DispatchStep(from, to) ==
  /\ ~panicked
  /\ dpc = from /\ dpc' = to
  /\ UNCHANGED <<callerVars, wg, ran, panicked>>

DispatchReceive ==
  /\ \/ /\ jobQueue # <<>>
        /\ DispatchStep("range", "pick")
        /\ jobQueue' = Tail(jobQueue)
        /\ djob' = Head(jobQueue)
        /\ stage' = [stage EXCEPT ![Head(jobQueue)] = "dispatched"]
     \/ /\ jobQueue = <<>> /\ jobQueueClosed
        /\ DispatchStep("range", "exit")
        /\ UNCHANGED <<jobQueue, djob, stage>>
  /\ UNCHANGED <<workerPool, dworker, wpc, wjob>>

(* Mutant: the dispatcher looks at the pool without receiving from it.     *)
DispatchPickPeek ==
  /\ DispatchStep("pick", "hand")
  /\ workerPool # <<>>
  /\ dworker' = Head(workerPool)
  /\ UNCHANGED <<jobQueue, workerPool, djob, wpc, wjob, stage>>

DispatchPick ==
  /\ DispatchStep("pick", "hand")
  /\ \/ /\ workerPool # <<>>
        /\ workerPool' = Tail(workerPool)
        /\ dworker' = Head(workerPool)
     \/ /\ workerPool = <<>> /\ workerPoolClosed
        /\ dworker' = NilChan
        /\ UNCHANGED workerPool
  /\ UNCHANGED <<jobQueue, djob, wpc, wjob, stage>>

(* worker <- job: a rendezvous with the worker's select, after which the   *)
(* dispatcher goes on at next; a panic when that worker has closed its     *)
(* channel; blocked for ever on the nil channel.                           *)
HandTo(next) ==
  /\ dworker # NilChan
  /\ \/ dpc = "hand" /\ wpc[dworker] = "stopped" /\ Panics
     \/ /\ DispatchStep("hand", next)
        /\ wpc[dworker] = "select"
        /\ wpc' = [wpc EXCEPT ![dworker] = "running"]
        /\ wjob' = [wjob EXCEPT ![dworker] = djob]
        /\ stage' = [stage EXCEPT ![djob] = "running"]
        /\ djob' = NoJob /\ dworker' = NilChan
        /\ UNCHANGED <<jobQueue, workerPool>>

DispatchHand == HandTo("range")

-----------------------------------------------------------------------------
(* worker.dispatcher: run the job, lend the channel again, wg.Done.        *)
WorkerStep(w, from, to) ==
  /\ ~panicked
  /\ wpc[w] = from
  /\ wpc' = [wpc EXCEPT ![w] = to]
  /\ UNCHANGED <<callerVars, jobQueue, dispVars, panicked>>

WorkerRunJob(w) ==
  /\ WorkerStep(w, "running", "repool")
  /\ ran' = [ran EXCEPT ![wjob[w]] = @ + 1]
  /\ stage' = [stage EXCEPT ![wjob[w]] = "ran"]
  /\ UNCHANGED <<wg, workerPool, wjob>>

(* Mutant: the worker does not lend its channel again after a job.         *)
WorkerRepoolForgotten(w) ==
  /\ WorkerStep(w, "repool", "release")
  /\ stage' = [stage EXCEPT ![wjob[w]] = "repooled"]
  /\ UNCHANGED <<wg, workerPool, wjob, ran>>

WorkerRepool(w) ==
  /\ wpc[w] = "repool"
  /\ \/ workerPoolClosed /\ Panics
     \/ /\ WorkerStep(w, "repool", "release")
        /\ ~workerPoolClosed
        /\ Len(workerPool) < MaxThread
        /\ workerPool' = Append(workerPool, w)
        /\ stage' = [stage EXCEPT ![wjob[w]] = "repooled"]
        /\ UNCHANGED <<wg, wjob, ran>>

(* Mutant: the worker does not call wg.Done.                               *)
WorkerDoneForgotten(w) ==
  /\ WorkerStep(w, "release", "select")
  /\ wjob' = [wjob EXCEPT ![w] = NoJob]
  /\ stage' = [stage EXCEPT ![wjob[w]] = "done"]
  /\ UNCHANGED <<wg, workerPool, ran>>

WorkerDone(w) ==
  /\ WorkerStep(w, "release", "select")
  /\ wg' = wg - 1
  /\ wjob' = [wjob EXCEPT ![w] = NoJob]
  /\ stage' = [stage EXCEPT ![wjob[w]] = "done"]
  /\ UNCHANGED <<workerPool, ran>>

(* The quit case: receive some channel from the pool, close the worker's   *)
(* own one, return.                                                        *)
WorkerQuit(w) ==
  /\ WorkerStep(w, "select", "quitting")
  /\ w <= quit
  /\ UNCHANGED <<wg, workerPool, wjob, stage, ran>>

WorkerStopped(w) ==
  /\ WorkerStep(w, "quitting", "stopped")
  /\ \/ workerPool # <<>> /\ workerPool' = Tail(workerPool)
     \/ workerPool = <<>> /\ workerPoolClosed /\ UNCHANGED workerPool
  /\ UNCHANGED <<wg, wjob, stage, ran>>

-----------------------------------------------------------------------------
(* Terminate, step by step: clear running, wg.Wait, close jobQueue, Stop   *)
(* each worker in turn, close workerPool.                                  *)
CallerStep(from, to) ==
  /\ ~panicked
  /\ caller = from /\ caller' = to
  /\ UNCHANGED <<wg, jobQueue, workerPool, dispVars, workerVars, stage, panicked>>

PushesJoined == \A j \in Jobs : stage[j] \notin {"checked", "added"}

(* Mutant: Terminate does not clear the flag.                              *)
TerminateStillRunning ==
  /\ CallerStep("serving", "waiting")
  /\ JoinPushers => PushesJoined
  /\ UNCHANGED <<running, jobQueueClosed, workerPoolClosed, quit>>

Terminate ==
  /\ CallerStep("serving", "waiting")
  /\ JoinPushers => PushesJoined
  /\ running' = 0
  /\ UNCHANGED <<jobQueueClosed, workerPoolClosed, quit>>

(* A step inside wg.Wait.                                                  *)
WaitStep(from, to) ==
  /\ CallerStep(from, to)
  /\ UNCHANGED <<running, jobQueueClosed, workerPoolClosed, quit>>

(* wg.Wait returns at once when the counter is zero; else it registers as  *)
(* a waiter and sleeps.                                                    *)
WaitEnter == WaitStep("waiting", IF wg = 0 THEN "closing" ELSE "blocked")

(* The wg.Done that has made the counter zero forgets the waiter and wakes *)
(* it up.                                                                  *)
WaitWake == Releasing /\ WaitStep("blocked", "woken")

(* Mutant: the counter is not looked at again.                             *)
WaitReturnUnchecked == WaitStep("woken", "closing")

(* The waiter returns, but panics if it finds the counter in use again     *)
(* ("WaitGroup is reused before previous Wait has returned").              *)
WaitReturn ==
  \/ wg = 0 /\ WaitStep("woken", "closing")
  \/ wg # 0 /\ caller = "woken" /\ Panics

(* Mutant: Terminate does not wait for the jobs in flight.                 *)
TerminateNoWait == WaitStep("waiting", "closing")

TerminateWait == WaitEnter \/ WaitWake \/ WaitReturn

TerminateCloseJobs ==
  /\ CallerStep("closing", "stopping")
  /\ jobQueueClosed' = TRUE
  /\ UNCHANGED <<running, workerPoolClosed, quit>>

TerminateStopWorker ==
  /\ CallerStep("stopping", "stopping")
  /\ quit < MaxThread
  /\ quit' = quit + 1
  /\ UNCHANGED <<running, jobQueueClosed, workerPoolClosed>>

TerminateClosePool ==
  /\ CallerStep("stopping", "done")
  /\ quit = MaxThread
  /\ workerPoolClosed' = TRUE
  /\ UNCHANGED <<running, jobQueueClosed, quit>>

-----------------------------------------------------------------------------
(* Everything has returned: the only way the queue may come to rest.       *)
Finished ==
  /\ caller = "done"
  /\ dpc = "exit"
  /\ \A w \in Workers : wpc[w] = "stopped"
  /\ \A j \in Jobs : stage[j] \in {"done", "dropped"}
  /\ UNCHANGED vars

Push(j) == PushCheck(j) \/ PushAdd(j) \/ PushSend(j)

Dispatcher == DispatchReceive \/ DispatchPick \/ DispatchHand

Worker(w) == WorkerRunJob(w) \/ WorkerRepool(w) \/ WorkerDone(w)
               \/ WorkerQuit(w) \/ WorkerStopped(w)

TerminateSteps == TerminateWait \/ TerminateCloseJobs \/ TerminateStopWorker
                    \/ TerminateClosePool

Next ==
  \/ Run
  \/ Terminate
  \/ TerminateSteps
  \/ Dispatcher
  \/ \E j \in Jobs : Push(j)
  \/ \E w \in Workers : Worker(w)
  \/ Finished

Spec == Init /\ [][Next]_vars

(* The Go scheduler runs every runnable goroutine: weak fairness of the    *)
(* dispatcher, of each worker (Job() itself returns), of each push that    *)
(* has begun and of Terminate once called.  Nobody is obliged to push or   *)
(* to call Terminate.                                                      *)
Fairness ==
  /\ WF_vars(Run)
  /\ WF_vars(TerminateSteps)
  /\ WF_vars(Dispatcher)
  /\ \A w \in Workers : WF_vars(Worker(w))
  /\ \A j \in Jobs : WF_vars(PushAdd(j) \/ PushSend(j))

FairSpec == Spec /\ Fairness

-----------------------------------------------------------------------------
(* Type invariant of the queue's state; a negative WaitGroup counter, on   *)
(* which wg.Done panics, would violate it.                                 *)
TypeOK ==
  /\ caller \in {"created", "serving", "waiting", "blocked", "woken", "closing",
                 "stopping", "done"}
  /\ running \in {0, 1}
  /\ wg \in Nat
  /\ jobQueue \in Seq(Jobs)
  /\ jobQueueClosed \in BOOLEAN
  /\ workerPool \in Seq(Workers)
  /\ workerPoolClosed \in BOOLEAN
  /\ quit \in 0..MaxThread
  /\ dpc \in {"off", "range", "pick", "hand", "exit"}
  /\ djob \in Jobs \cup {NoJob}
  /\ dworker \in Workers \cup {NilChan}
  /\ wpc \in [Workers -> {"off", "select", "running", "repool", "release",
                          "quitting", "stopped"}]
  /\ wjob \in [Workers -> Jobs \cup {NoJob}]
  /\ stage \in [Jobs -> Stages]
  /\ ran \in [Jobs -> Nat]
  /\ panicked \in BOOLEAN

(* No goroutine sends on a channel that Terminate or a stopping worker has *)
(* closed, and the WaitGroup is not used again while Terminate waits.      *)
NoPanic == ~panicked

(* When Terminate has passed wg.Wait, every job whose Push was not turned  *)
(* away by the running flag has been run, exactly once (TestQueue's count  *)
(* of 10): nothing is left in jobQueue, with the dispatcher or a worker.   *)
TerminateDrains ==
  PastWait => \A j \in Jobs :
                 \/ stage[j] \in {"idle", "dropped"} /\ ran[j] = 0
                 \/ stage[j] = "done" /\ ran[j] = 1

(* wg.Wait returns only at a moment when no job is between its wg.Add and  *)
(* its wg.Done, however many pushes race with Terminate, before it waits,  *)
(* while it does and while it is being woken: a job that was counted       *)
(* before wg.Wait returned has run by then.                                *)
WaitCoversCounted ==
  [][~PastWait /\ PastWait' => \A j \in Jobs : stage[j] \notin InFlight]_vars

(* Every worker's channel is lent exactly once: it is in the pool or with  *)
(* the dispatcher, or its worker is busy with a job.  Hence the pool's     *)
(* capacity of MaxThread never makes a worker block, and the dispatcher    *)
(* never hands a job to a busy worker.                                     *)
Lent(w) == Cardinality({i \in DOMAIN workerPool : workerPool[i] = w})
             + (IF dpc = "hand" /\ dworker = w THEN 1 ELSE 0)
             + (IF wpc[w] \in {"running", "repool"} THEN 1 ELSE 0)

Lending == caller \in {"serving", "waiting", "blocked", "woken", "closing"}

ChannelsLentOnce == Lending => \A w \in Workers : Lent(w) = 1

(* A job whose Push has been counted in wg is eventually run to the end.   *)
AcceptedJobsRun ==
  \A j \in Jobs : stage[j] = "added" ~> stage[j] = "done"

(* Once Terminate is called it returns, and the dispatcher and all workers *)
(* leave: no goroutine of the queue is leaked.                             *)
TerminateReleases ==
  caller = "waiting" ~> /\ caller = "done"
                        /\ dpc = "exit"
                        /\ \A w \in Workers : wpc[w] = "stopped"

(* The queue keeps the promise of a Queuer: nothing is accepted after the  *)
(* wait of Terminate, no accepted job is left behind by it or run twice.   *)
StatusOf(s) ==
  CASE s \in {"idle", "checked", "measured"} -> "new"
    [] s = "dropped" -> "refused"
    [] s \in {"added", "queued", "dispatched", "running"} -> "accepted"
    [] OTHER -> "run"

Status == [j \in Jobs |-> StatusOf(stage[j])]

Service == INSTANCE JobService WITH status <- Status, closed <- PastWait

RefinesService == Service!Spec

-----------------------------------------------------------------------------
(* The inductive invariant behind NoPanic, TerminateDrains and             *)
(* WaitCoversCounted, in named parts.                                      *)

InFlightJobs == {j \in Jobs : stage[j] \in InFlight}

(* The WaitGroup counts exactly the jobs between wg.Add and wg.Done.       *)
WgExact == wg = Cardinality(InFlightJobs)

(* The stage of a job that a worker holds, by the worker's program counter. *)
HeldStage == [running |-> "running", repool |-> "ran", release |-> "repooled"]
Busy(w) == wpc[w] \in {"running", "repool", "release"}

(* Whoever holds a job holds it at the stage that belongs to that place... *)
JobPlaces ==
  /\ \A i \in 1..Len(jobQueue) : stage[jobQueue[i]] = "queued"
  /\ dpc \in {"pick", "hand"} =>
       djob \in Jobs /\ stage[djob] = "dispatched"
  /\ \A w \in Workers : Busy(w) =>
       wjob[w] \in Jobs /\ stage[wjob[w]] = HeldStage[wpc[w]]

(* ... and no two places hold the same job.                                *)
JobsDistinct ==
  /\ \A i, k \in 1..Len(jobQueue) : i # k => jobQueue[i] # jobQueue[k]
  /\ \A v, w \in Workers : v # w /\ Busy(v) /\ Busy(w) => wjob[v] # wjob[w]

(* Channels are closed in Terminate's order, and only by it.               *)
ClosingOrder ==
  /\ running = 1 <=> caller = "serving"
  /\ jobQueueClosed => caller \in {"stopping", "done"}
  /\ workerPoolClosed => caller = "done"
  /\ quit > 0 => caller \in {"stopping", "done"}
  /\ \A w \in Workers : wpc[w] \in {"quitting", "stopped"} => w <= quit

JoinedPart ==
  JoinPushers => /\ caller \notin {"created", "serving"} => PushesJoined
                 /\ caller = "woken" \/ PastWait => InFlightJobs = {}
                 /\ NoPanic

RanOnce == \A j \in Jobs :
  ran[j] = IF stage[j] \in {"ran", "repooled", "done"} THEN 1 ELSE 0

IInv == /\ TypeOK /\ WgExact /\ JobPlaces /\ JobsDistinct /\ ClosingOrder
        /\ JoinedPart /\ RanOnce
=============================================================================
