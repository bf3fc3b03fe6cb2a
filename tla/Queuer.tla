------------------------------- MODULE Queuer -------------------------------
(***************************************************************************)
(* The package-level queue of internal/queue, queue.go: internalQueue is   *)
(* nil until Run or RunListQueue makes it a channel queue or a list queue, *)
(* and every call is passed on to it.  What a Queuer promises must hold    *)
(* whichever of the two it is.  RunListQueue's list is unbounded, MaxLen   *)
(* = 0; a larger MaxLen stands for a list of NewListQueueWithMaxLen, which *)
(* its owner uses through the same interface.                              *)
(***************************************************************************)
EXTENDS ListQueue

VARIABLE internalQueue

queuerVars == <<internalQueue, vars>>

QueuerInit == Init /\ internalQueue = "nil"

(* Run and RunListQueue, one of which is called once.                      *)
QueuerRun == internalQueue = "nil" /\ internalQueue' \in {"chan", "list"} /\ Run

(* A call, or a goroutine of the implementation q, which is in place.      *)
On(q, step) == internalQueue = q /\ step /\ UNCHANGED internalQueue

(* Push does nothing while there is no queue, as in one that does not run. *)
QueuerPush(j) ==
  \/ internalQueue = "nil" /\ PushCheck(j) /\ UNCHANGED internalQueue
  \/ On("chan", Push(j))
  \/ On("list", ListPush(j))

QueuerTerminate == On("chan", Terminate) \/ On("list", ListTerminate)

QueuerTerminateSteps == On("chan", TerminateSteps) \/ On("list", ListTerminateSteps)

QueuerDispatcher == On("chan", Dispatcher) \/ On("list", ListDispatcher)

QueuerWorker(w) == Worker(w) /\ UNCHANGED internalQueue

QueuerNext ==
  \/ QueuerRun
  \/ QueuerTerminate
  \/ QueuerTerminateSteps
  \/ QueuerDispatcher
  \/ \E j \in Jobs : QueuerPush(j)
  \/ \E w \in Workers : QueuerWorker(w)
  \/ Finished /\ UNCHANGED internalQueue

(* As for each queue: goroutines run, a push that has begun goes on.       *)
QueuerSpec ==
  /\ QueuerInit /\ [][QueuerNext]_queuerVars
  /\ WF_queuerVars(QueuerRun) /\ WF_queuerVars(QueuerTerminateSteps)
  /\ WF_queuerVars(QueuerDispatcher)
  /\ \A w \in Workers : WF_queuerVars(QueuerWorker(w))
  /\ \A j \in Jobs : WF_queuerVars(QueuerPush(j) /\ stage[j] # "idle")

(* Type invariant: that of the implementation in place.                    *)
QueuerTypeOK ==
  /\ internalQueue \in {"nil", "chan", "list"}
  /\ IF internalQueue = "list" THEN ListTypeOK ELSE TypeOK
=============================================================================
