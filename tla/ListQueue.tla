----------------------------- MODULE ListQueue -----------------------------
(***************************************************************************)
(* The other Queuer of internal/queue, list_queue.go: jobs wait in a       *)
(* linked list, optionally bounded, under a lock.  Its workers are those   *)
(* of the channel queue (worker.go), and so are Run and most of Terminate: *)
(* this module takes them from ChanQueue, where jobQueue is now the list   *)
(* and is never closed.  A job stays in the list until the dispatcher has  *)
(* handed it to a worker.                                                  *)
(***************************************************************************)
EXTENDS ChanQueue

CONSTANTS
  MaxLen,     (* maxLen; 0: unbounded, as NewListQueue makes it            *)
  Pushers     (* goroutines that push                                      *)

ASSUME ListAssumption == MaxLen \in Nat /\ Pushers \in Nat \ {0}

Pushing == {j \in Jobs : stage[j] \in {"checked", "measured", "added"}}

-----------------------------------------------------------------------------
(* Push: the load of running, the comparison of the length under the read  *)
(* lock, wg.Add, PushBack under the lock.                                  *)
ListPushCheck(j) == Cardinality(Pushing) < Pushers /\ PushCheck(j)

(* Mutant: the list is not measured.                                       *)
ListPushUnmeasured(j) == PushStep(j, "checked", "measured") /\ UNCHANGED <<wg, jobQueue>>

ListPushMeasure(j) ==
  /\ PushStep(j, "checked", IF MaxLen > 0 /\ Len(jobQueue) > MaxLen
                              THEN "dropped" ELSE "measured")
  /\ UNCHANGED <<wg, jobQueue>>

ListPushAdd(j) ==
  /\ PushStep(j, "measured", "added")
  /\ wg' = wg + 1
  /\ UNCHANGED jobQueue

ListPushBack(j) ==
  /\ PushStep(j, "added", "queued")
  /\ jobQueue' = Append(jobQueue, j)
  /\ UNCHANGED wg

ListPush(j) == ListPushCheck(j) \/ ListPushMeasure(j) \/ ListPushAdd(j) \/ ListPushBack(j)

-----------------------------------------------------------------------------
(* ListQueue.dispatcher: leave when the queue is stopped and the list is   *)
(* empty, sleep when it is merely empty (nothing changes), else hand the   *)
(* front element to a worker and remove it.                                *)

(* Mutant: the dispatcher polls until it finds a job.                      *)
ListFrontPolling ==
  /\ jobQueue # <<>>
  /\ DispatchStep("range", "pick")
  /\ djob' = Head(jobQueue)
  /\ stage' = [stage EXCEPT ![Head(jobQueue)] = "dispatched"]
  /\ UNCHANGED <<jobQueue, workerPool, dworker, wpc, wjob>>

ListFront ==
  /\ \/ /\ running # 1 /\ jobQueue = <<>>
        /\ DispatchStep("range", "exit")
        /\ UNCHANGED <<djob, stage>>
     \/ /\ jobQueue # <<>>
        /\ DispatchStep("range", "pick")
        /\ djob' = Head(jobQueue)
        /\ stage' = [stage EXCEPT ![Head(jobQueue)] = "dispatched"]
  /\ UNCHANGED <<jobQueue, workerPool, dworker, wpc, wjob>>

ListHand == HandTo("remove")

(* Mutant: the element that was handed over stays in the list.             *)
ListRemoveForgotten ==
  /\ DispatchStep("remove", "range")
  /\ UNCHANGED <<jobQueue, workerPool, djob, dworker, wpc, wjob, stage>>

ListRemove ==
  /\ DispatchStep("remove", "range")
  /\ jobQueue' = Tail(jobQueue)
  /\ UNCHANGED <<workerPool, djob, dworker, wpc, wjob, stage>>

ListDispatcher == ListFront \/ DispatchPick \/ ListHand \/ ListRemove

-----------------------------------------------------------------------------
(* Terminate has no job channel to close.  It is called when the pushes    *)
(* have returned: nobody can add to the WaitGroup while it waits, and its  *)
(* wait is one step.                                                       *)
ListTerminate == Pushing = {} /\ Terminate

(* Mutant: the workers are stopped while jobs are in flight.               *)
ListTerminateNoWait ==
  /\ CallerStep("waiting", "stopping")
  /\ UNCHANGED <<running, jobQueueClosed, workerPoolClosed, quit>>

ListTerminateWait == wg = 0 /\ CallerStep("waiting", "stopping")
  /\ UNCHANGED <<running, jobQueueClosed, workerPoolClosed, quit>>

ListTerminateSteps == ListTerminateWait \/ TerminateStopWorker \/ TerminateClosePool

ListNext ==
  \/ Run
  \/ ListTerminate
  \/ ListTerminateSteps
  \/ ListDispatcher
  \/ \E j \in Jobs : ListPush(j)
  \/ \E w \in Workers : Worker(w)
  \/ Finished

(* As for the channel queue.                                               *)
ListSpec ==
  /\ Init /\ [][ListNext]_vars
  /\ WF_vars(Run) /\ WF_vars(ListTerminateSteps) /\ WF_vars(ListDispatcher)
  /\ \A w \in Workers : WF_vars(Worker(w))
  /\ \A j \in Jobs : WF_vars(ListPushMeasure(j) \/ ListPushAdd(j) \/ ListPushBack(j))

-----------------------------------------------------------------------------
(* Type invariant; the job that is being handed over or was just handed    *)
(* over is the front of the list, so that Remove finds its element.        *)
ListTypeOK ==
  /\ wg \in 0..Cardinality(Jobs)
  /\ jobQueue \in Seq(Jobs) /\ ~jobQueueClosed
  /\ dpc \in {"off", "range", "pick", "hand", "remove", "exit"}
  /\ dpc \in {"pick", "hand", "remove"} => jobQueue # <<>>
  /\ dpc \in {"pick", "hand"} => djob = Head(jobQueue)
  /\ \A i, k \in DOMAIN jobQueue : i # k => jobQueue[i] # jobQueue[k]

(* NewListQueueWithMaxLen: "and the maximum number of elements".  A        *)
(* bounded list never holds more than maxLen elements.                     *)
ListWithinMax == MaxLen > 0 => Len(jobQueue) <= MaxLen

(* It does: the length is compared with >, before the element is added,    *)
(* and the lock is released in between.  How far it goes: one element      *)
(* beyond the maximum for each goroutine that pushes, and no further.      *)
ListBounded == MaxLen > 0 => Len(jobQueue) <= MaxLen + Pushers
=============================================================================
