-------------------------- MODULE ListQueueProofs --------------------------
(***************************************************************************)
(* Proofs about ListQueue, for every set of jobs, number of workers and of *)
(* pushing goroutines, and maximal length: the element that the dispatcher *)
(* removes is the one it has handed over, a bounded list outgrows its      *)
(* maximum by the number of pushing goroutines at most, nobody sends on a  *)
(* closed channel, and the list queue keeps the promise of a Queuer.       *)
(***************************************************************************)
EXTENDS ListQueue, ChanQueueProofs

(* The shared parts of the steps.                                          *)
USE DEF Workers, NilChan, Panics, PushStep, DispatchStep, HandTo, WorkerStep, CallerStep

(* The inductive invariant.  The dispatcher is busy with the front of the  *)
(* list from the moment it looks at it to the removal of the element.      *)
AtFront == dpc \in {"pick", "hand", "remove"}

ListStages == Stages \cup {"measured"}

LTypes ==
  /\ caller \in {"created", "serving", "waiting", "closing", "stopping", "done"}
  /\ running \in {0, 1} /\ wg \in Nat
  /\ jobQueue \in Seq(Jobs) /\ jobQueueClosed = FALSE
  /\ workerPool \in Seq(Workers) /\ workerPoolClosed \in BOOLEAN
  /\ quit \in 0..MaxThread
  /\ dpc \in {"off", "range", "pick", "hand", "remove", "exit"}
  /\ djob \in Jobs \cup {NoJob} /\ dworker \in Workers \cup {NilChan}
  /\ wpc \in [Workers -> {"off", "select", "running", "repool", "release",
                          "quitting", "stopped"}]
  /\ wjob \in [Workers -> Jobs \cup {NoJob}]
  /\ stage \in [Jobs -> ListStages]
  /\ ran \in [Jobs -> Nat]

(* Whoever holds a job holds it at the stage that belongs to that place.   *)
(* The front element may have run to its end before it is removed.         *)
LQueued == \A i \in 1..Len(jobQueue) : i > 1 \/ ~AtFront => stage[jobQueue[i]] = "queued"

LFront ==
  /\ caller = "created" => dpc = "off"
  /\ AtFront => jobQueue # <<>>
  /\ dpc \in {"pick", "hand"} => djob = jobQueue[1] /\ stage[djob] = "dispatched"
  /\ dpc = "remove" => stage[jobQueue[1]] \in {"running", "ran", "repooled", "done"}

LHeld == \A w \in Workers : Busy(w) =>
           wjob[w] \in Jobs /\ stage[wjob[w]] = HeldStage[wpc[w]]

LJoined ==
  /\ caller \notin {"created", "serving"} => Pushing = {}
  /\ PastWait => InFlightJobs = {}
  /\ NoPanic

LInv == LTypes /\ WgExact /\ LQueued /\ LFront /\ LHeld /\ JobsDistinct /\ ClosingOrder /\ LJoined

(* Room for the elements of the list and for those that were let in.       *)
Measured == {j \in Jobs : stage[j] \in {"measured", "added"}}

LRoom ==
  /\ Cardinality(Pushing) <= Pushers
  /\ MaxLen > 0 => Len(jobQueue) + Cardinality(Measured) <= MaxLen + Pushers

(* A queue that was just created.                                          *)
LEMMA InitLInv == Init => LInv
<1> SUFFICES ASSUME Init PROVE LInv
  OBVIOUS
<1> USE QueueAssumption DEF Init
<1>1. jobQueue \in Seq(Jobs) /\ workerPool \in Seq(Workers) /\ Len(jobQueue) = 0
  BY EmptySeq
<1>2. LTypes
  <2>1. quit \in 0..MaxThread
    OBVIOUS
  <2> QED  BY <1>1, <2>1 DEF LTypes, ListStages, Stages
<1>3. InFlightJobs = {}
  BY DEF InFlightJobs, InFlight
<1>4. WgExact
  BY <1>3, FS_EmptySet DEF WgExact
<1>5. LQueued /\ LFront /\ LHeld /\ JobsDistinct
  BY <1>1 DEF LQueued, LFront, LHeld, AtFront, Busy, JobsDistinct
<1>6. ClosingOrder /\ LJoined
  BY DEF ClosingOrder, LJoined, PastWait, NoPanic
<1> QED  BY <1>2, <1>4, <1>5, <1>6 DEF LInv

(* The elements of the list.                                               *)
LEMMA ListElements ==
  ASSUME LInv
  PROVE  /\ Len(jobQueue) \in Nat
         /\ \A i \in 1..Len(jobQueue) : jobQueue[i] \in Jobs
         /\ jobQueue # <<>> => 1 \in 1..Len(jobQueue) /\ Head(jobQueue) = jobQueue[1]
BY LenProperties, ElementOfSeq, EmptySeq, HeadTailProperties DEF LInv, LTypes

(* No element of the list is at the stage of a Push that is under way.     *)
LEMMA ListIsPushed ==
  ASSUME LInv, NEW i \in 1..Len(jobQueue)
  PROVE  stage[jobQueue[i]] \in {"queued", "dispatched", "running", "ran", "repooled", "done"}
<1> USE DEF LInv
<1>1. CASE i > 1 \/ ~AtFront
  BY <1>1 DEF LQueued
<1>2. CASE i = 1 /\ AtFront
  BY <1>2 DEF LFront, AtFront
<1> QED  BY <1>1, <1>2, ListElements

-----------------------------------------------------------------------------
(* Push up to wg.Add: ...                                                  *)
LEMMA PushBegins ==
  ASSUME LInv, NEW j \in Jobs, ListPushCheck(j) \/ ListPushMeasure(j) \/ ListPushAdd(j)
  PROVE  LInv'
<1> USE QueueAssumption DEF LInv
<1>1. PICK s \in {"checked", "measured", "added", "dropped"} :
             stage' = [stage EXCEPT ![j] = s]
  BY DEF ListPushCheck, PushCheck, ListPushMeasure, ListPushAdd
<1>2. /\ stage[j] \in {"idle", "checked", "measured"}
      /\ UNCHANGED <<caller, running, jobQueue, jobQueueClosed, workerPool, workerPoolClosed,
                     quit, dpc, djob, dworker, wpc, wjob, ran, panicked>>
  BY DEF ListPushCheck, PushCheck, ListPushMeasure, ListPushAdd, callerVars, dispVars,
         workerVars
<1>3. s = "dropped" \/ caller \in {"created", "serving"}
  <2>1. CASE ListPushCheck(j)
    <3>1. s = "dropped" \/ running = 1
      BY <1>1, <2>1 DEF ListPushCheck, PushCheck, LTypes
    <3> QED  BY <3>1 DEF ClosingOrder
  <2>2. CASE ListPushMeasure(j) \/ ListPushAdd(j)
    <3>1. j \in Pushing
      BY <2>2 DEF ListPushMeasure, ListPushAdd, Pushing
    <3> QED  BY <3>1 DEF LJoined
  <2> QED  BY <2>1, <2>2
<1>4. WgExact' /\ wg' \in Nat /\ (s # "added" => InFlightJobs' = InFlightJobs)
  <2>1. DOMAIN stage = Jobs /\ stage[j] \notin InFlight /\ wg \in Nat
    BY <1>2 DEF LTypes, InFlight
  <2>2. CASE s = "added"
    <3>1. wg' = wg + 1
      BY <1>1, <2>1, <2>2 DEF ListPushCheck, PushCheck, ListPushMeasure, ListPushAdd
    <3>2. s \in InFlight
      BY <2>2 DEF InFlight
    <3>3. WgExact'
      BY <1>1, <2>1, <3>1, <3>2, EnterKeepsCount
    <3> QED  BY <2>1, <2>2, <3>1, <3>3
  <2>3. CASE s # "added"
    <3>1. wg' = wg
      BY <1>1, <2>1, <2>3 DEF ListPushCheck, PushCheck, ListPushMeasure, ListPushAdd
    <3> QED  BY <1>1, <2>1, <2>3, <3>1, MoveKeepsCount DEF InFlight
  <2> QED  BY <2>2, <2>3
<1>5. LTypes'
  BY <1>1, <1>2, <1>4 DEF LTypes, ListStages, Stages
<1>6. \A k \in Jobs : k # j => stage'[k] = stage[k]
  BY <1>1 DEF LTypes
<1>7. \A i \in 1..Len(jobQueue) : jobQueue[i] \in Jobs \ {j}
  BY <1>2, ListElements, ListIsPushed
<1>8. LQueued' /\ LFront'
  BY <1>2, <1>6, <1>7, ListElements DEF LQueued, LFront, AtFront
<1>9. LHeld' /\ JobsDistinct' /\ ClosingOrder'
  <2>1. \A w \in Workers : Busy(w) => wjob[w] # j
    BY <1>2 DEF LHeld, Busy, HeldStage
  <2>2. LHeld'
    BY <1>2, <1>6, <2>1 DEF LHeld, Busy
  <2>3. JobsDistinct' /\ ClosingOrder'
    BY <1>2 DEF JobsDistinct, ClosingOrder, Busy
  <2> QED  BY <2>2, <2>3
<1>10. LJoined'
  <2>1. s = "dropped" => Pushing' \subseteq Pushing
    BY <1>1, <1>6 DEF Pushing, LTypes
  <2> QED  BY <1>2, <1>3, <1>4, <2>1 DEF LJoined, PastWait, NoPanic
<1> QED  BY <1>4, <1>5, <1>8, <1>9, <1>10

(* ... and PushBack.                                                       *)
LEMMA PushBackKeeps == ASSUME LInv, NEW j \in Jobs, ListPushBack(j) PROVE LInv'
<1> USE QueueAssumption DEF LInv
<1>1. /\ stage[j] = "added" /\ stage' = [stage EXCEPT ![j] = "queued"]
      /\ jobQueue' = Append(jobQueue, j)
      /\ UNCHANGED <<caller, running, wg, jobQueueClosed, workerPool, workerPoolClosed,
                     quit, dpc, djob, dworker, wpc, wjob, ran, panicked>>
  BY DEF ListPushBack, callerVars, dispVars, workerVars
<1>2. /\ jobQueue' \in Seq(Jobs) /\ Len(jobQueue') = Len(jobQueue) + 1
      /\ \A i \in 1..Len(jobQueue) : jobQueue'[i] = jobQueue[i]
      /\ jobQueue'[Len(jobQueue) + 1] = j
  BY <1>1, AppendProperties DEF LTypes
<1>3. DOMAIN stage = Jobs /\ \A k \in Jobs : k # j => stage'[k] = stage[k]
  BY <1>1 DEF LTypes
<1>4. \A i \in 1..Len(jobQueue) : jobQueue[i] \in Jobs \ {j}
  BY <1>1, ListElements, ListIsPushed
<1>5. WgExact' /\ InFlightJobs' = InFlightJobs
  BY <1>1, <1>3, MoveKeepsCount DEF InFlight
<1>6. LTypes'
  BY <1>1, <1>2 DEF LTypes, ListStages, Stages
<1>7. LQueued'
  <2> SUFFICES ASSUME NEW i \in 1..Len(jobQueue'), i > 1 \/ ~AtFront
               PROVE  stage'[jobQueue'[i]] = "queued"
    BY <1>1 DEF LQueued, AtFront
  <2>1. CASE i \in 1..Len(jobQueue)
    BY <1>2, <1>3, <1>4, <2>1 DEF LQueued
  <2>2. CASE i = Len(jobQueue) + 1
    BY <1>1, <1>2, <1>3, <2>2
  <2> QED  BY <1>2, <2>1, <2>2, ListElements
<1>8. LFront'
  <2>1. AtFront' <=> AtFront
    BY <1>1 DEF AtFront
  <2>2. AtFront => jobQueue' # <<>> /\ jobQueue'[1] = jobQueue[1] /\ jobQueue[1] \in Jobs \ {j}
    BY <1>2, <1>4, ListElements, EmptySeq DEF LFront
  <2> QED  BY <1>1, <1>3, <2>1, <2>2 DEF LFront, AtFront
<1>9. LHeld' /\ ClosingOrder'
  BY <1>1, <1>3 DEF LHeld, Busy, HeldStage, ClosingOrder, LTypes
<1>10. JobsDistinct'
  <2>1. \A i, k \in 1..Len(jobQueue') : i # k => jobQueue'[i] # jobQueue'[k]
    BY <1>2, <1>4, ListElements DEF JobsDistinct
  <2> QED  BY <1>1, <2>1 DEF JobsDistinct, Busy
<1>11. LJoined'
  <2>1. Pushing' \subseteq Pushing
    BY <1>1, <1>3 DEF Pushing
  <2> QED  BY <1>1, <1>5, <2>1 DEF LJoined, PastWait, NoPanic
<1> QED  BY <1>5, <1>6, <1>7, <1>8, <1>9, <1>10, <1>11

-----------------------------------------------------------------------------
(* The dispatcher takes a look at the front, ...                           *)
LEMMA FrontKeeps == ASSUME LInv, ListFront PROVE LInv'
<1> USE QueueAssumption DEF LInv
<1>0. /\ dpc = "range"
      /\ UNCHANGED <<caller, running, wg, jobQueue, jobQueueClosed, workerPool,
                     workerPoolClosed, quit, dworker, wpc, wjob, ran, panicked>>
  BY DEF ListFront, callerVars
<1>1. CASE jobQueue = <<>>
  <2>1. dpc' = "exit" /\ UNCHANGED <<djob, stage>>
    BY <1>1 DEF ListFront
  <2>2. WgExact' /\ InFlightJobs' = InFlightJobs
    BY <1>0, <2>1, SameStages
  <2>3. LTypes' /\ LHeld' /\ JobsDistinct' /\ ClosingOrder'
    BY <1>0, <2>1 DEF LTypes, LHeld, Busy, JobsDistinct, ClosingOrder
  <2>4. LQueued' /\ LFront'
    BY <1>0, <2>1 DEF LQueued, LFront, AtFront
  <2> QED  BY <1>0, <2>1, <2>2, <2>3, <2>4 DEF LJoined, Pushing, PastWait, NoPanic
<1>2. CASE jobQueue # <<>>
  <2> DEFINE j == jobQueue[1]
  <2>1. /\ j \in Jobs /\ 1 \in 1..Len(jobQueue) /\ j = Head(jobQueue)
        /\ dpc' = "pick" /\ djob' = j /\ stage' = [stage EXCEPT ![j] = "dispatched"]
    BY <1>2, ListElements DEF ListFront
  <2>2. stage[j] = "queued" /\ \A i \in 1..Len(jobQueue) : i > 1 => jobQueue[i] \in Jobs \ {j}
    BY <1>0, <2>1, ListElements DEF LQueued, AtFront, JobsDistinct
  <2> HIDE DEF j
  <2>3. DOMAIN stage = Jobs /\ stage'[j] = "dispatched"
        /\ \A k \in Jobs : k # j => stage'[k] = stage[k]
    BY <2>1 DEF LTypes
  <2>4. WgExact' /\ InFlightJobs' = InFlightJobs
    BY <1>0, <2>1, <2>2, <2>3, MoveKeepsCount DEF InFlight
  <2>5. LTypes'
    BY <1>0, <2>1 DEF LTypes, ListStages, Stages
  <2>6. LQueued'
    BY <1>0, <2>1, <2>2, <2>3 DEF LQueued, AtFront
  <2>7. LFront'
    BY <1>0, <1>2, <2>1, <2>3 DEF LFront, AtFront, j
  <2>8. LHeld' /\ JobsDistinct' /\ ClosingOrder'
    <3>1. \A w \in Workers : Busy(w) => wjob[w] # j
      BY <2>2 DEF LHeld, Busy, HeldStage
    <3>2. LHeld'
      BY <1>0, <2>3, <3>1 DEF LHeld, Busy
    <3> QED  BY <1>0, <3>2 DEF JobsDistinct, ClosingOrder, Busy
  <2>9. LJoined'
    <3>1. Pushing' \subseteq Pushing
      BY <2>1, <2>3 DEF Pushing
    <3> QED  BY <1>0, <2>4, <3>1 DEF LJoined, PastWait, NoPanic
  <2> QED  BY <2>4, <2>5, <2>6, <2>7, <2>8, <2>9
<1> QED  BY <1>1, <1>2

(* ... takes a worker's channel, ...                                       *)
LEMMA PickKeeps == ASSUME LInv, DispatchPick PROVE LInv'
<1> USE QueueAssumption DEF LInv
<1>0. /\ dpc = "pick" /\ dpc' = "hand"
      /\ UNCHANGED <<caller, running, wg, jobQueue, jobQueueClosed, workerPoolClosed, quit,
                     djob, wpc, wjob, stage, ran, panicked>>
  BY DEF DispatchPick, callerVars
<1>1. workerPool' \in Seq(Workers) /\ dworker' \in Workers \cup {NilChan}
  <2>1. workerPool # <<>> => Head(workerPool) \in Workers
                               /\ Tail(workerPool) \in Seq(Workers)
    BY HeadTailProperties DEF LTypes
  <2> QED  BY <2>1 DEF DispatchPick, LTypes
<1>2. WgExact' /\ InFlightJobs' = InFlightJobs
  BY <1>0, SameStages
<1>3. LTypes' /\ LHeld' /\ JobsDistinct' /\ ClosingOrder'
  BY <1>0, <1>1 DEF LTypes, LHeld, Busy, JobsDistinct, ClosingOrder
<1>4. LQueued' /\ LFront'
  BY <1>0 DEF LQueued, LFront, AtFront
<1> QED  BY <1>0, <1>2, <1>3, <1>4 DEF LJoined, Pushing, PastWait, NoPanic

(* While a job is in flight, nothing is closed and no worker has been told *)
(* to stop.                                                                *)
LEMMA ListOpenInFlight ==
  ASSUME LInv, NEW j \in Jobs, stage[j] \in InFlight
  PROVE  /\ ~PastWait /\ ~workerPoolClosed
         /\ \A w \in Workers : wpc[w] \notin {"quitting", "stopped"}
<1>1. ~PastWait
  BY DEF LInv, LJoined, InFlightJobs
<1> QED  BY <1>1, QueueAssumption DEF LInv, LTypes, ClosingOrder, PastWait

(* ... hands the job over ...                                              *)
LEMMA HandKeeps == ASSUME LInv, ListHand PROVE LInv'
<1> USE QueueAssumption DEF LInv
<1> DEFINE v == dworker
           j == djob
<1>1. /\ v \in Workers /\ j \in Jobs /\ dpc = "hand"
      /\ j = jobQueue[1] /\ 1 \in 1..Len(jobQueue) /\ stage[j] = "dispatched"
  BY ListElements DEF ListHand, LTypes, LFront, AtFront
<1>2. wpc[v] # "stopped"
  BY <1>1, ListOpenInFlight DEF InFlight
<1>3. /\ wpc[v] = "select" /\ wpc' = [wpc EXCEPT ![v] = "running"]
      /\ wjob' = [wjob EXCEPT ![v] = j] /\ stage' = [stage EXCEPT ![j] = "running"]
      /\ dpc' = "remove" /\ djob' = NoJob /\ dworker' = NilChan
      /\ UNCHANGED <<caller, running, wg, jobQueue, jobQueueClosed, workerPool,
                     workerPoolClosed, quit, ran, panicked>>
  BY <1>2 DEF ListHand, callerVars
<1> HIDE DEF v, j
<1>4. DOMAIN stage = Jobs /\ stage'[j] = "running"
      /\ \A k \in Jobs : k # j => stage'[k] = stage[k]
  BY <1>1, <1>3 DEF LTypes
<1>5. WgExact' /\ InFlightJobs' = InFlightJobs
  BY <1>1, <1>3, <1>4, MoveKeepsCount DEF InFlight
<1>6. LTypes'
  BY <1>1, <1>3 DEF LTypes, ListStages, Stages
<1>7. \A i \in 1..Len(jobQueue) : i > 1 => jobQueue[i] \in Jobs \ {j}
  BY <1>1, ListElements DEF JobsDistinct
<1>8. LQueued' /\ LFront'
  BY <1>1, <1>3, <1>4, <1>7, ListElements DEF LQueued, LFront, AtFront
<1>9. \A w \in Workers : Busy(w) => w # v /\ wjob[w] # j
  BY <1>1, <1>3 DEF LHeld, Busy, HeldStage
<1>10. LHeld'
  BY <1>1, <1>3, <1>4, <1>9 DEF LHeld, Busy, HeldStage, LTypes
<1>11. JobsDistinct' /\ ClosingOrder'
  <2>1. JobsDistinct'
    BY <1>1, <1>3, <1>9 DEF JobsDistinct, Busy, LTypes
  <2>2. ClosingOrder'
    BY <1>1, <1>3 DEF ClosingOrder, LTypes
  <2> QED  BY <2>1, <2>2
<1>12. LJoined'
  <2>1. Pushing' \subseteq Pushing
    BY <1>3, <1>4 DEF Pushing
  <2> QED  BY <1>3, <1>5, <2>1 DEF LJoined, PastWait, NoPanic
<1> QED  BY <1>5, <1>6, <1>8, <1>10, <1>11, <1>12

(* ... and removes the element, which is still the front.                  *)
LEMMA RemoveKeeps == ASSUME LInv, ListRemove PROVE LInv'
<1> USE QueueAssumption DEF LInv
<1>1. /\ dpc = "remove" /\ dpc' = "range" /\ jobQueue' = Tail(jobQueue)
      /\ UNCHANGED <<caller, running, wg, jobQueueClosed, workerPool, workerPoolClosed, quit,
                     djob, dworker, wpc, wjob, stage, ran, panicked>>
  BY DEF ListRemove, callerVars
<1>2. /\ jobQueue # <<>> /\ jobQueue' \in Seq(Jobs) /\ Len(jobQueue') = Len(jobQueue) - 1
      /\ \A i \in 1..Len(jobQueue') : jobQueue'[i] = jobQueue[i + 1]
  BY <1>1, HeadTailProperties DEF LTypes, LFront, AtFront
<1>3. \A i \in 1..Len(jobQueue') : i + 1 \in 1..Len(jobQueue) /\ i + 1 > 1
  BY <1>2, ListElements
<1>4. WgExact' /\ InFlightJobs' = InFlightJobs
  BY <1>1, SameStages
<1>5. LTypes'
  BY <1>1, <1>2 DEF LTypes
<1>6. LQueued' /\ LFront'
  BY <1>1, <1>2, <1>3 DEF LQueued, LFront, AtFront
<1>7. LHeld' /\ ClosingOrder'
  BY <1>1 DEF LHeld, Busy, ClosingOrder
<1>8. JobsDistinct'
  <2>1. ASSUME NEW i \in 1..Len(jobQueue'), NEW k \in 1..Len(jobQueue'), i # k
        PROVE  jobQueue'[i] # jobQueue'[k]
    <3>1. i + 1 # k + 1
      BY <2>1
    <3> QED  BY <1>2, <1>3, <3>1 DEF JobsDistinct
  <2> QED  BY <1>1, <2>1 DEF JobsDistinct, Busy
<1> QED  BY <1>1, <1>4, <1>5, <1>6, <1>7, <1>8 DEF LJoined, Pushing, PastWait, NoPanic

-----------------------------------------------------------------------------
(* The goroutine that calls Run and Terminate.                             *)
LEMMA ListCallerKeeps ==
  ASSUME LInv, Run \/ ListTerminate \/ ListTerminateSteps
  PROVE  LInv'
<1> USE QueueAssumption DEF LInv, dispVars, workerVars
<1>1. UNCHANGED <<wg, jobQueue, jobQueueClosed, djob, dworker, wjob, stage, ran, panicked>>
  BY DEF Run, ListTerminate, Terminate, ListTerminateSteps, ListTerminateWait,
         TerminateStopWorker, TerminateClosePool
<1>2. WgExact' /\ InFlightJobs' = InFlightJobs /\ Pushing' = Pushing
  BY <1>1, SameStages DEF Pushing
<1>3. CASE Run
  <2>1. workerPool' \in Seq(Workers)
    BY <1>3, SeqDef DEF Run
  <2>2. /\ caller = "created" /\ caller' = "serving" /\ running' = 1 /\ dpc' = "range"
        /\ wpc' = [w \in Workers |-> "select"] /\ UNCHANGED <<quit, workerPoolClosed>>
    BY <1>3 DEF Run
  <2>3. LTypes'
    BY <1>1, <2>1, <2>2 DEF LTypes
  <2>4. LQueued' /\ LFront'
    BY <1>1, <2>2 DEF LQueued, LFront, AtFront
  <2>5. LHeld' /\ JobsDistinct' /\ ClosingOrder'
    BY <1>1, <2>2 DEF LHeld, Busy, JobsDistinct, ClosingOrder, LTypes
  <2> QED  BY <1>1, <1>2, <2>2, <2>3, <2>4, <2>5 DEF LJoined, PastWait, NoPanic
<1>4. CASE ListTerminate \/ ListTerminateSteps
  <2>1. /\ caller # "created" /\ caller' # "created"
        /\ UNCHANGED <<workerPool, dpc, wpc>>
    BY <1>4 DEF ListTerminate, Terminate, ListTerminateSteps, ListTerminateWait,
                TerminateStopWorker, TerminateClosePool
  <2>2. LTypes'
    <3>1. quit' \in 0..MaxThread
      BY <1>4 DEF LTypes, ListTerminate, Terminate, ListTerminateSteps, ListTerminateWait,
                  TerminateStopWorker, TerminateClosePool
    <3>2. caller' \in {"waiting", "stopping", "done"} /\ running' \in {0, 1}
      BY <1>4 DEF LTypes, ListTerminate, Terminate, ListTerminateSteps, ListTerminateWait,
                  TerminateStopWorker, TerminateClosePool
    <3>3. workerPoolClosed' \in BOOLEAN
      BY <1>4 DEF LTypes, ListTerminate, Terminate, ListTerminateSteps, ListTerminateWait,
                  TerminateStopWorker, TerminateClosePool
    <3> QED  BY <1>1, <2>1, <3>1, <3>2, <3>3 DEF LTypes
  <2>3. LQueued' /\ LFront' /\ LHeld' /\ JobsDistinct'
    BY <1>1, <2>1 DEF LQueued, LFront, AtFront, LHeld, Busy, JobsDistinct
  <2>4. ClosingOrder'
    BY <1>1, <1>4, <2>1 DEF LTypes, ClosingOrder, ListTerminate, Terminate,
         ListTerminateSteps, ListTerminateWait, TerminateStopWorker, TerminateClosePool
  <2>5. LJoined'
    <3>1. Pushing = {}
      BY <1>4 DEF LJoined, ListTerminate, Terminate, ListTerminateSteps, ListTerminateWait,
                  TerminateStopWorker, TerminateClosePool
    <3>2. PastWait' => InFlightJobs = {}
      BY <1>4, ZeroMeansNone DEF LJoined, PastWait, ListTerminate, Terminate,
         ListTerminateSteps, ListTerminateWait, TerminateStopWorker, TerminateClosePool
    <3> QED  BY <1>1, <1>2, <3>1, <3>2 DEF LJoined, NoPanic
  <2> QED  BY <1>2, <2>2, <2>3, <2>4, <2>5
<1> QED  BY <1>3, <1>4

-----------------------------------------------------------------------------
(* The workers.  The job of one is with no other, and in the list it is at *)
(* most the element that the dispatcher is about to remove.                *)
LEMMA ListHeldJob ==
  ASSUME LInv, NEW w \in Workers, Busy(w)
  PROVE  /\ wjob[w] \in Jobs
         /\ stage[wjob[w]] = HeldStage[wpc[w]]
         /\ \A i \in 1..Len(jobQueue) :
               i > 1 \/ ~AtFront \/ dpc \in {"pick", "hand"} => jobQueue[i] # wjob[w]
         /\ \A v \in Workers : v # w /\ Busy(v) => wjob[v] # wjob[w]
<1>1. wjob[w] \in Jobs /\ stage[wjob[w]] = HeldStage[wpc[w]]
  BY DEF LInv, LHeld
<1>2. stage[wjob[w]] \in {"running", "ran", "repooled"}
  BY <1>1 DEF Busy, HeldStage
<1>3. \A i \in 1..Len(jobQueue) : i > 1 \/ i = 1
  BY ListElements
<1> QED  BY <1>1, <1>2, <1>3, ListElements DEF LInv, LQueued, LFront, JobsDistinct, AtFront

(* Job() is run, the channel goes back into the pool, wg.Done is called.   *)
LEMMA ListWorkerKeeps ==
  ASSUME LInv, NEW w \in Workers, WorkerRunJob(w) \/ WorkerRepool(w) \/ WorkerDone(w)
  PROVE  LInv'
<1> USE QueueAssumption DEF LInv
<1> DEFINE j == wjob[w]
<1>1. Busy(w)
  BY DEF Busy, WorkerRunJob, WorkerRepool, WorkerDone
<1>2. /\ j \in Jobs /\ stage[j] = HeldStage[wpc[w]] /\ stage[j] \in {"running", "ran", "repooled"}
      /\ \A i \in 1..Len(jobQueue) :
            i > 1 \/ ~AtFront \/ dpc \in {"pick", "hand"} => jobQueue[i] # j
      /\ \A v \in Workers : v # w /\ Busy(v) => wjob[v] # j
  <2>1. HeldStage[wpc[w]] \in {"running", "ran", "repooled"}
    BY <1>1 DEF Busy, HeldStage
  <2> QED  BY <1>1, <2>1, ListHeldJob
<1>3. ~workerPoolClosed /\ ~PastWait
  BY <1>2, ListOpenInFlight DEF InFlight
<1>4. /\ UNCHANGED <<caller, running, jobQueue, jobQueueClosed, workerPoolClosed, quit, dpc,
                     djob, dworker, panicked>>
      /\ workerPool' \in Seq(Workers) /\ ran' \in [Jobs -> Nat]
  <2>1. UNCHANGED <<caller, running, jobQueue, jobQueueClosed, workerPoolClosed, quit, dpc,
                    djob, dworker, panicked>>
    BY <1>3 DEF WorkerRunJob, WorkerRepool, WorkerDone, callerVars, dispVars
  <2>2. workerPool' \in Seq(Workers)
    <3>1. workerPool \in Seq(Workers) /\ Append(workerPool, w) \in Seq(Workers)
      BY AppendProperties DEF LTypes
    <3>2. workerPool' \in {workerPool, Append(workerPool, w)}
      BY <1>3 DEF WorkerRunJob, WorkerRepool, WorkerDone
    <3> QED  BY <3>1, <3>2
  <2>3. ran' \in [Jobs -> Nat]
    BY <1>2, <1>3 DEF WorkerRunJob, WorkerRepool, WorkerDone, LTypes
  <2> QED  BY <2>1, <2>2, <2>3
<1>5. PICK s \in {"ran", "repooled", "done"} :
        /\ stage' = [stage EXCEPT ![j] = s]
        /\ s = "done" => /\ stage[j] = "repooled" /\ wpc' = [wpc EXCEPT ![w] = "select"]
                         /\ wjob' = [wjob EXCEPT ![w] = NoJob] /\ wg' = wg - 1
        /\ s # "done" => /\ UNCHANGED <<wjob, wg>>
                         /\ \E pc \in {"repool", "release"} :
                               wpc' = [wpc EXCEPT ![w] = pc] /\ HeldStage[pc] = s
  <2>1. CASE WorkerRunJob(w)
    BY <2>1 DEF WorkerRunJob, HeldStage
  <2>2. CASE WorkerRepool(w)
    BY <1>3, <2>2 DEF WorkerRepool, HeldStage
  <2>3. CASE WorkerDone(w)
    BY <1>2, <2>3 DEF WorkerDone, HeldStage
  <2> QED  BY <2>1, <2>2, <2>3
<1> HIDE DEF j
<1>6. DOMAIN stage = Jobs /\ stage'[j] = s /\ \A k \in Jobs : k # j => stage'[k] = stage[k]
  BY <1>2, <1>5 DEF LTypes
<1>7. WgExact' /\ wg' \in Nat
  <2>1. stage[j] \in InFlight
    BY <1>2 DEF InFlight
  <2>2. CASE s = "done"
    <3>1. s \notin InFlight /\ wg' = wg - 1
      BY <1>5, <2>2 DEF InFlight
    <3> QED  BY <1>2, <1>5, <1>6, <2>1, <3>1, LeaveKeepsCount
  <2>3. CASE s # "done"
    <3>1. s \in InFlight /\ wg' = wg
      BY <1>5, <2>3 DEF InFlight
    <3> QED  BY <1>2, <1>5, <1>6, <2>1, <3>1, MoveKeepsCount DEF LTypes
  <2> QED  BY <2>2, <2>3
<1>8. LTypes'
  <2>1. /\ wpc' \in [Workers -> {"off", "select", "running", "repool", "release",
                                 "quitting", "stopped"}]
        /\ wjob' \in [Workers -> Jobs \cup {NoJob}]
    BY <1>5 DEF LTypes
  <2>2. stage' \in [Jobs -> ListStages]
    BY <1>2, <1>5 DEF LTypes, ListStages, Stages
  <2> QED  BY <1>4, <1>7, <2>1, <2>2 DEF LTypes
<1>9. LQueued' /\ LFront'
  <2>1. AtFront' <=> AtFront
    BY <1>4 DEF AtFront
  <2>2. LQueued'
    BY <1>2, <1>4, <1>6, <2>1, ListElements DEF LQueued
  <2>3. LFront'
    <3>1. dpc \in {"pick", "hand"} => djob \in Jobs /\ djob # j
      BY <1>2, ListElements DEF LFront, AtFront
    <3>2. dpc = "remove" => jobQueue[1] \in Jobs
      BY ListElements DEF LFront, AtFront
    <3> QED  BY <1>4, <1>6, <2>1, <3>1, <3>2 DEF LFront
  <2> QED  BY <2>2, <2>3
<1>10. LHeld' /\ JobsDistinct'
  <2>1. \A v \in Workers : v # w => wpc'[v] = wpc[v] /\ wjob'[v] = wjob[v]
    BY <1>5 DEF LTypes
  <2>2. \A v \in Workers : v # w => (Busy(v)' <=> Busy(v))
    BY <2>1 DEF Busy
  <2>3. Busy(w)' => wjob'[w] = j /\ s = HeldStage[wpc'[w]]
    BY <1>5 DEF Busy, LTypes, j
  <2>4. LHeld'
    BY <1>2, <1>6, <2>1, <2>2, <2>3 DEF LHeld
  <2>5. JobsDistinct'
    <3>1. \A i, k \in 1..Len(jobQueue') : i # k => jobQueue'[i] # jobQueue'[k]
      BY <1>4 DEF JobsDistinct
    <3>2. ASSUME NEW u \in Workers, NEW v \in Workers, u # v, Busy(u)', Busy(v)'
          PROVE  wjob'[u] # wjob'[v]
      BY <1>1, <1>2, <2>1, <2>2, <2>3, <3>2 DEF JobsDistinct
    <3> QED  BY <3>1, <3>2 DEF JobsDistinct
  <2> QED  BY <2>4, <2>5
<1>11. ClosingOrder'
  BY <1>4, <1>5 DEF ClosingOrder, LTypes
<1>12. LJoined'
  <2>1. Pushing' \subseteq Pushing
    BY <1>5, <1>6 DEF Pushing
  <2> QED  BY <1>3, <1>4, <2>1 DEF LJoined, PastWait, NoPanic
<1> QED  BY <1>7, <1>8, <1>9, <1>10, <1>11, <1>12

(* The quit case.                                                          *)
LEMMA ListWorkerLeaves ==
  ASSUME LInv, NEW w \in Workers, WorkerQuit(w) \/ WorkerStopped(w)
  PROVE  LInv'
<1> USE QueueAssumption DEF LInv
<1>1. /\ \E pc \in {"quitting", "stopped"} : wpc' = [wpc EXCEPT ![w] = pc]
      /\ wpc[w] \in {"select", "quitting"} /\ w <= quit
      /\ UNCHANGED <<caller, running, wg, jobQueue, jobQueueClosed, workerPoolClosed, quit,
                     dpc, djob, dworker, wjob, stage, ran, panicked>>
  BY DEF WorkerQuit, WorkerStopped, callerVars, dispVars, ClosingOrder
<1>2. workerPool' \in Seq(Workers)
  <2>1. workerPool # <<>> => Tail(workerPool) \in Seq(Workers)
    BY HeadTailProperties DEF LTypes
  <2> QED  BY <2>1 DEF WorkerQuit, WorkerStopped, LTypes
<1>3. LTypes'
  BY <1>1, <1>2 DEF LTypes
<1>4. WgExact' /\ InFlightJobs' = InFlightJobs /\ Pushing' = Pushing
  BY <1>1, SameStages DEF Pushing
<1>5. LQueued' /\ LFront'
  BY <1>1 DEF LQueued, LFront, AtFront
<1>6. LHeld' /\ JobsDistinct'
  <2>1. \A v \in Workers : Busy(v)' => Busy(v) /\ wpc'[v] = wpc[v]
    BY <1>1 DEF LTypes, Busy
  <2> QED  BY <1>1, <2>1 DEF LHeld, JobsDistinct
<1>7. ClosingOrder'
  BY <1>1 DEF LTypes, ClosingOrder
<1> QED  BY <1>1, <1>3, <1>4, <1>5, <1>6, <1>7 DEF LJoined, PastWait, NoPanic

(* Nothing happens.                                                        *)
LEMMA ListRests == ASSUME LInv, UNCHANGED vars PROVE LInv'
BY DEF vars, LInv, LTypes, WgExact, InFlightJobs, LQueued, LFront, AtFront, LHeld, Busy,
       JobsDistinct, ClosingOrder, LJoined, Pushing, PastWait, NoPanic

(* Every step keeps the invariant.                                         *)
LEMMA ListNextKeeps == LInv /\ [ListNext]_vars => LInv'
<1> SUFFICES ASSUME LInv, [ListNext]_vars PROVE LInv'
  OBVIOUS
<1>1. CASE Run \/ ListTerminate \/ ListTerminateSteps  BY <1>1, ListCallerKeeps
<1>2. CASE ListDispatcher
  BY <1>2, FrontKeeps, PickKeeps, HandKeeps, RemoveKeeps DEF ListDispatcher
<1>3. CASE \E j \in Jobs : ListPush(j)
  BY <1>3, PushBegins, PushBackKeeps DEF ListPush
<1>4. CASE \E w \in Workers : Worker(w)
  BY <1>4, ListWorkerKeeps, ListWorkerLeaves DEF Worker
<1>5. CASE Finished \/ UNCHANGED vars  BY <1>5, ListRests DEF Finished
<1> QED  BY <1>1, <1>2, <1>3, <1>4, <1>5 DEF ListNext

-----------------------------------------------------------------------------
(* The bound.  Once its Push has returned, a job does not go back to it.   *)
LEMMA OnlyPushPushes ==
  ASSUME LInv,
         \/ Run \/ ListTerminate \/ ListTerminateSteps \/ ListDispatcher
         \/ (\E w \in Workers : Worker(w)) \/ UNCHANGED vars
  PROVE  Pushing' = Pushing /\ Measured' = Measured
<1> DEFINE Late == {"queued", "dispatched", "running", "ran", "repooled", "done"}
<1> USE DEF LInv
<1>1. \/ UNCHANGED stage
      \/ \E j \in Jobs, s \in Late : stage[j] \in Late /\ stage' = [stage EXCEPT ![j] = s]
  <2>1. CASE Run \/ ListTerminate \/ ListTerminateSteps \/ UNCHANGED vars
    BY <2>1 DEF Run, ListTerminate, Terminate, ListTerminateSteps, ListTerminateWait,
                TerminateStopWorker, TerminateClosePool, vars
  <2>2. CASE ListFront
    <3>1. UNCHANGED stage \/ (jobQueue # <<>>
            /\ stage' = [stage EXCEPT ![jobQueue[1]] = "dispatched"])
      BY <2>2, ListElements DEF ListFront
    <3>2. jobQueue # <<>> => jobQueue[1] \in Jobs /\ stage[jobQueue[1]] \in Late
      BY ListElements, ListIsPushed
    <3> QED  BY <3>1, <3>2
  <2>3. CASE DispatchPick \/ ListRemove
    BY <2>3 DEF DispatchPick, ListRemove
  <2>4. CASE ListHand
    <3>1. djob \in Jobs /\ stage[djob] \in Late
      BY <2>4, ListElements DEF ListHand, LFront, AtFront
    <3>2. UNCHANGED stage \/ stage' = [stage EXCEPT ![djob] = "running"]
      BY <2>4 DEF ListHand
    <3> QED  BY <3>1, <3>2
  <2>5. CASE \E w \in Workers : Worker(w)
    <3>1. PICK w \in Workers : Worker(w)
      BY <2>5
    <3>2. UNCHANGED stage
            \/ (Busy(w) /\ \E s \in Late : stage' = [stage EXCEPT ![wjob[w]] = s])
      BY <3>1 DEF Worker, WorkerRunJob, WorkerRepool, WorkerDone, WorkerQuit, WorkerStopped,
                  Busy
    <3>3. Busy(w) => wjob[w] \in Jobs /\ stage[wjob[w]] \in Late
      BY DEF LHeld, Busy, HeldStage
    <3> QED  BY <3>2, <3>3
  <2> QED  BY <2>1, <2>2, <2>3, <2>4, <2>5 DEF ListDispatcher
<1>2. CASE UNCHANGED stage
  BY <1>2 DEF Pushing, Measured
<1>3. CASE \E j \in Jobs, s \in Late : stage[j] \in Late /\ stage' = [stage EXCEPT ![j] = s]
  BY <1>3 DEF Pushing, Measured, LTypes
<1> QED  BY <1>1, <1>2, <1>3

(* Only PushBack makes the list longer.                                    *)
LEMMA NobodyElseAppends ==
  ASSUME LInv,
         \/ Run \/ ListTerminate \/ ListTerminateSteps \/ ListDispatcher
         \/ (\E w \in Workers : Worker(w)) \/ UNCHANGED vars
  PROVE  Len(jobQueue') <= Len(jobQueue)
<1> USE DEF LInv
<1>1. CASE ListRemove
  <2>1. jobQueue # <<>> /\ jobQueue' = Tail(jobQueue)
    BY <1>1 DEF ListRemove, LFront, AtFront
  <2> QED  BY <2>1, HeadTailProperties, ListElements DEF LTypes
<1>2. CASE ~ListRemove
  <2>1. jobQueue' = jobQueue
    BY <1>2 DEF Run, ListTerminate, Terminate, ListTerminateSteps, ListTerminateWait,
         TerminateStopWorker, TerminateClosePool, ListDispatcher, ListFront, DispatchPick,
         ListHand, Worker, WorkerRunJob, WorkerRepool, WorkerDone, WorkerQuit, WorkerStopped,
         vars
  <2> QED  BY <2>1, ListElements
<1> QED  BY <1>1, <1>2

(* The sets of pushing goroutines and of those let in are finite.          *)
LEMMA PushersFinite ==
  /\ IsFiniteSet(Pushing) /\ Cardinality(Pushing) \in Nat
  /\ IsFiniteSet(Measured) /\ Cardinality(Measured) \in Nat
  /\ Cardinality(Measured) <= Cardinality(Pushing)
<1>1. Pushing \subseteq Jobs /\ Measured \subseteq Pushing
  BY DEF Pushing, Measured
<1>2. IsFiniteSet(Pushing) /\ IsFiniteSet(Measured)
  BY <1>1, QueueAssumption, FS_Subset
<1> QED  BY <1>1, <1>2, FS_CardinalityType, FS_Subset

(* A job is let in when the list is not above its maximum, beside the      *)
(* others that push.                                                       *)
LEMMA PushKeepsRoom ==
  ASSUME LInv, LRoom, NEW j \in Jobs, ListPush(j), LInv'
  PROVE  LRoom'
<1> USE ListAssumption DEF LInv, LRoom
<1>0. /\ DOMAIN stage = Jobs /\ Len(jobQueue) \in Nat /\ Len(jobQueue') \in Nat
      /\ \A k \in Jobs : k # j => stage'[k] = stage[k]
      /\ j \in DOMAIN stage'
  BY LenProperties DEF LTypes, ListPush, ListPushCheck, PushCheck, ListPushMeasure, ListPushAdd,
         ListPushBack
<1>1. CASE ListPushCheck(j)
  <2>1. stage'[j] \in {"checked", "dropped"} /\ stage[j] = "idle" /\ jobQueue' = jobQueue
    BY <1>0, <1>1 DEF ListPushCheck, PushCheck
  <2>2. Pushing' \in {Pushing, Pushing \cup {j}} /\ Measured' = Measured
    BY <1>0, <2>1 DEF Pushing, Measured
  <2>3. Cardinality(Pushing') <= Cardinality(Pushing) + 1
    <3>1. j \notin Pushing
      BY <2>1 DEF Pushing
    <3>2. Cardinality(Pushing \cup {j}) = Cardinality(Pushing) + 1
      BY <3>1, PushersFinite, FS_AddElement
    <3>3. Pushing' = Pushing => Cardinality(Pushing') = Cardinality(Pushing)
      OBVIOUS
    <3>4. Pushing' = Pushing \cup {j} => Cardinality(Pushing') = Cardinality(Pushing \cup {j})
      OBVIOUS
    <3>5. Cardinality(Pushing') \in {Cardinality(Pushing), Cardinality(Pushing) + 1}
      BY <2>2, <3>2, <3>3, <3>4
    <3> QED  BY <3>5, PushersFinite
  <2>4. Cardinality(Pushing') \in Nat
    BY <2>2, PushersFinite, FS_AddElement, FS_CardinalityType
  <2>5. Cardinality(Pushing) < Pushers
    BY <1>1 DEF ListPushCheck
  <2> QED  BY <2>1, <2>2, <2>3, <2>4, <2>5, PushersFinite
<1>2. CASE ListPushMeasure(j)
  <2>1. /\ stage[j] = "checked" /\ jobQueue' = jobQueue
        /\ \/ stage'[j] = "dropped"
           \/ stage'[j] = "measured" /\ (MaxLen > 0 => Len(jobQueue) <= MaxLen)
    BY <1>0, <1>2 DEF ListPushMeasure
  <2>2. Pushing' \subseteq Pushing /\ Measured' \subseteq Pushing
    BY <1>0, <2>1 DEF Pushing, Measured
  <2>3. /\ Cardinality(Pushing') \in Nat /\ Cardinality(Pushing') <= Pushers
        /\ Cardinality(Measured') \in Nat /\ Cardinality(Measured') <= Pushers
    <3>1. /\ IsFiniteSet(Pushing') /\ Cardinality(Pushing') <= Cardinality(Pushing)
          /\ IsFiniteSet(Measured') /\ Cardinality(Measured') <= Cardinality(Pushing)
      BY <2>2, PushersFinite, FS_Subset
    <3>2. Cardinality(Pushing') \in Nat /\ Cardinality(Measured') \in Nat
      BY <3>1, FS_CardinalityType
    <3> QED  BY <3>1, <3>2, PushersFinite
  <2>4. CASE stage'[j] = "dropped"
    <3>1. Measured' = Measured
      BY <1>0, <2>1, <2>4 DEF Measured
    <3> QED  BY <2>1, <2>3, <3>1
  <2>5. CASE stage'[j] = "measured"
    BY <1>0, <2>1, <2>3, <2>5
  <2> QED  BY <2>1, <2>4, <2>5
<1>3. CASE ListPushAdd(j)
  <2>1. stage'[j] = "added" /\ stage[j] = "measured" /\ jobQueue' = jobQueue
    BY <1>0, <1>3 DEF ListPushAdd
  <2>2. Pushing' = Pushing /\ Measured' = Measured
    BY <1>0, <2>1 DEF Pushing, Measured
  <2> QED  BY <2>1, <2>2
<1>4. CASE ListPushBack(j)
  <2>1. /\ stage'[j] = "queued" /\ stage[j] = "added"
        /\ Len(jobQueue') = Len(jobQueue) + 1
    BY <1>0, <1>4, AppendProperties DEF ListPushBack, LTypes
  <2>2. /\ Pushing' = Pushing \ {j} /\ Measured' = Measured \ {j} /\ j \in Measured
        /\ j \in Pushing
    BY <1>0, <2>1 DEF Pushing, Measured
  <2>3. /\ Cardinality(Pushing') = Cardinality(Pushing) - 1
        /\ Cardinality(Measured') = Cardinality(Measured) - 1
    BY <2>2, PushersFinite, FS_RemoveElement
  <2> QED  BY <1>0, <2>1, <2>3, PushersFinite
<1> QED  BY <1>1, <1>2, <1>3, <1>4 DEF ListPush

(* Every step keeps room for those that were let in.                       *)
LEMMA ListNextKeepsRoom ==
  ASSUME LInv, LRoom, [ListNext]_vars, LInv'
  PROVE  LRoom'
<1>1. CASE \E j \in Jobs : ListPush(j)
  BY <1>1, PushKeepsRoom
<1>2. CASE \/ Run \/ ListTerminate \/ ListTerminateSteps \/ ListDispatcher
           \/ (\E w \in Workers : Worker(w)) \/ Finished \/ UNCHANGED vars
  <2>1. Pushing' = Pushing /\ Measured' = Measured /\ Len(jobQueue') <= Len(jobQueue)
    BY <1>2, OnlyPushPushes, NobodyElseAppends DEF Finished
  <2>2. Len(jobQueue) \in Nat /\ Len(jobQueue') \in Nat
    BY LenProperties DEF LInv, LTypes
  <2> QED  BY <2>1, <2>2, PushersFinite, ListAssumption DEF LRoom
<1> QED  BY <1>1, <1>2 DEF ListNext

-----------------------------------------------------------------------------
(* The refinement of the promise of a Queuer.                              *)
LEMMA ListPushRefines ==
  ASSUME LInv, NEW j \in Jobs, ListPush(j)
  PROVE  [Service!Next]_(Service!vars)
<1> USE DEF LInv, callerVars
<1>0. DOMAIN stage = Jobs /\ UNCHANGED caller
  BY DEF LTypes, ListPush, ListPushCheck, PushCheck, ListPushMeasure, ListPushAdd, ListPushBack
<1>1. CASE stage' = [stage EXCEPT ![j] = "dropped"] /\ stage[j] \in {"idle", "checked"}
  <2>1. Status' = [Status EXCEPT ![j] = "refused"] /\ Status[j] = "new"
    BY <1>0, <1>1, StatusMoves DEF Status, StatusOf
  <2>2. Service!Refuse(j)
    BY <1>0, <2>1 DEF Service!Refuse, Service!Moves, PastWait
  <2> QED  BY <2>2 DEF Service!Next
<1>2. CASE \/ stage' = [stage EXCEPT ![j] = "checked"] /\ stage[j] = "idle"
           \/ stage' = [stage EXCEPT ![j] = "measured"] /\ stage[j] = "checked"
           \/ stage' = [stage EXCEPT ![j] = "queued"] /\ stage[j] = "added"
  BY <1>0, <1>2, QuietMove DEF StatusOf
<1>3. CASE stage' = [stage EXCEPT ![j] = "added"] /\ stage[j] = "measured"
  <2>1. Status' = [Status EXCEPT ![j] = "accepted"] /\ Status[j] = "new"
    BY <1>0, <1>3, StatusMoves DEF Status, StatusOf
  <2>2. ~PastWait
    BY <1>3 DEF LJoined, Pushing, PastWait
  <2>3. Service!Accept(j)
    BY <1>0, <2>1, <2>2 DEF Service!Accept, Service!Moves, PastWait
  <2> QED  BY <2>3 DEF Service!Next
<1> QED  BY <1>1, <1>2, <1>3 DEF ListPush, ListPushCheck, PushCheck, ListPushMeasure,
            ListPushAdd, ListPushBack

(* The dispatcher does nothing the service would see.                      *)
LEMMA ListDispatcherRefines ==
  ASSUME LInv, ListDispatcher PROVE UNCHANGED Service!vars
<1> USE DEF LInv, callerVars
<1>0. DOMAIN stage = Jobs /\ UNCHANGED caller
  BY DEF LTypes, ListDispatcher, ListFront, DispatchPick, ListHand, ListRemove
<1>1. CASE ListFront
  <2>1. UNCHANGED stage \/ (jobQueue # <<>> /\ dpc = "range"
          /\ stage' = [stage EXCEPT ![jobQueue[1]] = "dispatched"])
    BY <1>1, ListElements DEF ListFront
  <2>2. jobQueue # <<>> /\ dpc = "range" => jobQueue[1] \in Jobs /\ stage[jobQueue[1]] = "queued"
    BY ListElements DEF LQueued, AtFront
  <2> QED  BY <1>0, <2>1, <2>2, QuietMove, QuietStep DEF StatusOf
<1>2. CASE DispatchPick \/ ListRemove
  BY <1>0, <1>2, QuietStep DEF DispatchPick, ListRemove
<1>3. CASE ListHand
  <2>1. djob \in Jobs /\ stage[djob] = "dispatched"
    BY <1>3, ListElements DEF ListHand, LFront, AtFront
  <2>2. UNCHANGED stage \/ stage' = [stage EXCEPT ![djob] = "running"]
    BY <1>3 DEF ListHand
  <2> QED  BY <1>0, <2>1, <2>2, QuietMove, QuietStep DEF StatusOf
<1> QED  BY <1>1, <1>2, <1>3 DEF ListDispatcher

(* A worker executes a job, or does nothing the service would see.         *)
LEMMA ListWorkerRefines ==
  ASSUME LInv, NEW w \in Workers, Worker(w)
  PROVE  [Service!Next]_(Service!vars)
<1> USE DEF LInv, callerVars
<1>0. /\ DOMAIN stage = Jobs /\ UNCHANGED caller
      /\ Busy(w) => wjob[w] \in Jobs /\ stage[wjob[w]] = HeldStage[wpc[w]]
  BY DEF LTypes, LHeld, Worker, WorkerRunJob, WorkerRepool, WorkerDone, WorkerQuit, WorkerStopped
<1>1. CASE WorkerRunJob(w)
  <2>1. /\ wjob[w] \in Jobs /\ stage[wjob[w]] = "running"
        /\ stage' = [stage EXCEPT ![wjob[w]] = "ran"]
    BY <1>0, <1>1 DEF WorkerRunJob, Busy, HeldStage
  <2>2. Status' = [Status EXCEPT ![wjob[w]] = "run"] /\ Status[wjob[w]] = "accepted"
    <3>1. StatusOf("ran") = "run" /\ StatusOf("running") = "accepted"
      BY DEF StatusOf
    <3>2. Status' = [Status EXCEPT ![wjob[w]] = StatusOf("ran")]
      BY <1>0, <2>1, StatusMoves
    <3>3. Status[wjob[w]] = StatusOf("running")
      BY <2>1 DEF Status
    <3> QED  BY <3>1, <3>2, <3>3
  <2>3. Service!Execute(wjob[w])
    BY <1>0, <2>2 DEF Service!Execute, Service!Moves, PastWait
  <2> QED  BY <2>1, <2>3 DEF Service!Next
<1>2. CASE WorkerRepool(w) \/ WorkerDone(w)
  <2>1. \/ UNCHANGED stage
        \/ /\ wjob[w] \in Jobs /\ stage[wjob[w]] \in {"ran", "repooled"}
           /\ \E s \in {"repooled", "done"} : stage' = [stage EXCEPT ![wjob[w]] = s]
    BY <1>0, <1>2 DEF WorkerRepool, WorkerDone, Busy, HeldStage
  <2> QED  BY <1>0, <2>1, QuietMove, QuietStep DEF StatusOf
<1>3. CASE WorkerQuit(w) \/ WorkerStopped(w)
  BY <1>0, <1>3, QuietStep DEF WorkerQuit, WorkerStopped
<1> QED  BY <1>1, <1>2, <1>3 DEF Worker

(* wg.Wait closes the service.                                             *)
LEMMA ListCallerRefines ==
  ASSUME LInv, Run \/ ListTerminate \/ ListTerminateSteps
  PROVE  [Service!Next]_(Service!vars)
<1> USE DEF LInv
<1>1. CASE ListTerminateWait
  <2>1. UNCHANGED stage /\ ~PastWait /\ PastWait'
    BY <1>1 DEF ListTerminateWait, PastWait
  <2>2. \A j \in Jobs : stage[j] \notin InFlight
    BY <1>1, ZeroMeansNone DEF ListTerminateWait, InFlightJobs
  <2>3. \A j \in Jobs : Status[j] # "accepted"
    BY <2>2 DEF Status, StatusOf, InFlight
  <2>4. Service!Close
    BY <2>1, <2>3 DEF Service!Close, Status
  <2> QED  BY <2>4 DEF Service!Next
<1>2. CASE Run \/ ListTerminate \/ TerminateStopWorker \/ TerminateClosePool
  <2>1. UNCHANGED stage /\ (PastWait <=> PastWait')
    BY <1>2 DEF Run, ListTerminate, Terminate, TerminateStopWorker, TerminateClosePool, PastWait
  <2> QED  BY <2>1 DEF Service!vars, Status, PastWait
<1> QED  BY <1>1, <1>2 DEF ListTerminateSteps

-----------------------------------------------------------------------------
(* LInv and LRoom are invariants of the list queue.                        *)
THEOREM ListInvariant == ListSpec => [](LInv /\ LRoom)
<1>1. Init => LInv /\ LRoom
  <2> SUFFICES ASSUME Init PROVE LRoom
    BY InitLInv
  <2>1. Pushing = {} /\ Measured = {} /\ Len(jobQueue) = 0
    BY DEF Init, Pushing, Measured
  <2> QED  BY <2>1, FS_EmptySet, ListAssumption DEF LRoom
<1>2. LInv /\ LRoom /\ [ListNext]_vars => LInv' /\ LRoom'
  BY ListNextKeeps, ListNextKeepsRoom
<1> QED  BY <1>1, <1>2, PTL DEF ListSpec

(* The list queue keeps its types; the element that the dispatcher hands   *)
(* over stays the front until it is removed, however many goroutines push. *)
THEOREM ListTypes == ListSpec => []ListTypeOK
<1>1. LInv => ListTypeOK
  <2> SUFFICES ASSUME LInv PROVE ListTypeOK
    OBVIOUS
  <2>1. wg \in 0..Cardinality(Jobs)
    <3>1. InFlightJobs \subseteq Jobs
      BY DEF InFlightJobs
    <3>2. Cardinality(InFlightJobs) <= Cardinality(Jobs) /\ Cardinality(Jobs) \in Nat
      BY <3>1, QueueAssumption, FS_Subset, FS_CardinalityType
    <3> QED  BY <3>2 DEF LInv, LTypes, WgExact
  <2>2. DOMAIN jobQueue = 1..Len(jobQueue)
    BY LenProperties DEF LInv, LTypes
  <2> QED  BY <2>1, <2>2, ListElements
           DEF LInv, LTypes, LFront, AtFront, JobsDistinct, ListTypeOK
<1> QED  BY <1>1, ListInvariant, PTL

(* The comparison of the length and PushBack are two critical sections,    *)
(* but a bounded list outgrows its maximum by the number of pushing        *)
(* goroutines at most.                                                     *)
THEOREM ListStaysBounded == ListSpec => []ListBounded
<1>1. LInv /\ LRoom => ListBounded
  <2> SUFFICES ASSUME LInv, LRoom, MaxLen > 0 PROVE Len(jobQueue) <= MaxLen + Pushers
    BY DEF ListBounded
  <2> QED  BY ListElements, PushersFinite, ListAssumption DEF LRoom
<1> QED  BY <1>1, ListInvariant, PTL

(* No worker of a list queue lends its channel to a closed pool, and its   *)
(* dispatcher hands no job to a worker that has left.                      *)
THEOREM ListNeverPanics == ListSpec => []NoPanic
<1>1. LInv => NoPanic
  BY DEF LInv, LJoined
<1> QED  BY <1>1, ListInvariant, PTL

(* The list queue keeps the promise of a Queuer: what it accepts it runs,  *)
(* once, and before Terminate has passed its wait.                         *)
THEOREM ListQueueImplementsService == ListSpec => RefinesService
<1>1. Init => Service!Init
  BY DEF Init, Service!Init, Status, StatusOf, PastWait
<1>2. LInv /\ [ListNext]_vars => [Service!Next]_(Service!vars)
  <2> SUFFICES ASSUME LInv, [ListNext]_vars PROVE [Service!Next]_(Service!vars)
    OBVIOUS
  <2>1. CASE Finished \/ UNCHANGED vars
    BY <2>1, QuietStep DEF Finished, vars
  <2> QED  BY <2>1, ListCallerRefines, ListDispatcherRefines, ListPushRefines,
              ListWorkerRefines DEF ListNext
<1> QED  BY <1>1, <1>2, ListInvariant, PTL DEF ListSpec, RefinesService, Service!Spec
=============================================================================
