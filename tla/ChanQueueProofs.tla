-------------------------- MODULE ChanQueueProofs --------------------------
(***************************************************************************)
(* Proofs about ChanQueue, for every set of jobs, number of workers and    *)
(* capacity: the WaitGroup counts exactly the jobs in flight, whence       *)
(* wg.Wait returns only when none is; and if the pushes have returned      *)
(* before Terminate is called, no goroutine sends on a closed channel and  *)
(* every accepted job has run exactly once when Terminate passes its wait. *)
(***************************************************************************)
EXTENDS ChanQueue, FiniteSetTheorems, SequenceTheorems, TLAPS

USE DEF Workers, NilChan, Panics, PushStep, DispatchStep, HandTo, WorkerStep, CallerStep

(* What a change of one job's stage does to the set of jobs in flight.     *)
LEMMA StageChange ==
  ASSUME DOMAIN stage = Jobs, NEW j \in Jobs, NEW s,
         stage' = [stage EXCEPT ![j] = s]
  PROVE  /\ (stage[j] \in InFlight <=> s \in InFlight) =>
              InFlightJobs' = InFlightJobs
         /\ stage[j] \notin InFlight /\ s \in InFlight =>
              InFlightJobs' = InFlightJobs \cup {j} /\ j \notin InFlightJobs
         /\ stage[j] \in InFlight /\ s \notin InFlight =>
              InFlightJobs' = InFlightJobs \ {j} /\ j \in InFlightJobs
BY DEF InFlightJobs

(* Only finitely many jobs are in flight.                                  *)
LEMMA InFlightFinite == IsFiniteSet(InFlightJobs)
BY QueueAssumption, FS_Subset DEF InFlightJobs

(* The counter stays exact when a job moves within the flight, ...         *)
LEMMA MoveKeepsCount ==
  ASSUME DOMAIN stage = Jobs, WgExact, NEW j \in Jobs, NEW s,
         stage' = [stage EXCEPT ![j] = s],
         stage[j] \in InFlight <=> s \in InFlight,
         wg' = wg
  PROVE  WgExact' /\ InFlightJobs' = InFlightJobs
BY StageChange DEF WgExact

(* ... enters it with wg.Add(1), ...                                       *)
LEMMA EnterKeepsCount ==
  ASSUME DOMAIN stage = Jobs, WgExact, NEW j \in Jobs, NEW s,
         stage' = [stage EXCEPT ![j] = s],
         stage[j] \notin InFlight, s \in InFlight,
         wg' = wg + 1
  PROVE  WgExact'
BY StageChange, InFlightFinite, FS_AddElement DEF WgExact

(* ... or leaves it with wg.Done(), which finds the counter positive.      *)
LEMMA LeaveKeepsCount ==
  ASSUME DOMAIN stage = Jobs, WgExact, NEW j \in Jobs, NEW s,
         stage' = [stage EXCEPT ![j] = s],
         stage[j] \in InFlight, s \notin InFlight,
         wg' = wg - 1
  PROVE  WgExact' /\ wg' \in Nat
<1>1. InFlightJobs' = InFlightJobs \ {j} /\ j \in InFlightJobs
  BY StageChange
<1>2. wg' = Cardinality(InFlightJobs \ {j})
  BY <1>1, InFlightFinite, FS_RemoveElement DEF WgExact
<1>3. Cardinality(InFlightJobs \ {j}) \in Nat
  BY InFlightFinite, FS_RemoveElement, FS_CardinalityType
<1> QED  BY <1>1, <1>2, <1>3 DEF WgExact

(* Steps that leave the jobs' stages and the counter alone.                *)
LEMMA SameStages ==
  ASSUME WgExact, UNCHANGED <<stage, wg>>
  PROVE  WgExact' /\ InFlightJobs' = InFlightJobs
BY DEF WgExact, InFlightJobs

(* A queue that was just created.                                          *)
LEMMA InitIInv == Init => IInv
<1> SUFFICES ASSUME Init PROVE IInv
  OBVIOUS
<1> USE QueueAssumption DEF Init
<1>a. jobQueue \in Seq(Jobs) /\ workerPool \in Seq(Workers)
  BY EmptySeq
<1>b. quit \in 0..MaxThread
  OBVIOUS
<1>1. TypeOK
  BY <1>a, <1>b DEF TypeOK, Stages
<1>2. InFlightJobs = {}
  BY DEF InFlightJobs, InFlight
<1>3. WgExact
  BY <1>2, FS_EmptySet DEF WgExact
<1>4. JobPlaces /\ JobsDistinct
  BY DEF JobPlaces, JobsDistinct, Busy
<1>5. ClosingOrder /\ JoinedPart /\ RanOnce
  BY DEF ClosingOrder, JoinedPart, PastWait, NoPanic, RanOnce
<1> QED  BY <1>1, <1>3, <1>4, <1>5 DEF IInv

-----------------------------------------------------------------------------
(* One lemma per step of Push.                                             *)
LEMMA PushCheckKeeps ==
  ASSUME IInv, NEW j \in Jobs, PushCheck(j)
  PROVE  IInv'
<1> USE QueueAssumption DEF IInv, PushCheck, callerVars, dispVars, workerVars
<1>1. TypeOK'
  BY DEF TypeOK, Stages
<1>2. WgExact' /\ InFlightJobs' = InFlightJobs
  BY MoveKeepsCount DEF TypeOK, InFlight
<1>3. JobPlaces' /\ JobsDistinct'
  <2>1. \A i \in 1..Len(jobQueue) : jobQueue[i] \in Jobs
    BY DEF TypeOK
  <2>2. JobPlaces'
    BY <2>1 DEF TypeOK, JobPlaces, Busy, HeldStage
  <2> QED  BY <2>2 DEF JobsDistinct, Busy
<1>4. ClosingOrder' /\ JoinedPart' /\ RanOnce'
  BY <1>2 DEF TypeOK, ClosingOrder, JoinedPart, PushesJoined, PastWait, NoPanic, RanOnce
<1> QED  BY <1>1, <1>2, <1>3, <1>4

(* wg.Add: one more job in flight, one more counted; or the panic of a     *)
(* WaitGroup that is releasing its waiter, which joined pushes rule out.   *)
LEMMA PushAddKeeps ==
  ASSUME IInv, NEW j \in Jobs, PushAdd(j)
  PROVE  IInv'
<1> USE QueueAssumption DEF IInv, callerVars, dispVars, workerVars
<1>0. stage[j] = "checked" /\ (JoinPushers => caller \in {"created", "serving"})
  BY DEF PushAdd, TypeOK, JoinedPart, PushesJoined
<1>a. CASE Releasing
  <2>1. panicked' = TRUE /\ UNCHANGED <<callerVars, wg, jobQueue, workerPool, workerVars,
                                        stage, dispVars>>
    BY <1>a DEF PushAdd
  <2>2. TypeOK' /\ JobPlaces' /\ JobsDistinct' /\ ClosingOrder' /\ RanOnce'
    BY <2>1 DEF TypeOK, JobPlaces, JobsDistinct, Busy, ClosingOrder, RanOnce
  <2>3. WgExact'
    BY <2>1, SameStages
  <2>4. ~JoinPushers
    BY <1>0, <1>a DEF Releasing
  <2> QED  BY <2>2, <2>3, <2>4 DEF JoinedPart
<1>b. CASE ~Releasing
  <2>0. /\ stage' = [stage EXCEPT ![j] = "added"] /\ wg' = wg + 1
        /\ UNCHANGED <<jobQueue, callerVars, workerPool, dispVars, workerVars, panicked>>
    BY <1>b DEF PushAdd
  <2>1. TypeOK'
    BY <2>0 DEF TypeOK, Stages
  <2>2. WgExact'
    BY <1>0, <2>0, EnterKeepsCount DEF TypeOK, InFlight
  <2>3. \A i \in 1..Len(jobQueue) : jobQueue[i] \in Jobs
    BY ElementOfSeq DEF TypeOK
  <2>4. JobPlaces'
    BY <1>0, <2>0, <2>3 DEF TypeOK, JobPlaces, Busy, HeldStage
  <2>5. JobsDistinct' /\ ClosingOrder'
    BY <2>0 DEF JobsDistinct, Busy, ClosingOrder
  <2>6. RanOnce'
    BY <1>0, <2>0 DEF TypeOK, RanOnce
  <2>7. JoinedPart'
    BY <1>0, <2>0 DEF JoinedPart, PastWait, NoPanic
  <2> QED  BY <2>1, <2>2, <2>4, <2>5, <2>6, <2>7
<1> QED  BY <1>a, <1>b

(* The send, or the panic when Terminate has closed jobQueue.              *)
LEMMA PushSendKeeps ==
  ASSUME IInv, NEW j \in Jobs, PushSend(j)
  PROVE  IInv'
<1> USE QueueAssumption DEF IInv, PushSend, callerVars, dispVars, workerVars
<1>1. CASE jobQueueClosed
  <2>1. TypeOK' /\ JobPlaces' /\ JobsDistinct' /\ ClosingOrder' /\ RanOnce'
    BY <1>1 DEF TypeOK, JobPlaces, JobsDistinct, Busy, ClosingOrder, RanOnce
  <2>2. WgExact'
    BY <1>1, SameStages
  <2>3. ~JoinPushers
    BY <1>1 DEF ClosingOrder, JoinedPart, PushesJoined
  <2> QED  BY <2>1, <2>2, <2>3 DEF JoinedPart
<1>2. CASE ~jobQueueClosed
  <2>1. /\ stage[j] = "added"
        /\ jobQueue' = Append(jobQueue, j)
        /\ stage' = [stage EXCEPT ![j] = "queued"]
        /\ UNCHANGED <<callerVars, wg, workerPool, dispVars, workerVars, panicked>>
    BY <1>2
  <2>2. /\ jobQueue' \in Seq(Jobs)
        /\ Len(jobQueue') = Len(jobQueue) + 1
        /\ \A i \in 1..Len(jobQueue) : jobQueue'[i] = jobQueue[i]
        /\ jobQueue'[Len(jobQueue) + 1] = j
    BY <2>1, AppendProperties DEF TypeOK
  <2>3. TypeOK'
    BY <2>1, <2>2 DEF TypeOK, Stages
  <2>4. WgExact' /\ InFlightJobs' = InFlightJobs
    BY <2>1, MoveKeepsCount DEF TypeOK, InFlight
  <2>5. /\ Len(jobQueue) \in Nat
        /\ \A i \in 1..Len(jobQueue) : jobQueue[i] \in Jobs
    BY LenProperties, ElementOfSeq DEF TypeOK
  <2>6. JobPlaces'
    BY <2>1, <2>2, <2>5 DEF TypeOK, JobPlaces, Busy, HeldStage
  <2>7. JobsDistinct'
    BY <2>1, <2>2, <2>5 DEF TypeOK, JobPlaces, JobsDistinct, Busy
  <2>8. ClosingOrder' /\ RanOnce'
    BY <2>1 DEF TypeOK, ClosingOrder, RanOnce
  <2>9. JoinedPart'
    BY <2>1, <2>4 DEF TypeOK, JoinedPart, PushesJoined, PastWait, NoPanic
  <2> QED  BY <2>3, <2>4, <2>6, <2>7, <2>8, <2>9
<1> QED  BY <1>1, <1>2

-----------------------------------------------------------------------------
(* The goroutine that calls Run and Terminate.                             *)
LEMMA RunKeeps == ASSUME IInv, Run PROVE IInv'
<1> USE QueueAssumption DEF IInv, Run
<1>1. workerPool' \in Seq(Workers)
  BY SeqDef
<1>2. TypeOK'
  BY <1>1 DEF TypeOK
<1>3. WgExact'
  BY SameStages
<1>4. JobPlaces' /\ JobsDistinct'
  BY DEF TypeOK, JobPlaces, JobsDistinct, Busy
<1>5. ClosingOrder' /\ RanOnce'
  BY DEF TypeOK, ClosingOrder, RanOnce
<1>6. JoinedPart'
  BY DEF JoinedPart, PastWait, NoPanic
<1> QED  BY <1>2, <1>3, <1>4, <1>5, <1>6

(* Terminate clears the flag.                                              *)
LEMMA TerminateKeeps == ASSUME IInv, Terminate PROVE IInv'
<1> USE QueueAssumption DEF IInv, Terminate, dispVars, workerVars
<1>1. TypeOK' /\ JobPlaces' /\ JobsDistinct' /\ RanOnce'
  BY DEF TypeOK, JobPlaces, JobsDistinct, Busy, RanOnce
<1>2. WgExact' /\ InFlightJobs' = InFlightJobs
  BY SameStages
<1>3. ClosingOrder'
  BY DEF TypeOK, ClosingOrder
<1>4. JoinedPart'
  BY DEF JoinedPart, PushesJoined, PastWait, NoPanic
<1> QED  BY <1>1, <1>2, <1>3, <1>4

(* A counter of zero means that no job is in flight.                       *)
LEMMA ZeroMeansNone ==
  ASSUME WgExact, wg = 0
  PROVE  InFlightJobs = {}
BY InFlightFinite, FS_EmptySet DEF WgExact

(* The steps inside wg.Wait.  A waiter that was woken finds the counter in *)
(* use again only if pushes were not joined.                               *)
LEMMA TerminateWaitKeeps == ASSUME IInv, TerminateWait PROVE IInv'
<1> USE QueueAssumption DEF IInv, dispVars, workerVars
<1>1. CASE caller = "woken" /\ wg # 0
  <2>1. panicked' = TRUE /\ UNCHANGED <<callerVars, wg, jobQueue, workerPool, workerVars,
                                        stage, dispVars>>
    BY <1>1 DEF TerminateWait, WaitEnter, WaitWake, WaitReturn, WaitStep
  <2>2. TypeOK' /\ JobPlaces' /\ JobsDistinct' /\ ClosingOrder' /\ RanOnce'
    BY <2>1 DEF TypeOK, JobPlaces, JobsDistinct, Busy, ClosingOrder, RanOnce, callerVars
  <2>3. WgExact'
    BY <2>1, SameStages
  <2>4. ~JoinPushers
    BY <1>1, FS_EmptySet DEF JoinedPart, WgExact
  <2> QED  BY <2>2, <2>3, <2>4 DEF JoinedPart
<1>2. CASE ~(caller = "woken" /\ wg # 0)
  <2>1. /\ caller \in {"waiting", "blocked", "woken"}
        /\ caller' \in {"blocked", "woken", "closing"}
        /\ caller' # "blocked" => wg = 0
        /\ UNCHANGED <<running, jobQueueClosed, workerPoolClosed, quit, wg, jobQueue,
                       workerPool, dispVars, workerVars, stage, panicked>>
    BY <1>2 DEF TerminateWait, WaitEnter, WaitWake, WaitReturn, WaitStep, Releasing
  <2>2. TypeOK' /\ JobPlaces' /\ JobsDistinct' /\ RanOnce'
    BY <2>1 DEF TypeOK, JobPlaces, JobsDistinct, Busy, RanOnce
  <2>3. WgExact' /\ (caller' # "blocked" => InFlightJobs' = {})
    BY <2>1, SameStages, ZeroMeansNone
  <2>4. ClosingOrder'
    BY <2>1 DEF TypeOK, ClosingOrder
  <2>5. JoinedPart'
    BY <2>1, <2>3 DEF JoinedPart, PushesJoined, PastWait, NoPanic
  <2> QED  BY <2>2, <2>3, <2>4, <2>5
<1> QED  BY <1>1, <1>2

(* Terminate closes jobQueue, stops the workers, closes workerPool.        *)
LEMMA ClosingKeeps ==
  ASSUME IInv, TerminateCloseJobs \/ TerminateStopWorker \/ TerminateClosePool
  PROVE  IInv'
<1> USE QueueAssumption DEF IInv, dispVars, workerVars,
        TerminateCloseJobs, TerminateStopWorker, TerminateClosePool
<1>0. UNCHANGED <<running, wg, jobQueue, workerPool, dpc, djob, dworker, wpc,
                  wjob, ran, stage, panicked>>
  OBVIOUS
<1>1. TypeOK'
  <2>1. quit' \in 0..MaxThread
    BY DEF TypeOK
  <2>2. jobQueueClosed' \in BOOLEAN /\ workerPoolClosed' \in BOOLEAN
    BY DEF TypeOK
  <2> QED  BY <1>0, <2>1, <2>2 DEF TypeOK
<1>2. JobPlaces' /\ JobsDistinct' /\ RanOnce'
  BY <1>0 DEF JobPlaces, JobsDistinct, Busy, RanOnce
<1>3. WgExact' /\ InFlightJobs' = InFlightJobs
  BY SameStages
<1>4. ClosingOrder'
  BY DEF TypeOK, ClosingOrder
<1>5. JoinedPart'
  BY <1>3 DEF JoinedPart, PushesJoined, PastWait, NoPanic
<1> QED  BY <1>1, <1>2, <1>3, <1>4, <1>5

-----------------------------------------------------------------------------
(* The dispatcher.                                                         *)
LEMMA DispatchReceiveKeeps == ASSUME IInv, DispatchReceive PROVE IInv'
<1> USE QueueAssumption DEF IInv, DispatchReceive, callerVars, dispVars, workerVars
<1>1. CASE jobQueue = <<>>
  <2>1. TypeOK' /\ JobPlaces' /\ JobsDistinct' /\ ClosingOrder' /\ RanOnce'
    BY <1>1 DEF TypeOK, JobPlaces, JobsDistinct, Busy, ClosingOrder, RanOnce
  <2>2. WgExact' /\ InFlightJobs' = InFlightJobs
    BY <1>1, SameStages
  <2> QED  BY <1>1, <2>1, <2>2 DEF JoinedPart, PushesJoined, PastWait, NoPanic
<1>2. CASE jobQueue # <<>>
  <2> DEFINE j == Head(jobQueue)
  <2>1. /\ jobQueue' = Tail(jobQueue)
        /\ dpc' = "pick" /\ djob' = j
        /\ stage' = [stage EXCEPT ![j] = "dispatched"]
        /\ UNCHANGED <<callerVars, wg, workerPool, dworker, workerVars, panicked>>
    BY <1>2
  <2>2. /\ j \in Jobs
        /\ jobQueue' \in Seq(Jobs)
        /\ Len(jobQueue') = Len(jobQueue) - 1
        /\ \A i \in 1..Len(jobQueue') : jobQueue'[i] = jobQueue[i + 1]
    BY <1>2, <2>1, HeadTailProperties DEF TypeOK
  <2>3. /\ Len(jobQueue) \in Nat \ {0}
        /\ j = jobQueue[1]
        /\ \A i \in 1..Len(jobQueue) : jobQueue[i] \in Jobs
    BY <1>2, EmptySeq, ElementOfSeq DEF TypeOK
  <2>4. stage[j] = "queued" /\ \A i \in 1..Len(jobQueue') : jobQueue'[i] # j
    BY <2>2, <2>3 DEF JobPlaces, JobsDistinct
  <2> HIDE DEF j
  <2>5. TypeOK'
    BY <2>1, <2>2 DEF TypeOK, Stages
  <2>6. WgExact' /\ InFlightJobs' = InFlightJobs
    BY <2>1, <2>2, <2>4, MoveKeepsCount DEF TypeOK, InFlight
  <2>7. JobPlaces'
    BY <2>1, <2>2, <2>3, <2>4 DEF TypeOK, JobPlaces, Busy, HeldStage
  <2>8. JobsDistinct'
    BY <2>1, <2>2, <2>3 DEF TypeOK, JobsDistinct, Busy
  <2>9. ClosingOrder' /\ RanOnce'
    BY <2>1, <2>2, <2>4 DEF TypeOK, ClosingOrder, RanOnce
  <2>10. JoinedPart'
    BY <2>1, <2>2, <2>6 DEF TypeOK, JoinedPart, PushesJoined, PastWait, NoPanic
  <2> QED  BY <2>5, <2>6, <2>7, <2>8, <2>9, <2>10
<1> QED  BY <1>1, <1>2

(* A channel is taken from the pool, or nil from the closed pool.          *)
LEMMA DispatchPickKeeps == ASSUME IInv, DispatchPick PROVE IInv'
<1> USE QueueAssumption DEF IInv, DispatchPick, callerVars, dispVars, workerVars
<1>1. workerPool' \in Seq(Workers) /\ dworker' \in Workers \cup {NilChan}
  <2>1. workerPool \in Seq(Workers)
    BY DEF TypeOK
  <2>2. workerPool # <<>> => Head(workerPool) \in Workers
                               /\ Tail(workerPool) \in Seq(Workers)
    BY <2>1, HeadTailProperties
  <2> QED  BY <2>1, <2>2
<1>2. TypeOK'
  BY <1>1 DEF TypeOK
<1>3. JobPlaces' /\ JobsDistinct' /\ ClosingOrder' /\ RanOnce'
  BY <1>1 DEF TypeOK, JobPlaces, JobsDistinct, Busy, ClosingOrder, RanOnce
<1>4. WgExact' /\ InFlightJobs' = InFlightJobs
  BY SameStages
<1> QED  BY <1>2, <1>3, <1>4 DEF JoinedPart, PushesJoined, PastWait, NoPanic

(* While a job is in flight, joined pushers mean that nothing is closed    *)
(* and no worker has been told to stop.                                    *)
LEMMA NothingClosedInFlight ==
  ASSUME IInv, JoinPushers, NEW j \in Jobs, stage[j] \in InFlight
  PROVE  /\ ~workerPoolClosed
         /\ \A w \in Workers : wpc[w] \notin {"quitting", "stopped"}
<1>1. ~PastWait
  BY DEF IInv, JoinedPart, InFlightJobs
<1> QED  BY <1>1, QueueAssumption DEF IInv, TypeOK, ClosingOrder, PastWait

(* The job is handed over, or the worker has closed its channel.           *)
LEMMA DispatchHandKeeps == ASSUME IInv, DispatchHand PROVE IInv'
<1> USE QueueAssumption DEF IInv, callerVars, dispVars, workerVars
<1> DEFINE w == dworker
           j == djob
<1>1. w \in Workers /\ j \in Jobs /\ stage[j] = "dispatched" /\ dpc = "hand"
  BY DEF DispatchHand, TypeOK, JobPlaces
<1>2. CASE wpc[w] = "stopped"
  <2>1. panicked' = TRUE /\ UNCHANGED <<callerVars, wg, jobQueue, workerPool,
                                        workerVars, stage, dispVars>>
    BY <1>2 DEF DispatchHand
  <2>2. TypeOK' /\ JobPlaces' /\ JobsDistinct' /\ ClosingOrder' /\ RanOnce'
    BY <2>1 DEF TypeOK, JobPlaces, JobsDistinct, Busy, ClosingOrder, RanOnce
  <2>3. WgExact'
    BY <2>1, SameStages
  <2>4. ~JoinPushers
    BY <1>1, <1>2, NothingClosedInFlight DEF InFlight
  <2> QED  BY <2>2, <2>3, <2>4 DEF JoinedPart
<1>3. CASE wpc[w] = "select"
  <2>1. /\ wpc' = [wpc EXCEPT ![w] = "running"]
        /\ wjob' = [wjob EXCEPT ![w] = j]
        /\ stage' = [stage EXCEPT ![j] = "running"]
        /\ dpc' = "range" /\ djob' = NoJob /\ dworker' = NilChan
        /\ UNCHANGED <<callerVars, wg, jobQueue, workerPool, ran, panicked>>
    BY <1>3 DEF DispatchHand
  <2>2. \A i \in 1..Len(jobQueue) : jobQueue[i] \in Jobs
    BY ElementOfSeq DEF TypeOK
  <2> HIDE DEF w, j
  <2>3. TypeOK'
    BY <1>1, <2>1 DEF TypeOK, Stages
  <2>4. WgExact' /\ InFlightJobs' = InFlightJobs
    BY <1>1, <2>1, MoveKeepsCount DEF TypeOK, InFlight
  <2>5. \A v \in Workers : Busy(v) => v # w /\ wjob[v] # j
    BY <1>1, <1>3 DEF JobPlaces, Busy, HeldStage
  <2>6. JobPlaces'
    BY <1>1, <2>1, <2>2, <2>5 DEF TypeOK, JobPlaces, Busy, HeldStage
  <2>7. JobsDistinct'
    BY <1>1, <2>1, <2>5 DEF TypeOK, JobsDistinct, Busy
  <2>8. ClosingOrder' /\ RanOnce'
    BY <1>1, <2>1 DEF TypeOK, ClosingOrder, RanOnce
  <2>9. JoinedPart'
    BY <1>1, <2>1, <2>4 DEF TypeOK, JoinedPart, PushesJoined, PastWait, NoPanic
  <2> QED  BY <2>3, <2>4, <2>6, <2>7, <2>8, <2>9
<1> QED  BY <1>2, <1>3 DEF DispatchHand

-----------------------------------------------------------------------------
(* The workers: w moves its job j from stage s to stage t, j staying where *)
(* it is or, at the end, being let go.                                     *)
LEMMA HeldJob ==
  ASSUME IInv, NEW w \in Workers, Busy(w)
  PROVE  /\ wjob[w] \in Jobs
         /\ stage[wjob[w]] = HeldStage[wpc[w]]
         /\ \A i \in 1..Len(jobQueue) : jobQueue[i] \in Jobs /\ jobQueue[i] # wjob[w]
         /\ dpc \in {"pick", "hand"} => djob # wjob[w]
         /\ \A v \in Workers : v # w /\ Busy(v) => wjob[v] # wjob[w]
<1>1. wjob[w] \in Jobs /\ stage[wjob[w]] = HeldStage[wpc[w]]
  BY DEF IInv, JobPlaces
<1>2. stage[wjob[w]] \in {"running", "ran", "repooled"}
  BY <1>1 DEF Busy, HeldStage
<1>3. \A i \in 1..Len(jobQueue) : jobQueue[i] \in Jobs
  BY ElementOfSeq DEF IInv, TypeOK
<1> QED  BY <1>1, <1>2, <1>3 DEF IInv, JobPlaces, JobsDistinct

(* Job() is run.                                                           *)
LEMMA WorkerRunJobKeeps ==
  ASSUME IInv, NEW w \in Workers, WorkerRunJob(w)
  PROVE  IInv'
<1> USE QueueAssumption DEF IInv, WorkerRunJob, callerVars, dispVars
<1> DEFINE j == wjob[w]
<1>1. /\ j \in Jobs /\ stage[j] = "running"
      /\ \A i \in 1..Len(jobQueue) : jobQueue[i] \in Jobs /\ jobQueue[i] # j
      /\ dpc \in {"pick", "hand"} => djob # j
      /\ \A v \in Workers : v # w /\ Busy(v) => wjob[v] # j
  BY HeldJob DEF Busy, HeldStage
<1>2. stage' = [stage EXCEPT ![j] = "ran"] /\ ran' = [ran EXCEPT ![j] = @ + 1]
  OBVIOUS
<1>3. TypeOK'
  BY <1>1, <1>2 DEF TypeOK, Stages
<1>a. DOMAIN stage = Jobs /\ WgExact
  BY DEF TypeOK
<1>b. "running" \in InFlight /\ "ran" \in InFlight /\ wg' = wg
  BY DEF InFlight
<1>4. WgExact' /\ InFlightJobs' = InFlightJobs
  <2> HIDE DEF j, WorkerRunJob, IInv
  <2> QED  BY <1>a, <1>b, <1>1, <1>2, MoveKeepsCount
<1>5. JobPlaces'
  BY <1>1, <1>2 DEF TypeOK, JobPlaces, Busy, HeldStage
<1>6. JobsDistinct'
  BY <1>1 DEF TypeOK, JobsDistinct, Busy
<1>7. ClosingOrder'
  BY DEF TypeOK, ClosingOrder
<1>8. RanOnce'
  BY <1>1, <1>2 DEF TypeOK, RanOnce
<1>9. JoinedPart'
  BY <1>1, <1>2, <1>4 DEF TypeOK, JoinedPart, PushesJoined, PastWait, NoPanic
<1> QED  BY <1>3, <1>4, <1>5, <1>6, <1>7, <1>8, <1>9

(* The channel is lent again, or the pool has been closed.                 *)
LEMMA WorkerRepoolKeeps ==
  ASSUME IInv, NEW w \in Workers, WorkerRepool(w)
  PROVE  IInv'
<1> USE QueueAssumption DEF IInv, callerVars, dispVars
<1> DEFINE j == wjob[w]
<1>1. /\ j \in Jobs /\ stage[j] = "ran"
      /\ \A i \in 1..Len(jobQueue) : jobQueue[i] \in Jobs /\ jobQueue[i] # j
      /\ dpc \in {"pick", "hand"} => djob # j
      /\ \A v \in Workers : v # w /\ Busy(v) => wjob[v] # j
  BY HeldJob DEF Busy, HeldStage, WorkerRepool
<1>2. CASE workerPoolClosed
  <2>1. panicked' = TRUE /\ UNCHANGED <<callerVars, wg, jobQueue, dispVars,
                              wjob, ran, workerPool, wpc, stage>>
    BY <1>2 DEF WorkerRepool, workerVars
  <2>2. TypeOK' /\ JobPlaces' /\ JobsDistinct' /\ ClosingOrder' /\ RanOnce'
    BY <2>1 DEF TypeOK, JobPlaces, JobsDistinct, Busy, ClosingOrder, RanOnce
  <2>3. WgExact'
    BY <2>1, SameStages
  <2>4. ~JoinPushers
    BY <1>1, <1>2, NothingClosedInFlight DEF InFlight
  <2> QED  BY <2>2, <2>3, <2>4 DEF JoinedPart
<1>3. CASE ~workerPoolClosed
  <2>1. /\ workerPool' = Append(workerPool, w)
        /\ wpc[w] = "repool" /\ wpc' = [wpc EXCEPT ![w] = "release"]
        /\ stage' = [stage EXCEPT ![j] = "repooled"]
        /\ UNCHANGED <<callerVars, wg, jobQueue, dispVars, wjob, ran, panicked>>
    BY <1>3 DEF WorkerRepool
  <2>2. workerPool' \in Seq(Workers)
    BY <2>1, AppendProperties DEF TypeOK
  <2>3. TypeOK'
    BY <1>1, <2>1, <2>2 DEF TypeOK, Stages
  <2>4. WgExact' /\ InFlightJobs' = InFlightJobs
    BY <1>1, <2>1, MoveKeepsCount DEF TypeOK, InFlight
  <2>5. JobPlaces'
    BY <1>1, <2>1 DEF TypeOK, JobPlaces, Busy, HeldStage
  <2>6. JobsDistinct'
    BY <1>1, <2>1 DEF TypeOK, JobsDistinct, Busy
  <2>7. ClosingOrder'
    BY <2>1 DEF TypeOK, ClosingOrder
  <2>8. RanOnce'
    BY <1>1, <2>1 DEF TypeOK, RanOnce
  <2>9. JoinedPart'
    BY <1>1, <2>1, <2>4 DEF TypeOK, JoinedPart, PushesJoined, PastWait, NoPanic
  <2> QED  BY <2>3, <2>4, <2>5, <2>6, <2>7, <2>8, <2>9
<1> QED  BY <1>2, <1>3

(* wg.Done.                                                                *)
LEMMA WorkerDoneKeeps ==
  ASSUME IInv, NEW w \in Workers, WorkerDone(w)
  PROVE  IInv'
<1> USE QueueAssumption DEF IInv, WorkerDone, callerVars, dispVars
<1> DEFINE j == wjob[w]
<1>1. /\ j \in Jobs /\ stage[j] = "repooled"
      /\ \A i \in 1..Len(jobQueue) : jobQueue[i] \in Jobs /\ jobQueue[i] # j
      /\ dpc \in {"pick", "hand"} => djob # j
      /\ \A v \in Workers : v # w /\ Busy(v) => wjob[v] # j
  BY HeldJob DEF Busy, HeldStage
<1>2. stage' = [stage EXCEPT ![j] = "done"]
  OBVIOUS
<1>a. DOMAIN stage = Jobs /\ WgExact
  BY DEF TypeOK
<1>b. "repooled" \in InFlight /\ "done" \notin InFlight /\ wg' = wg - 1
  BY DEF InFlight
<1>3. WgExact' /\ wg' \in Nat
  <2> HIDE DEF j, WorkerDone, IInv
  <2> QED  BY <1>a, <1>b, <1>1, <1>2, LeaveKeepsCount
<1>4. TypeOK'
  BY <1>1, <1>2, <1>3 DEF TypeOK, Stages
<1>5. JobPlaces'
  BY <1>1, <1>2 DEF TypeOK, JobPlaces, Busy, HeldStage
<1>6. JobsDistinct'
  BY <1>1 DEF TypeOK, JobsDistinct, Busy
<1>7. ClosingOrder'
  BY DEF TypeOK, ClosingOrder
<1>8. RanOnce'
  BY <1>1, <1>2 DEF TypeOK, RanOnce
<1>9. JoinedPart'
  <2>1. j \in InFlightJobs
    BY <1>1 DEF InFlightJobs, InFlight
  <2> QED  BY <1>1, <1>2, <2>1 DEF TypeOK, JoinedPart, PushesJoined, PastWait, NoPanic
<1> QED  BY <1>3, <1>4, <1>5, <1>6, <1>7, <1>8, <1>9

(* The quit case.                                                          *)
LEMMA WorkerLeavesKeeps ==
  ASSUME IInv, NEW w \in Workers, WorkerQuit(w) \/ WorkerStopped(w)
  PROVE  IInv'
<1> USE QueueAssumption DEF IInv, WorkerQuit, WorkerStopped, callerVars, dispVars
<1>1. /\ \E pc \in {"quitting", "stopped"} : wpc' = [wpc EXCEPT ![w] = pc]
      /\ wpc[w] \in {"select", "quitting"}
      /\ UNCHANGED <<callerVars, wg, jobQueue, dispVars, wjob, stage, ran, panicked>>
  OBVIOUS
<1>2. workerPool' \in Seq(Workers)
  <2>1. workerPool \in Seq(Workers)
    BY DEF TypeOK
  <2>2. workerPool # <<>> => Tail(workerPool) \in Seq(Workers)
    BY <2>1, HeadTailProperties
  <2> QED  BY <2>1, <2>2
<1>3. TypeOK'
  BY <1>1, <1>2 DEF TypeOK
<1>4. WgExact' /\ InFlightJobs' = InFlightJobs
  BY <1>1, SameStages
<1>5. JobPlaces' /\ JobsDistinct'
  <2>1. \A v \in Workers : Busy(v)' => Busy(v) /\ wpc'[v] = wpc[v]
    BY <1>1 DEF TypeOK, Busy
  <2> QED  BY <1>1, <2>1 DEF JobPlaces, JobsDistinct
<1>6. ClosingOrder'
  <2>1. w <= quit
    BY DEF ClosingOrder
  <2>2. \A v \in Workers : wpc'[v] \in {"quitting", "stopped"} => v <= quit
    BY <1>1, <2>1 DEF TypeOK, ClosingOrder
  <2> QED  BY <1>1, <2>2 DEF ClosingOrder
<1>7. RanOnce' /\ JoinedPart'
  BY <1>1, <1>4 DEF RanOnce, JoinedPart, PushesJoined, PastWait, NoPanic
<1> QED  BY <1>3, <1>4, <1>5, <1>6, <1>7

(* Nothing happens.                                                        *)
LEMMA StutterKeeps == ASSUME IInv, UNCHANGED vars PROVE IInv'
BY DEF vars, IInv, TypeOK, WgExact, InFlightJobs, JobPlaces, JobsDistinct, Busy,
       ClosingOrder, JoinedPart, PushesJoined, PastWait, NoPanic, RanOnce

(* Every step keeps the invariant.                                         *)
LEMMA NextKeepsIInv == IInv /\ [Next]_vars => IInv'
<1> SUFFICES ASSUME IInv, [Next]_vars PROVE IInv'
  OBVIOUS
<1>1. CASE Run  BY <1>1, RunKeeps
<1>2. CASE Terminate  BY <1>2, TerminateKeeps
<1>3. CASE TerminateSteps
  BY <1>3, TerminateWaitKeeps, ClosingKeeps DEF TerminateSteps
<1>4. CASE Dispatcher
  BY <1>4, DispatchReceiveKeeps, DispatchPickKeeps, DispatchHandKeeps DEF Dispatcher
<1>5. CASE \E j \in Jobs : Push(j)
  BY <1>5, PushCheckKeeps, PushAddKeeps, PushSendKeeps DEF Push
<1>6. CASE \E w \in Workers : Worker(w)
  BY <1>6, WorkerRunJobKeeps, WorkerRepoolKeeps, WorkerDoneKeeps,
     WorkerLeavesKeeps DEF Worker
<1>7. CASE Finished \/ UNCHANGED vars
  BY <1>7, StutterKeeps DEF Finished
<1> QED  BY <1>1, <1>2, <1>3, <1>4, <1>5, <1>6, <1>7 DEF Next

-----------------------------------------------------------------------------
(* IInv is an invariant of the queue, whoever pushes and whenever.         *)
THEOREM QueueInvariant == Spec => []IInv
BY InitIInv, NextKeepsIInv, PTL DEF Spec

(* The queue's variables keep their types; above all, wg never goes below  *)
(* zero, where WaitGroup.Done would panic.                                 *)
THEOREM QueueTypes == Spec => []TypeOK
<1>1. IInv => TypeOK
  BY DEF IInv
<1> QED  BY <1>1, QueueInvariant, PTL

(* If the pushes have returned before Terminate is called, no goroutine    *)
(* ever sends on a closed channel.                                         *)
THEOREM JoinedQueueNeverPanics ==
  ASSUME JoinPushers
  PROVE  Spec => []NoPanic
<1>1. IInv => NoPanic
  BY DEF IInv, JoinedPart
<1> QED  BY <1>1, QueueInvariant, PTL

(* Under the same condition, every job that Push did not turn away has run *)
(* exactly once when Terminate has passed wg.Wait.                         *)
THEOREM JoinedTerminateDrains ==
  ASSUME JoinPushers
  PROVE  Spec => []TerminateDrains
<1>1. IInv => TerminateDrains
  <2> SUFFICES ASSUME IInv, PastWait, NEW j \in Jobs
               PROVE  \/ stage[j] \in {"idle", "dropped"} /\ ran[j] = 0
                      \/ stage[j] = "done" /\ ran[j] = 1
    BY DEF TerminateDrains
  <2>1. stage[j] \notin InFlight /\ stage[j] # "checked"
    BY DEF IInv, JoinedPart, InFlightJobs, PushesJoined, PastWait
  <2>2. stage[j] \in {"idle", "dropped", "done"}
    BY <2>1 DEF IInv, TypeOK, Stages, InFlight
  <2> QED  BY <2>2 DEF IInv, RanOnce
<1> QED  BY <1>1, QueueInvariant, PTL

-----------------------------------------------------------------------------
(* The refinement of the promise of a Queuer.  A job that changes its      *)
(* stage changes its status alone, ...                                     *)
LEMMA StatusMoves ==
  ASSUME DOMAIN stage = Jobs, NEW j \in Jobs, NEW s, stage' = [stage EXCEPT ![j] = s]
  PROVE  Status' = [Status EXCEPT ![j] = StatusOf(s)]
BY DEF Status

(* ... and if that stays the same, nothing has happened.                   *)
LEMMA QuietMove ==
  ASSUME DOMAIN stage = Jobs, NEW j \in Jobs, NEW s, stage' = [stage EXCEPT ![j] = s],
         StatusOf(s) = StatusOf(stage[j]), UNCHANGED caller
  PROVE  UNCHANGED Service!vars
<1>1. Status' = Status
  BY StatusMoves DEF Status
<1> QED  BY <1>1 DEF Service!vars, PastWait

(* A step that changes neither stages nor the caller is none of the        *)
(* service.                                                                *)
LEMMA QuietStep ==
  ASSUME UNCHANGED <<stage, caller>> PROVE UNCHANGED Service!vars
BY DEF Service!vars, Status, PastWait

(* Push accepts or refuses a job, or does nothing the service would see.   *)
LEMMA PushRefines ==
  ASSUME JoinPushers, IInv, NEW j \in Jobs, Push(j)
  PROVE  [Service!Next]_(Service!vars)
<1> USE DEF IInv, callerVars
<1>1. CASE PushCheck(j)
  <2>1. CASE running = 1
    <3>1. stage' = [stage EXCEPT ![j] = "checked"] /\ stage[j] = "idle" /\ UNCHANGED caller
      BY <1>1, <2>1 DEF PushCheck
    <3> QED  BY <3>1, QuietMove DEF TypeOK, StatusOf
  <2>2. CASE running # 1
    <3>1. stage' = [stage EXCEPT ![j] = "dropped"] /\ stage[j] = "idle" /\ UNCHANGED caller
      BY <1>1, <2>2 DEF PushCheck
    <3>2. Status' = [Status EXCEPT ![j] = "refused"] /\ Status[j] = "new"
      BY <3>1, StatusMoves DEF TypeOK, Status, StatusOf
    <3>3. Service!Refuse(j)
      BY <3>1, <3>2 DEF Service!Refuse, Service!Moves, PastWait
    <3> QED  BY <3>3 DEF Service!Next
  <2> QED  BY <2>1, <2>2
<1>2. CASE PushAdd(j)
  <2>0. NoPanic'
    BY <1>2, PushAddKeeps DEF JoinedPart
  <2>1. stage' = [stage EXCEPT ![j] = "added"] /\ stage[j] = "checked" /\ UNCHANGED caller
    BY <1>2, <2>0 DEF PushAdd, NoPanic
  <2>2. Status' = [Status EXCEPT ![j] = "accepted"] /\ Status[j] = "new"
    BY <2>1, StatusMoves DEF TypeOK, Status, StatusOf
  <2>3. ~PastWait
    BY <2>1 DEF JoinedPart, PushesJoined, PastWait
  <2>4. Service!Accept(j)
    BY <2>1, <2>2, <2>3 DEF Service!Accept, Service!Moves, PastWait
  <2> QED  BY <2>4 DEF Service!Next
<1>3. CASE PushSend(j)
  <2>1. \/ stage' = [stage EXCEPT ![j] = "queued"] /\ stage[j] = "added" /\ UNCHANGED caller
        \/ UNCHANGED <<stage, caller>>
    BY <1>3 DEF PushSend
  <2> QED  BY <2>1, QuietMove, QuietStep DEF TypeOK, StatusOf
<1> QED  BY <1>1, <1>2, <1>3 DEF Push

(* The dispatcher does nothing the service would see.                      *)
LEMMA DispatcherRefines ==
  ASSUME IInv, Dispatcher PROVE UNCHANGED Service!vars
<1> USE DEF IInv, callerVars
<1>1. CASE DispatchReceive
  <2>1. \/ /\ jobQueue # <<>>
           /\ stage' = [stage EXCEPT ![Head(jobQueue)] = "dispatched"] /\ UNCHANGED caller
        \/ UNCHANGED <<stage, caller>>
    BY <1>1 DEF DispatchReceive
  <2>2. jobQueue # <<>> => Head(jobQueue) \in Jobs /\ stage[Head(jobQueue)] = "queued"
    <3> SUFFICES ASSUME jobQueue # <<>>
                 PROVE  Head(jobQueue) \in Jobs /\ stage[Head(jobQueue)] = "queued"
      OBVIOUS
    <3>1. Head(jobQueue) = jobQueue[1] /\ 1 \in 1..Len(jobQueue) /\ Head(jobQueue) \in Jobs
      BY HeadTailProperties, EmptySeq, LenProperties DEF TypeOK
    <3> QED  BY <3>1 DEF JobPlaces
  <2> QED  BY <2>1, <2>2, QuietMove, QuietStep DEF TypeOK, StatusOf
<1>2. CASE DispatchPick
  BY <1>2, QuietStep DEF DispatchPick
<1>3. CASE DispatchHand
  <2>1. \/ /\ dpc = "hand" /\ stage' = [stage EXCEPT ![djob] = "running"]
           /\ UNCHANGED caller
        \/ UNCHANGED <<stage, caller>>
    BY <1>3 DEF DispatchHand
  <2>2. dpc = "hand" => djob \in Jobs /\ stage[djob] = "dispatched"
    BY DEF JobPlaces
  <2> QED  BY <2>1, <2>2, QuietMove, QuietStep DEF TypeOK, StatusOf
<1> QED  BY <1>1, <1>2, <1>3 DEF Dispatcher

(* A worker executes a job, or does nothing the service would see.         *)
LEMMA WorkerRefines ==
  ASSUME IInv, NEW w \in Workers, Worker(w)
  PROVE  [Service!Next]_(Service!vars)
<1> USE DEF IInv, callerVars
<1>0. Busy(w) => wjob[w] \in Jobs /\ stage[wjob[w]] = HeldStage[wpc[w]]
  BY DEF JobPlaces
<1>1. CASE WorkerRunJob(w)
  <2>1. /\ wjob[w] \in Jobs /\ stage[wjob[w]] = "running"
        /\ stage' = [stage EXCEPT ![wjob[w]] = "ran"] /\ UNCHANGED caller
    BY <1>0, <1>1 DEF WorkerRunJob, Busy, HeldStage
  <2>2. Status' = [Status EXCEPT ![wjob[w]] = "run"] /\ Status[wjob[w]] = "accepted"
    <3>1. StatusOf("ran") = "run" /\ StatusOf("running") = "accepted"
      BY DEF StatusOf
    <3>2. Status' = [Status EXCEPT ![wjob[w]] = StatusOf("ran")]
      BY <2>1, StatusMoves DEF TypeOK
    <3>3. Status[wjob[w]] = StatusOf("running")
      BY <2>1 DEF Status
    <3> QED  BY <3>1, <3>2, <3>3
  <2>3. Service!Execute(wjob[w])
    BY <2>1, <2>2 DEF Service!Execute, Service!Moves, PastWait
  <2> QED  BY <2>1, <2>3 DEF Service!Next
<1>2. CASE WorkerRepool(w)
  <2>1. \/ /\ wjob[w] \in Jobs /\ stage[wjob[w]] = "ran"
           /\ stage' = [stage EXCEPT ![wjob[w]] = "repooled"] /\ UNCHANGED caller
        \/ UNCHANGED <<stage, caller>>
    BY <1>0, <1>2 DEF WorkerRepool, Busy, HeldStage
  <2> QED  BY <2>1, QuietMove, QuietStep DEF TypeOK, StatusOf
<1>3. CASE WorkerDone(w)
  <2>1. /\ wjob[w] \in Jobs /\ stage[wjob[w]] = "repooled"
        /\ stage' = [stage EXCEPT ![wjob[w]] = "done"] /\ UNCHANGED caller
    BY <1>0, <1>3 DEF WorkerDone, Busy, HeldStage
  <2> QED  BY <2>1, QuietMove DEF TypeOK, StatusOf
<1>4. CASE WorkerQuit(w) \/ WorkerStopped(w)
  BY <1>4, QuietStep DEF WorkerQuit, WorkerStopped
<1> QED  BY <1>1, <1>2, <1>3, <1>4 DEF Worker

(* wg.Wait closes the service.                                             *)
LEMMA CallerRefines ==
  ASSUME IInv, Run \/ Terminate \/ TerminateSteps
  PROVE  [Service!Next]_(Service!vars)
<1> USE DEF IInv
<1>0. CASE TerminateWait /\ ~PastWait'
  <2>1. UNCHANGED stage /\ (PastWait <=> PastWait')
    BY <1>0 DEF TerminateWait, WaitEnter, WaitWake, WaitReturn, WaitStep, PastWait, callerVars
  <2> QED  BY <2>1 DEF Service!vars, Status
<1>1. CASE TerminateWait /\ PastWait'
  <2>1. UNCHANGED stage /\ ~PastWait /\ PastWait'
    BY <1>1 DEF TerminateWait, WaitEnter, WaitWake, WaitReturn, WaitStep, PastWait, callerVars
  <2>2. \A j \in Jobs : stage[j] \notin InFlight
    BY <1>1, ZeroMeansNone DEF TerminateWait, WaitEnter, WaitWake, WaitReturn, WaitStep,
         PastWait, callerVars, InFlightJobs
  <2>3. \A j \in Jobs : Status[j] # "accepted"
    BY <2>2 DEF Status, StatusOf, InFlight
  <2>4. Service!Close
    BY <2>1, <2>3 DEF Service!Close, Status
  <2> QED  BY <2>4 DEF Service!Next
<1>2. CASE Run \/ Terminate \/ TerminateCloseJobs \/ TerminateStopWorker \/ TerminateClosePool
  <2>1. UNCHANGED stage /\ (PastWait <=> PastWait')
    BY <1>2 DEF Run, Terminate, TerminateCloseJobs, TerminateStopWorker, TerminateClosePool,
                PastWait
  <2> QED  BY <2>1 DEF Service!vars, Status, PastWait
<1> QED  BY <1>0, <1>1, <1>2 DEF TerminateSteps

(* If the pushes have returned before Terminate is called, the channel     *)
(* queue keeps the promise of a Queuer: what it accepts it runs, once, and *)
(* before Terminate has passed its wait.                                   *)
THEOREM ChanQueueImplementsService ==
  ASSUME JoinPushers
  PROVE  Spec => RefinesService
<1>1. Init => Service!Init
  BY DEF Init, Service!Init, Status, StatusOf, PastWait
<1>2. IInv /\ [Next]_vars => [Service!Next]_(Service!vars)
  <2> SUFFICES ASSUME IInv, [Next]_vars PROVE [Service!Next]_(Service!vars)
    OBVIOUS
  <2>1. CASE Finished \/ UNCHANGED vars
    BY <2>1, QuietStep DEF Finished, vars
  <2> QED  BY <2>1, CallerRefines, DispatcherRefines, PushRefines, WorkerRefines DEF Next
<1> QED  BY <1>1, <1>2, QueueInvariant, PTL DEF Spec, RefinesService, Service!Spec

(* Only the wait moves Terminate past it, and only with a counter of zero. *)
LEMMA PassesAtZero ==
  ASSUME IInv, [Next]_vars, ~PastWait, PastWait'
  PROVE  TerminateWait /\ wg = 0 /\ InFlightJobs = {}
<1> USE DEF PastWait, callerVars
<1>1. CASE Run \/ Terminate \/ Finished \/ UNCHANGED vars
  BY <1>1 DEF Run, Terminate, Finished, vars
<1>2. CASE TerminateSteps
  <2>1. TerminateWait /\ wg = 0
    BY <1>2 DEF TerminateSteps, TerminateWait, WaitEnter, WaitWake, WaitReturn, WaitStep,
         TerminateCloseJobs, TerminateStopWorker, TerminateClosePool
  <2> QED  BY <2>1, ZeroMeansNone DEF IInv
<1>3. CASE Dispatcher
  BY <1>3 DEF Dispatcher, DispatchReceive, DispatchPick, DispatchHand
<1>4. CASE \E j \in Jobs : Push(j)
  BY <1>4 DEF Push, PushCheck, PushAdd, PushSend
<1>5. CASE \E w \in Workers : Worker(w)
  BY <1>5 DEF Worker, WorkerRunJob, WorkerRepool, WorkerDone, WorkerQuit, WorkerStopped
<1> QED  BY <1>1, <1>2, <1>3, <1>4, <1>5 DEF Next

(* wg.Wait returns only when no job is between wg.Add and wg.Done, even    *)
(* with pushes racing Terminate: one that is counted while the waiter is   *)
(* being released makes the process panic instead.                         *)
THEOREM WaitIsExact == Spec => WaitCoversCounted
<1>1. IInv /\ [Next]_vars =>
        [~PastWait /\ PastWait' => \A j \in Jobs : stage[j] \notin InFlight]_vars
  BY PassesAtZero DEF InFlightJobs
<1> QED  BY <1>1, QueueInvariant, PTL DEF Spec, WaitCoversCounted

-----------------------------------------------------------------------------
(* The life of a worker's channel.  It is in one of three places ...       *)
InPool(w) == \E i \in 1..Len(workerPool) : workerPool[i] = w
WithDispatcher(w) == dpc = "hand" /\ dworker = w
WithWorker(w) == wpc[w] \in {"running", "repool"}

(* ... in exactly one of them, and at one position of the pool at most, as *)
(* long as Terminate has not begun to stop the workers.                    *)
OnePlace(w) ==
  /\ InPool(w) => ~WithDispatcher(w) /\ ~WithWorker(w)
  /\ WithDispatcher(w) => ~WithWorker(w)
  /\ InPool(w) \/ WithDispatcher(w) \/ WithWorker(w)

LentInv ==
  Lending =>
    /\ \A i, k \in 1..Len(workerPool) : workerPool[i] = workerPool[k] => i = k
    /\ \A w \in Workers : OnePlace(w)

(* What LentInv looks at.                                                  *)
LEMMA LendingUnmoved ==
  ASSUME LentInv, UNCHANGED <<workerPool, dworker>>,
         Lending' => Lending,
         dpc' = "hand" <=> dpc = "hand",
         \A w \in Workers : WithWorker(w)' <=> WithWorker(w)
  PROVE  LentInv'
<1>1. \A w \in Workers : OnePlace(w) => OnePlace(w)'
  BY DEF OnePlace, InPool, WithDispatcher
<1> QED  BY <1>1 DEF LentInv

(* Run puts every channel into the pool, once.                             *)
LEMMA RunLends == ASSUME IInv, Run PROVE LentInv'
<1> USE QueueAssumption DEF IInv, Run
<1>1. /\ \A w \in Workers : workerPool'[w] = w /\ w \in 1..Len(workerPool')
      /\ 1..Len(workerPool') = Workers
  BY SeqDef
<1>2. dpc' = "range" /\ \A w \in Workers : wpc'[w] = "select"
  OBVIOUS
<1>3. \A w \in Workers : InPool(w)' /\ ~WithDispatcher(w)' /\ ~WithWorker(w)'
  BY <1>1, <1>2 DEF InPool, WithDispatcher, WithWorker
<1> QED  BY <1>1, <1>3 DEF LentInv, OnePlace

(* The front of the pool goes to the dispatcher.                           *)
LEMMA PickLends == ASSUME IInv, LentInv, DispatchPick PROVE LentInv'
<1> USE QueueAssumption DEF IInv, DispatchPick, callerVars, workerVars
<1> SUFFICES ASSUME Lending'
             PROVE  /\ \A i, k \in 1..Len(workerPool') :
                          workerPool'[i] = workerPool'[k] => i = k
                    /\ \A w \in Workers : OnePlace(w)'
  BY DEF LentInv
<1>1. caller' = caller /\ ~workerPoolClosed
  BY DEF ClosingOrder, Lending
<1>2. /\ workerPool # <<>> /\ workerPool' = Tail(workerPool)
      /\ dworker' = Head(workerPool) /\ dpc = "pick" /\ dpc' = "hand"
      /\ UNCHANGED wpc
  BY <1>1
<1>3. /\ Len(workerPool) \in Nat \ {0}
      /\ Head(workerPool) = workerPool[1]
      /\ Len(workerPool') = Len(workerPool) - 1
      /\ \A i \in 1..Len(workerPool') : workerPool'[i] = workerPool[i + 1]
  BY <1>2, HeadTailProperties, EmptySeq, LenProperties DEF TypeOK
<1>4. /\ \A i, k \in 1..Len(workerPool) : workerPool[i] = workerPool[k] => i = k
      /\ \A w \in Workers : OnePlace(w)
  BY <1>1 DEF LentInv, Lending
<1>5. \A i, k \in 1..Len(workerPool') : workerPool'[i] = workerPool'[k] => i = k
  <2> SUFFICES ASSUME NEW i \in 1..Len(workerPool'), NEW k \in 1..Len(workerPool'),
                      workerPool'[i] = workerPool'[k]
               PROVE  i = k
    OBVIOUS
  <2>1. i + 1 \in 1..Len(workerPool) /\ k + 1 \in 1..Len(workerPool)
    BY <1>3
  <2>2. workerPool[i + 1] = workerPool[k + 1]
    BY <1>3
  <2>3. i + 1 = k + 1
    BY <1>4, <2>1, <2>2
  <2> QED  BY <2>3
<1>6. \A w \in Workers : OnePlace(w)'
  <2> SUFFICES ASSUME NEW w \in Workers PROVE OnePlace(w)'
    OBVIOUS
  <2>1. WithWorker(w)' <=> WithWorker(w)
    BY <1>2 DEF WithWorker
  <2>2. ~WithDispatcher(w) /\ (WithDispatcher(w)' <=> w = workerPool[1])
    BY <1>2, <1>3 DEF WithDispatcher
  <2>3. InPool(w)' <=> InPool(w) /\ w # workerPool[1]
    <3>1. ASSUME InPool(w)' PROVE InPool(w) /\ w # workerPool[1]
      <4>1. PICK i \in 1..Len(workerPool') : workerPool'[i] = w
        BY <3>1 DEF InPool
      <4>2. /\ i + 1 \in 1..Len(workerPool) /\ i + 1 # 1 /\ 1 \in 1..Len(workerPool)
            /\ workerPool[i + 1] = w
        BY <1>3, <4>1
      <4> QED  BY <1>4, <4>2 DEF InPool
    <3>2. ASSUME InPool(w), w # workerPool[1] PROVE InPool(w)'
      <4>1. PICK i \in 1..Len(workerPool) : workerPool[i] = w
        BY <3>2 DEF InPool
      <4>2. i - 1 \in 1..Len(workerPool') /\ (i - 1) + 1 = i
        BY <1>3, <3>2, <4>1
      <4>3. workerPool'[i - 1] = w
        BY <1>3, <4>1, <4>2
      <4> QED  BY <4>2, <4>3 DEF InPool
    <3> QED  BY <3>1, <3>2
  <2>4. InPool(workerPool[1])
    BY <1>3 DEF InPool
  <2> QED  BY <1>4, <2>1, <2>2, <2>3, <2>4 DEF OnePlace
<1> QED  BY <1>5, <1>6

(* The channel goes from the dispatcher to its worker.                     *)
LEMMA HandLends == ASSUME IInv, LentInv, DispatchHand PROVE LentInv'
<1> USE QueueAssumption DEF IInv, DispatchHand, callerVars, dispVars, workerVars
<1> DEFINE v == dworker
<1>1. v \in Workers /\ dpc = "hand"
  BY DEF TypeOK
<1>2. CASE wpc[v] = "stopped"
  <2>1. UNCHANGED <<workerPool, dworker, caller, dpc, wpc>>
    BY <1>2
  <2> QED  BY <2>1, LendingUnmoved DEF WithWorker, Lending
<1>3. CASE wpc[v] = "select"
  <2>1. /\ wpc' = [wpc EXCEPT ![v] = "running"] /\ dpc' = "range"
        /\ UNCHANGED <<workerPool, caller>>
    BY <1>3
  <2>2. \A w \in Workers : OnePlace(w) => OnePlace(w)'
    <3> SUFFICES ASSUME NEW w \in Workers, OnePlace(w) PROVE OnePlace(w)'
      OBVIOUS
    <3>1. InPool(w)' <=> InPool(w)
      BY <2>1 DEF InPool
    <3>2. ~WithDispatcher(w)' /\ (WithDispatcher(w) <=> w = v)
      BY <1>1, <2>1 DEF WithDispatcher
    <3>3. WithWorker(w)' <=> WithWorker(w) \/ w = v
      BY <1>1, <2>1 DEF WithWorker, TypeOK
    <3> QED  BY <3>1, <3>2, <3>3 DEF OnePlace
  <2> QED  BY <2>1, <2>2 DEF LentInv, Lending
<1> QED  BY <1>2, <1>3

(* The channel goes from its worker back into the pool.                    *)
LEMMA RepoolLends == ASSUME IInv, LentInv, NEW v \in Workers, WorkerRepool(v) PROVE LentInv'
<1> USE QueueAssumption DEF IInv, callerVars, dispVars, workerVars
<1>1. CASE workerPoolClosed
  <2>1. UNCHANGED <<workerPool, dworker, caller, dpc, wpc>>
    BY <1>1 DEF WorkerRepool
  <2> QED  BY <2>1, LendingUnmoved DEF WithWorker, Lending
<1>2. CASE ~workerPoolClosed
  <2>1. /\ wpc[v] = "repool" /\ wpc' = [wpc EXCEPT ![v] = "release"]
        /\ workerPool' = Append(workerPool, v)
        /\ UNCHANGED <<caller, dpc, dworker>>
    BY <1>2 DEF WorkerRepool
  <2>2. /\ Len(workerPool) \in Nat
        /\ Len(workerPool') = Len(workerPool) + 1
        /\ \A i \in 1..Len(workerPool) : workerPool'[i] = workerPool[i]
        /\ workerPool'[Len(workerPool) + 1] = v
    BY <2>1, AppendProperties, LenProperties DEF TypeOK
  <2> SUFFICES ASSUME Lending
               PROVE  /\ \A i, k \in 1..Len(workerPool') :
                            workerPool'[i] = workerPool'[k] => i = k
                      /\ \A w \in Workers : OnePlace(w)'
    BY <2>1 DEF LentInv, Lending
  <2>3. /\ \A i, k \in 1..Len(workerPool) : workerPool[i] = workerPool[k] => i = k
        /\ \A w \in Workers : OnePlace(w)
    BY DEF LentInv
  <2>4. WithWorker(v) /\ ~InPool(v) /\ ~WithDispatcher(v)
    BY <2>1, <2>3 DEF OnePlace, WithWorker
  <2>5. \A i, k \in 1..Len(workerPool') : workerPool'[i] = workerPool'[k] => i = k
    BY <2>2, <2>3, <2>4 DEF InPool
  <2>6. ASSUME NEW w \in Workers PROVE OnePlace(w)'
    <3>1. WithDispatcher(w)' <=> WithDispatcher(w)
      BY <2>1 DEF WithDispatcher
    <3>2. WithWorker(w)' <=> WithWorker(w) /\ w # v
      BY <2>1 DEF WithWorker, TypeOK
    <3>3. InPool(w)' <=> InPool(w) \/ w = v
      BY <2>2 DEF InPool
    <3> QED  BY <2>3, <2>4, <3>1, <3>2, <3>3 DEF OnePlace
  <2> QED  BY <2>5, <2>6
<1> QED  BY <1>1, <1>2

(* A worker keeps its channel while it runs the job, and leaves late.      *)
LEMMA WorkerLends ==
  ASSUME IInv, LentInv, NEW v \in Workers,
         WorkerRunJob(v) \/ WorkerDone(v) \/ WorkerQuit(v) \/ WorkerStopped(v)
  PROVE  LentInv'
<1> USE QueueAssumption DEF IInv, callerVars, dispVars
<1>1. CASE WorkerRunJob(v) \/ WorkerDone(v) \/ WorkerQuit(v)
  <2>1. UNCHANGED <<workerPool, dworker, caller, dpc>>
    BY <1>1 DEF WorkerRunJob, WorkerDone, WorkerQuit
  <2>2. \A w \in Workers : WithWorker(w)' <=> WithWorker(w)
    BY <1>1 DEF WorkerRunJob, WorkerDone, WorkerQuit, WithWorker, TypeOK
  <2> QED  BY <2>1, <2>2, LendingUnmoved DEF Lending
<1>2. CASE WorkerStopped(v)
  <2>1. wpc[v] = "quitting" /\ caller' = caller
    BY <1>2 DEF WorkerStopped
  <2>2. caller \in {"stopping", "done"}
    BY <2>1 DEF ClosingOrder, TypeOK
  <2> QED  BY <2>1, <2>2 DEF LentInv, Lending
<1> QED  BY <1>1, <1>2

(* The other goroutines do not touch the channels.                         *)
LEMMA OthersLend ==
  ASSUME IInv, LentInv,
         \/ Terminate \/ TerminateSteps \/ DispatchReceive
         \/ (\E j \in Jobs : Push(j)) \/ UNCHANGED vars
  PROVE  LentInv'
<1> USE DEF callerVars, dispVars, workerVars
<1>1. CASE Terminate \/ TerminateSteps
  <2>1. UNCHANGED <<workerPool, dworker, dpc, wpc>>
    BY <1>1 DEF Terminate, TerminateSteps, TerminateWait, WaitEnter, WaitWake, WaitReturn,
                WaitStep, TerminateCloseJobs, TerminateStopWorker, TerminateClosePool
  <2>2. Lending' => Lending
    BY <1>1 DEF Terminate, TerminateSteps, TerminateWait, WaitEnter, WaitWake, WaitReturn,
                WaitStep, TerminateCloseJobs, TerminateStopWorker, TerminateClosePool, Lending
  <2> QED  BY <2>1, <2>2, LendingUnmoved DEF WithWorker
<1>2. CASE DispatchReceive
  <2>1. UNCHANGED <<workerPool, dworker, caller, wpc>> /\ dpc = "range" /\ dpc' # "hand"
    BY <1>2 DEF DispatchReceive
  <2> QED  BY <2>1, LendingUnmoved DEF WithWorker, Lending
<1>3. CASE (\E j \in Jobs : Push(j)) \/ UNCHANGED vars
  <2>1. UNCHANGED <<workerPool, dworker, caller, dpc, wpc>>
    BY <1>3 DEF Push, PushCheck, PushAdd, PushSend, vars
  <2> QED  BY <2>1, LendingUnmoved DEF WithWorker, Lending
<1> QED  BY <1>1, <1>2, <1>3

(* Every step keeps every channel in one place.                            *)
LEMMA NextLends == ASSUME IInv, LentInv, [Next]_vars PROVE LentInv'
<1>1. CASE Run  BY <1>1, RunLends
<1>2. CASE Terminate \/ TerminateSteps \/ Finished \/ UNCHANGED vars
  BY <1>2, OthersLend DEF Finished
<1>3. CASE Dispatcher
  BY <1>3, OthersLend, PickLends, HandLends DEF Dispatcher
<1>4. CASE \E j \in Jobs : Push(j)  BY <1>4, OthersLend
<1>5. CASE \E w \in Workers : Worker(w)
  BY <1>5, RepoolLends, WorkerLends DEF Worker
<1> QED  BY <1>1, <1>2, <1>3, <1>4, <1>5 DEF Next

(* One place means one loan.                                               *)
LEMMA OnePlaceIsOneLoan ==
  ASSUME IInv, LentInv PROVE ChannelsLentOnce
<1> SUFFICES ASSUME Lending, NEW w \in Workers
             PROVE  Lent(w) = 1
  BY DEF ChannelsLentOnce
<1> DEFINE P == {i \in DOMAIN workerPool : workerPool[i] = w}
<1>1. OnePlace(w) /\ \A i, k \in 1..Len(workerPool) : workerPool[i] = workerPool[k] => i = k
  BY DEF LentInv
<1>2. DOMAIN workerPool = 1..Len(workerPool)
  BY LenProperties DEF IInv, TypeOK
<1>3. InPool(w) => Cardinality(P) = 1
  <2> SUFFICES ASSUME InPool(w) PROVE Cardinality(P) = 1
    OBVIOUS
  <2>1. PICK i \in 1..Len(workerPool) : workerPool[i] = w
    BY DEF InPool
  <2>2. P = {i}
    BY <1>1, <1>2, <2>1
  <2> QED  BY <2>2, FS_Singleton
<1>4. ~InPool(w) => Cardinality(P) = 0
  <2> SUFFICES ASSUME ~InPool(w) PROVE P = {}
    BY FS_EmptySet
  <2> QED  BY <1>2 DEF InPool
<1>5. Lent(w) = Cardinality(P) + (IF WithDispatcher(w) THEN 1 ELSE 0)
                  + (IF WithWorker(w) THEN 1 ELSE 0)
  BY DEF Lent, WithDispatcher, WithWorker
<1> HIDE DEF P
<1> QED  BY <1>1, <1>3, <1>4, <1>5 DEF OnePlace

(* Every worker's channel is lent exactly once until Terminate stops the   *)
(* workers, with any number of workers and however late the pushes: the    *)
(* pool's capacity never blocks a worker that gives its channel back, and  *)
(* the dispatcher never waits for one that is still running a job.         *)
THEOREM EachChannelLentOnce == Spec => []ChannelsLentOnce
<1>1. Init => LentInv
  BY DEF Init, LentInv, Lending
<1>2. IInv /\ LentInv /\ [Next]_vars => LentInv'
  BY NextLends
<1>3. IInv /\ LentInv => ChannelsLentOnce
  BY OnePlaceIsOneLoan
<1> QED  BY <1>1, <1>2, <1>3, QueueInvariant, PTL DEF Spec
=============================================================================
