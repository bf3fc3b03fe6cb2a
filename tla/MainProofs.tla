----------------------------- MODULE MainProofs -----------------------------
(***************************************************************************)
(* Proofs about Main, the composition.  Seen from the queue, every step of *)
(* the process is a step of the queue or none at all, and so it is for the *)
(* batch writer: MainSpec implements both, and what is proved about either *)
(* alone holds of the process.  What main() adds is an order, of its own   *)
(* steps, those of Terminate and the state of the connection pool, which   *)
(* is the inductive invariant MInv.                                        *)
(***************************************************************************)
EXTENDS Main, ChanQueueProofs

(* The theorems about the batch writer, as main() uses it.                 *)
BWP == INSTANCE BatchWorkerProofs WITH
         UIDs <- {Object}, MaxSends <- Cardinality(Jobs), pc <- bpc, stop <- signalled

(* The assumptions of BatchWorker hold of the constants it is given.       *)
LEMMA OneObjectIsFinite == BWP!IsFiniteSet({Object})
<1> DEFINE s == [i \in 1..1 |-> Object]
<1>1. s \in Seq({Object})
  BY SeqDef
<1>2. Len(s) = 1 /\ s[1] = Object
  OBVIOUS
<1> HIDE DEF s
<1> QED BY <1>1, <1>2 DEF BWP!IsFiniteSet

(* All of them.                                                            *)
LEMMA WriterAssumption ==
  /\ MaxBatch \in Nat \ {0} /\ ChanCap \in Nat \ {0}
  /\ Cardinality(Jobs) \in Nat
  /\ BWP!IsFiniteSet({Object})
  /\ NoRow \notin Nat
BY OneObjectIsFinite, MainAssumption, QueueAssumption, FS_CardinalityType

-----------------------------------------------------------------------------
(* Seen from the queue.                                                    *)
LEMMA MainStepsOfQueue == ASSUME MainSteps PROVE [Next]_vars
<1>1. CASE Launch  BY <1>1 DEF Launch, Next
<1>2. CASE CallTerminate  BY <1>2 DEF CallTerminate, Next
<1>3. CASE ~Launch /\ ~CallTerminate
  <2>1. UNCHANGED vars
    BY <1>3 DEF MainSteps, MainStep, Setup, Telemetry, Connect, TableExists, QueryColumns,
         validateSchema, Deadline, ClientFails, Wire, Drain, ClosePool, Exit
  <2> QED  BY <2>1
<1> QED  BY <1>1, <1>2, <1>3

(* Every step of the process is a step of the queue, or none.              *)
LEMMA StepOfQueue == ASSUME [MainNext]_allVars PROVE [Next]_vars
<1>1. CASE MainSteps  BY <1>1, MainStepsOfQueue
<1>2. CASE Terminating \/ QueueDispatcher
  BY <1>2 DEF Terminating, QueueDispatcher, Next
<1>3. CASE \E w \in Workers : QueueWorker(w)
  BY <1>3 DEF QueueWorker, RunJob, Worker, Next
<1>4. CASE \E j \in Jobs : Handler(j)
  BY <1>4 DEF Handler, Next
<1>5. CASE Migrate \/ Signal \/ Receive \/ Tick \/ Stop \/ Exec \/ Rest \/ UNCHANGED allVars
  <2>1. UNCHANGED vars
    BY <1>5 DEF Migrate, Signal, Receive, Tick, Stop, Exec, Acquire, ExecOK, ExecError,
                WriterStep, Rest, allVars
  <2> QED  BY <2>1
<1> QED  BY <1>1, <1>2, <1>3, <1>4, <1>5 DEF MainNext

(* The process runs the queue as its package describes it, with the pushes *)
(* of handlers that nobody joins: it implements ChanQueue's specification. *)
THEOREM ProcessRunsQueue == MainSpec => Spec
<1>1. MainInit => Init
  BY DEF MainInit
<1>2. [MainNext]_allVars => [Next]_vars
  BY StepOfQueue
<1> QED  BY <1>1, <1>2, PTL DEF MainSpec, Spec

-----------------------------------------------------------------------------
(* Seen from the batch writer.                                             *)
writerVars == <<batchVars, signalled>>

(* What the writer and its channel consist of.                             *)
LEMMA WriterVars == UNCHANGED writerVars => UNCHANGED BW!vars
BY DEF writerVars, batchVars, BW!vars

(* Every step of the process is a step of the writer, or none.             *)
LEMMA StepOfWriter == ASSUME [MainNext]_allVars PROVE [BW!Next]_(BW!vars)
<1> USE DEF writerVars, mainVars, WriterStep, Elsewhere
<1>1. CASE MainSteps
  <2>1. UNCHANGED writerVars
    BY <1>1 DEF MainSteps, MainStep, Setup, Telemetry, Connect, TableExists, QueryColumns,
         validateSchema, Deadline, ClientFails, Wire, Drain, ClosePool, Exit,
         Launch, CallTerminate
  <2> QED  BY <2>1, WriterVars
<1>2. CASE Migrate \/ Terminating \/ QueueDispatcher \/ Acquire \/ Rest \/ UNCHANGED allVars
  <2>1. UNCHANGED writerVars
    BY <1>2 DEF Migrate, Terminating, QueueDispatcher, Acquire, Rest, allVars
  <2> QED  BY <2>1, WriterVars
<1>3. CASE \E j \in Jobs : Handler(j)
  <2>1. UNCHANGED writerVars
    BY <1>3 DEF Handler
  <2> QED  BY <2>1, WriterVars
<1>4. CASE \E w \in Workers : QueueWorker(w)
  <2>1. CASE \E w \in Workers : RunJob(w)
    <3>1. BW!Send(Object, TRUE)
      BY <2>1 DEF RunJob
    <3>2. BW!hasCompositionId("uuid") = TRUE /\ "uuid" \in BW!CompositionLabels
      BY DEF BW!hasCompositionId, BW!CompositionLabels
    <3>3. BW!Send(Object, BW!hasCompositionId("uuid"))
      BY <3>1, <3>2
    <3> QED  BY <3>2, <3>3 DEF BW!Next
  <2>2. CASE \A w \in Workers : ~RunJob(w)
    <3>1. UNCHANGED writerVars
      BY <1>4, <2>2 DEF QueueWorker
    <3> QED  BY <3>1, WriterVars
  <2> QED  BY <2>1, <2>2
<1>5. CASE Signal \/ Receive \/ Tick \/ Stop \/ ExecOK \/ ExecError
  <2>1. \/ BW!SignalStop \/ BW!Receive \/ BW!Tick \/ BW!Stop
        \/ BW!ExecOK \/ BW!ExecError
    BY <1>5 DEF Signal, Receive, Tick, Stop, ExecOK, ExecError
  <2> QED  BY <2>1 DEF BW!Next
<1> QED  BY <1>1, <1>2, <1>3, <1>4, <1>5 DEF MainNext, Exec

(* The process runs the batch writer as its package describes it, sending  *)
(* it a record for each job at most and stopping it with a signal: it      *)
(* implements BatchWorker's specification.                                 *)
THEOREM ProcessRunsWriter == MainSpec => BW!Spec
<1>1. MainInit => BW!Init
  BY DEF MainInit
<1>2. [MainNext]_allVars => [BW!Next]_(BW!vars)
  BY StepOfWriter
<1> QED  BY <1>1, <1>2, PTL DEF MainSpec, BW!Spec

-----------------------------------------------------------------------------
(* What is proved about the writer, for the process.                       *)
LEMMA SameWriter ==
  /\ BW!Init => BWP!Init
  /\ [BW!Next]_(BW!vars) => [BWP!Next]_(BWP!vars)
  /\ BWP!TypeOK => BW!TypeOK
  /\ BWP!PendingIsNewer => BW!PendingIsNewer
  /\ BWP!StopSubmitsBuffer => BW!StopSubmitsBuffer
<1>1. BW!Init => BWP!Init
  BY DEF BW!Init, BWP!Init
<1>2. BW!vars = BWP!vars /\ BW!vars' = BWP!vars'
  BY DEF BW!vars, BWP!vars
<1>3. /\ BW!SignalStop => BWP!SignalStop
      /\ BW!Receive => BWP!Receive
      /\ BW!Tick => BWP!Tick
      /\ BW!Stop => BWP!Stop
  BY DEF BW!SignalStop, BWP!SignalStop, BW!Receive, BWP!Receive, BW!Tick, BWP!Tick,
         BW!Stop, BWP!Stop, BW!Take, BWP!Take, BW!Select, BWP!Select
<1>4. /\ BW!Flushing <=> BWP!Flushing
      /\ BW!Acceptable(BW!records) <=> BWP!Acceptable(BWP!records)
      /\ BW!Upsert => BWP!Upsert
      /\ BW!FlushReturns => BWP!FlushReturns
  <2>1. BW!Flushing <=> BWP!Flushing
    BY DEF BW!Flushing, BWP!Flushing
  <2>2. BW!Keys = BWP!Keys
    BY DEF BW!Keys, BWP!Keys
  <2>3. \A u : BW!LastIndex(u) = BWP!LastIndex(u)
    BY DEF BW!LastIndex, BWP!LastIndex
  <2>4. BW!records = BWP!records
    BY <2>2, <2>3 DEF BW!records, BWP!records
  <2>5. BW!Acceptable(BW!records) <=> BWP!Acceptable(BWP!records)
    BY <2>4 DEF BW!Acceptable, BWP!Acceptable
  <2>6. BW!Upsert => BWP!Upsert
    BY <2>2, <2>3 DEF BW!Upsert, BWP!Upsert
  <2>7. BW!FlushReturns => BWP!FlushReturns
    BY DEF BW!FlushReturns, BWP!FlushReturns
  <2> QED  BY <2>1, <2>5, <2>6, <2>7
<1>5. (BW!ExecOK => BWP!ExecOK) /\ (BW!ExecError => BWP!ExecError)
  BY <1>4 DEF BW!ExecOK, BWP!ExecOK, BW!ExecError, BWP!ExecError
<1>6. (\E u \in {Object}, label \in BW!CompositionLabels :
          BW!Send(u, BW!hasCompositionId(label)))
        => \E u \in {Object}, label \in BWP!CompositionLabels :
              BWP!Send(u, BWP!hasCompositionId(label))
  BY DEF BW!CompositionLabels, BWP!CompositionLabels, BW!Send, BWP!Send,
         BW!hasCompositionId, BWP!hasCompositionId
<1>7. BW!Next => BWP!Next
  BY <1>2, <1>3, <1>5, <1>6 DEF BW!Next, BWP!Next, BW!Finished, BWP!Finished
<1>8. BWP!TypeOK => BW!TypeOK
  BY DEF BW!TypeOK, BWP!TypeOK, BW!Record, BWP!Record
<1>9. /\ BWP!PendingIsNewer => BW!PendingIsNewer
      /\ BWP!StopSubmitsBuffer => BW!StopSubmitsBuffer
  BY DEF BW!PendingIsNewer, BWP!PendingIsNewer, BW!StopSubmitsBuffer, BWP!StopSubmitsBuffer
<1> QED  BY <1>1, <1>2, <1>7, <1>8, <1>9

(* The promises of the writer alone.                                       *)
LEMMA WriterKeepsPromises ==
  BW!Spec => [](BW!TypeOK /\ BW!PendingIsNewer /\ BW!StopSubmitsBuffer)
<1>1. BWP!Spec => []BWP!TypeOK
  BY WriterAssumption, BWP!BatchTypes
<1>2. BWP!Spec => []BWP!PendingIsNewer
  BY WriterAssumption, BWP!PendingStaysNewer
<1>3. BWP!Spec => []BWP!StopSubmitsBuffer
  BY WriterAssumption, BWP!StopLosesNoBuffer
<1> QED  BY <1>1, <1>2, <1>3, SameWriter, PTL DEF BW!Spec, BWP!Spec

-----------------------------------------------------------------------------
(* How far main() is, and with it Terminate, the connection pool and the   *)
(* signal.  The queue and the writer run from "wire" on.                   *)
Checked == live = [c \in Expected |-> "want"]

BeforeRun == {"config", "telemetry", "connect", "table", "schema", "compare", "client"}

InTerminate == {"waiting", "blocked", "woken", "closing", "stopping", "done"}

CallerAgrees ==
  /\ main \in BeforeRun => caller = "created"
  /\ main \in {"wire", "serving", "drained"} => caller = "serving"
  /\ main = "terminating" => caller \in InTerminate
  /\ main \in {"closing", "exited"} => caller = "done"
  /\ main = "failed" => caller \in {"created", "serving"}

PoolAgrees ==
  /\ main \in {"config", "telemetry", "connect"} => pool = "none"
  /\ main \in {"table", "schema", "compare", "client", "wire", "serving", "drained",
               "terminating"} => pool = "open"
  /\ main = "closing" => pool = "closing"
  /\ main = "exited" => pool = "closed"
  /\ main = "failed" => pool \in {"none", "open", "closed"}
                          /\ (caller = "serving" => pool = "open")

(* A shutdown is the answer to a signal, ...                               *)
ShutdownSignalled ==
  main \in {"drained", "terminating", "closing", "exited"} => signalled

(* ... what was read of the schema was right when the queue was started,   *)
(* and no record is written before, ...                                    *)
SchemaAgrees ==
  /\ main = "client" \/ caller # "created" => Checked
  /\ refreshed[Object] # NoRow => caller # "created"

(* ... a connection is held only to execute a statement, ...               *)
ConnAgrees == conn \in BOOLEAN /\ (conn => BW!Flushing)

(* ... and what was in flight when Terminate was called is still, or has   *)
(* been run: the latter for certain when wg.Wait has been woken, and at a  *)
(* panic.                                                                  *)
OwedDone == \A j \in owed : stage[j] = "done"

OwedAgrees ==
  /\ owed \subseteq Jobs
  /\ \A j \in owed : stage[j] \in InFlight \cup {"done"}
  /\ caller = "woken" \/ PastWait => OwedDone
  /\ panicked => signalled /\ OwedDone

MInv ==
  /\ main \in BeforeRun \cup {"wire", "serving", "drained", "terminating", "closing",
                              "exited", "failed"}
  /\ table \in Tables \cup {Absent} /\ live \in Tables /\ flowing \in BOOLEAN
  /\ CallerAgrees /\ PoolAgrees /\ ShutdownSignalled /\ SchemaAgrees /\ ConnAgrees
  /\ OwedAgrees

(* The shared parts of the queue's steps.                                  *)
USE DEF Workers, NilChan, Panics, PushStep, DispatchStep, HandTo, WorkerStep, CallerStep

(* A table without columns is one.                                         *)
LEMMA NoColumnsIsTable == NoColumns \in Tables
<1>1. NoColumns \in [{} -> {"want", "other"}] /\ DOMAIN NoColumns = {}
  BY DEF NoColumns
<1> HIDE DEF NoColumns
<1>2. {} \in SUBSET (Expected \cup Foreign)
  OBVIOUS
<1> QED  BY <1>1, <1>2 DEF Tables

(* main() begins.                                                          *)
LEMMA InitMInv == ASSUME MainInit PROVE MInv
<1>1. live \in Tables
  BY NoColumnsIsTable DEF MainInit
<1>2. refreshed[Object] = NoRow
  BY DEF MainInit, BW!Init
<1> QED  BY <1>1, <1>2 DEF MainInit, Init, MInv, BeforeRun, CallerAgrees, PoolAgrees,
            ShutdownSignalled, SchemaAgrees, ConnAgrees, OwedAgrees, OwedDone, PastWait

(* No difference found means that the columns are the expected ones.       *)
LEMMA NoMismatchIsChecked == ASSUME live \in Tables, Mismatch = {} PROVE Checked
<1>1. DOMAIN live = Expected
  BY DEF Mismatch, Missing, Extra
<1>2. \A c \in Expected : live[c] = "want"
  BY <1>1 DEF Mismatch, Mistyped
<1>3. PICK cols \in SUBSET (Expected \cup Foreign) : live \in [cols -> {"want", "other"}]
  BY DEF Tables
<1> QED  BY <1>1, <1>2, <1>3 DEF Checked

(* main() itself.                                                          *)
LEMMA StartUpKeeps ==
  ASSUME MInv,
         \/ Setup \/ Telemetry \/ Connect \/ TableExists \/ QueryColumns \/ validateSchema
         \/ Deadline \/ ClientFails \/ Wire
  PROVE  MInv'
<1> USE DEF MInv, BeforeRun
<1>1. /\ ~panicked
      /\ UNCHANGED <<caller, panicked, signalled, table, conn, bpc, refreshed, owed, stage>>
      /\ main \in BeforeRun \cup {"wire"}
      /\ main' \in {"telemetry", "connect", "table", "schema", "compare", "client", "serving",
                    "failed"}
  BY DEF Setup, Telemetry, Connect, TableExists, QueryColumns, validateSchema, Deadline,
         ClientFails, Wire, MainStep, vars, batchVars
<1>2. CallerAgrees'
  BY <1>1 DEF CallerAgrees, Setup, Telemetry, Connect, TableExists, QueryColumns,
              validateSchema, Deadline, ClientFails, Wire, MainStep
<1>3. PoolAgrees'
  BY <1>1 DEF CallerAgrees, PoolAgrees, Setup, Telemetry, Connect, TableExists, QueryColumns,
              validateSchema, Deadline, ClientFails, Wire, MainStep, Alone
<1>4. SchemaAgrees'
  <2>1. main' = "client" => Checked /\ UNCHANGED live
    BY <1>1, NoMismatchIsChecked DEF Setup, Telemetry, Connect, TableExists, QueryColumns,
         validateSchema, Deadline, ClientFails, Wire, MainStep
  <2>2. caller # "created" => UNCHANGED live
    BY <1>1 DEF CallerAgrees, Setup, Telemetry, Connect, TableExists, QueryColumns,
         validateSchema, Deadline, ClientFails, Wire, MainStep, Alone
  <2> QED  BY <1>1, <2>1, <2>2 DEF SchemaAgrees, Checked
<1>5. ConnAgrees' /\ OwedAgrees' /\ ShutdownSignalled'
  BY <1>1 DEF ConnAgrees, BW!Flushing, OwedAgrees, OwedDone, PastWait, ShutdownSignalled
<1>6. live' \in Tables
  <2>1. \/ UNCHANGED live \/ live' = NoColumns
        \/ table # Absent /\ live' = table
    BY DEF Setup, Telemetry, Connect, TableExists, QueryColumns, validateSchema, Deadline,
         ClientFails, Wire, Alone
  <2> QED  BY <2>1, NoColumnsIsTable
<1>7. flowing' \in BOOLEAN
  BY <1>1 DEF Setup, Telemetry, Connect, TableExists, QueryColumns, validateSchema, Deadline,
         ClientFails, Wire, Alone
<1> QED  BY <1>1, <1>2, <1>3, <1>4, <1>5, <1>6, <1>7

(* main() calls Run, Terminate and pool.Close.                             *)
LEMMA CallsKeep ==
  ASSUME MInv, Launch \/ Drain \/ CallTerminate \/ ClosePool \/ Exit
  PROVE  MInv'
<1> USE DEF MInv, BeforeRun, MainStep, Launch, Drain, CallTerminate, ClosePool, Exit, Alone,
            Run, Terminate
<1>1. /\ UNCHANGED <<panicked, signalled, table, live, flowing, conn, bpc, refreshed, stage>>
      /\ ~panicked
      /\ main \in {"client", "serving", "drained", "terminating", "closing"}
      /\ main' \in {"wire", "drained", "terminating", "closing", "exited"}
  BY DEF vars, batchVars
<1>2. CallerAgrees'
  BY DEF CallerAgrees, InTerminate, vars
<1>3. PoolAgrees'
  BY DEF PoolAgrees
<1>4. SchemaAgrees'
  <2>1. Checked /\ caller' # "created"
    BY DEF SchemaAgrees, CallerAgrees, InTerminate, vars
  <2> QED  BY <1>1, <2>1 DEF SchemaAgrees, Checked
<1>5. ConnAgrees' /\ ShutdownSignalled'
  BY <1>1 DEF ConnAgrees, BW!Flushing, ShutdownSignalled
<1>6. OwedAgrees'
  <2>1. CASE CallTerminate
    BY <1>1, <2>1 DEF OwedAgrees, InFlightJobs, PastWait
  <2>2. CASE Launch
    BY <1>1, <2>2 DEF OwedAgrees, OwedDone, PastWait
  <2>3. CASE Drain \/ ClosePool \/ Exit
    BY <1>1, <2>3 DEF OwedAgrees, OwedDone, PastWait, vars
  <2> QED  BY <2>1, <2>2, <2>3
<1> QED  BY <1>1, <1>2, <1>3, <1>4, <1>5, <1>6

(* The world outside.                                                      *)
LEMMA OutsideKeeps == ASSUME MInv, Migrate \/ Signal PROVE MInv'
<1> USE DEF MInv, BeforeRun
<1>1. /\ UNCHANGED <<caller, panicked, main, live, flowing, pool, conn, bpc, refreshed, stage,
                     owed>>
      /\ table' \in Tables \cup {Absent} /\ (signalled => signalled')
  BY DEF Migrate, Signal, BW!SignalStop, vars, batchVars
<1> QED  BY <1>1 DEF CallerAgrees, PoolAgrees, ShutdownSignalled, SchemaAgrees, Checked,
            ConnAgrees, BW!Flushing, OwedAgrees, OwedDone, PastWait

-----------------------------------------------------------------------------
(* A job that is counted stays so until it is done, and then for good.     *)
Onward ==
  /\ \A j \in Jobs : stage[j] \in InFlight \cup {"done"} => stage'[j] \in InFlight \cup {"done"}
  /\ \A j \in Jobs : stage[j] = "done" => stage'[j] = "done"

(* Whoever moves a job that is counted moves it on.                        *)
LEMMA MoveIsOnward ==
  ASSUME TypeOK, NEW j \in Jobs, NEW s, stage' = [stage EXCEPT ![j] = s], stage[j] # "done",
         stage[j] \in InFlight => s \in InFlight \cup {"done"}
  PROVE  Onward
BY DEF Onward, TypeOK

(* The queue's goroutines.                                                 *)
LEMMA JobsGoOnward ==
  ASSUME IInv, \/ Dispatcher \/ (\E j \in Jobs : Push(j)) \/ (\E w \in Workers : Worker(w))
  PROVE  Onward
<1> USE DEF IInv, InFlight
<1>0. CASE UNCHANGED stage
  BY <1>0 DEF Onward
<1>1. CASE Dispatcher
  <2>1. CASE DispatchReceive
    <3>1. \/ jobQueue # <<>> /\ stage' = [stage EXCEPT ![Head(jobQueue)] = "dispatched"]
          \/ UNCHANGED stage
      BY <2>1 DEF DispatchReceive
    <3>2. jobQueue # <<>> => Head(jobQueue) \in Jobs /\ stage[Head(jobQueue)] = "queued"
      <4> SUFFICES ASSUME jobQueue # <<>>
                   PROVE  Head(jobQueue) \in Jobs /\ stage[Head(jobQueue)] = "queued"
        OBVIOUS
      <4>1. Head(jobQueue) = jobQueue[1] /\ 1 \in 1..Len(jobQueue) /\ Head(jobQueue) \in Jobs
        BY HeadTailProperties, EmptySeq, LenProperties DEF TypeOK
      <4> QED  BY <4>1 DEF JobPlaces
    <3> QED  BY <1>0, <3>1, <3>2, MoveIsOnward
  <2>2. CASE DispatchPick
    BY <1>0, <2>2 DEF DispatchPick
  <2>3. CASE DispatchHand
    <3>1. \/ dpc = "hand" /\ stage' = [stage EXCEPT ![djob] = "running"]
          \/ UNCHANGED stage
      BY <2>3 DEF DispatchHand
    <3>2. dpc = "hand" => djob \in Jobs /\ stage[djob] = "dispatched"
      BY DEF JobPlaces
    <3> QED  BY <1>0, <3>1, <3>2, MoveIsOnward
  <2> QED  BY <1>1, <2>1, <2>2, <2>3 DEF Dispatcher
<1>2. CASE \E j \in Jobs : Push(j)
  <2>1. PICK j \in Jobs : Push(j)
    BY <1>2
  <2>2. \/ stage[j] = "idle" /\ \E s : stage' = [stage EXCEPT ![j] = s]
        \/ stage[j] = "checked" /\ stage' = [stage EXCEPT ![j] = "added"]
        \/ stage[j] = "added" /\ stage' = [stage EXCEPT ![j] = "queued"]
        \/ UNCHANGED stage
    BY <2>1 DEF Push, PushCheck, PushAdd, PushSend
  <2> QED  BY <1>0, <2>2, MoveIsOnward
<1>3. CASE \E w \in Workers : Worker(w)
  <2>1. PICK w \in Workers : Worker(w)
    BY <1>3
  <2>2. Busy(w) => wjob[w] \in Jobs /\ stage[wjob[w]] = HeldStage[wpc[w]]
    BY DEF JobPlaces
  <2>3. \/ UNCHANGED stage
        \/ wpc[w] = "running" /\ stage' = [stage EXCEPT ![wjob[w]] = "ran"]
        \/ wpc[w] = "repool" /\ stage' = [stage EXCEPT ![wjob[w]] = "repooled"]
        \/ wpc[w] = "release" /\ stage' = [stage EXCEPT ![wjob[w]] = "done"]
    BY <2>1 DEF Worker, WorkerRunJob, WorkerRepool, WorkerDone, WorkerQuit, WorkerStopped
  <2> QED  BY <1>0, <2>2, <2>3, MoveIsOnward DEF Busy, HeldStage
<1> QED  BY <1>1, <1>2, <1>3

(* A panic finds a closed channel, which Terminate leaves behind only when *)
(* it has passed its wait, or a WaitGroup that has a waiter and no jobs.   *)
LEMMA PanicIsLate ==
  ASSUME IInv, ~panicked, panicked',
         \/ Dispatcher \/ (\E j \in Jobs : Push(j)) \/ (\E w \in Workers : Worker(w))
  PROVE  PastWait \/ (caller = "blocked" /\ InFlightJobs = {})
<1> USE QueueAssumption DEF IInv
<1>1. \/ jobQueueClosed \/ workerPoolClosed \/ Releasing
      \/ \E w \in Workers : wpc[w] = "stopped"
  <2>1. CASE Dispatcher
    BY <2>1 DEF Dispatcher, DispatchReceive, DispatchPick, DispatchHand, TypeOK
  <2>2. CASE \E j \in Jobs : Push(j)
    BY <2>2 DEF Push, PushCheck, PushAdd, PushSend
  <2>3. CASE \E w \in Workers : Worker(w)
    BY <2>3 DEF Worker, WorkerRunJob, WorkerRepool, WorkerDone, WorkerQuit, WorkerStopped
  <2> QED  BY <2>1, <2>2, <2>3
<1>2. CASE Releasing
  BY <1>2, ZeroMeansNone DEF Releasing
<1>3. CASE ~Releasing
  BY <1>1, <1>3 DEF ClosingOrder, TypeOK, PastWait
<1> QED  BY <1>2, <1>3

(* Terminate goes on, or its wait finds the WaitGroup in use again.        *)
LEMMA TerminatingKeeps == ASSUME MInv, IInv, Terminating PROVE MInv'
<1> USE DEF MInv, BeforeRun, InTerminate
<1>1. /\ UNCHANGED <<main, signalled, table, live, flowing, pool, conn, owed, bpc, refreshed>>
      /\ Alive /\ TerminateSteps
  BY DEF Terminating, Elsewhere, mainVars, batchVars
<1>2. /\ caller \in InTerminate \ {"done"} /\ caller' \in InTerminate \ {"waiting"}
      /\ UNCHANGED stage
  BY <1>1 DEF TerminateSteps, TerminateWait, WaitEnter, WaitWake, WaitReturn, WaitStep,
       TerminateCloseJobs, TerminateStopWorker, TerminateClosePool, callerVars
<1>3. main = "terminating" /\ signalled
  BY <1>1, <1>2 DEF CallerAgrees, ShutdownSignalled, Alive
<1>4. OwedAgrees'
  <2>1. CASE caller \in {"waiting", "blocked"} /\ caller' \in {"woken", "closing"}
    <3>1. wg = 0 /\ UNCHANGED panicked
      BY <1>1, <2>1 DEF TerminateSteps, TerminateWait, WaitEnter, WaitWake, WaitReturn,
           WaitStep, Releasing, TerminateCloseJobs, TerminateStopWorker, TerminateClosePool,
           callerVars
    <3>2. InFlightJobs = {}
      BY <3>1, ZeroMeansNone DEF IInv
    <3>3. OwedDone
      BY <3>2 DEF InFlightJobs, OwedAgrees, OwedDone
    <3> QED  BY <1>1, <1>2, <3>1, <3>3 DEF OwedAgrees, OwedDone
  <2>2. CASE caller \in {"waiting", "blocked"} /\ caller' \notin {"woken", "closing"}
    <3>1. caller' = "blocked" /\ UNCHANGED panicked
      BY <1>1, <2>2 DEF TerminateSteps, TerminateWait, WaitEnter, WaitWake, WaitReturn,
           WaitStep, Releasing, TerminateCloseJobs, TerminateStopWorker, TerminateClosePool,
           callerVars
    <3> QED  BY <1>1, <1>2, <3>1 DEF OwedAgrees, OwedDone, PastWait
  <2>3. CASE caller \notin {"waiting", "blocked"}
    <3>1. OwedDone
      BY <1>2, <2>3 DEF OwedAgrees, PastWait
    <3> QED  BY <1>1, <1>2, <1>3, <3>1 DEF OwedAgrees, OwedDone
  <2> QED  BY <2>1, <2>2, <2>3
<1> QED  BY <1>1, <1>2, <1>3, <1>4 DEF CallerAgrees, PoolAgrees, ShutdownSignalled,
            SchemaAgrees, Checked, ConnAgrees, BW!Flushing

(* The queue's other goroutines: jobs go on, or a late push panics.        *)
LEMMA QueueKeeps ==
  ASSUME MInv, IInv,
         \/ QueueDispatcher
         \/ (\E w \in Workers : QueueWorker(w)) \/ (\E j \in Jobs : Handler(j))
  PROVE  MInv'
<1> USE DEF MInv, BeforeRun
<1>1. /\ UNCHANGED <<main, signalled, table, live, flowing, pool, conn, owed, bpc, refreshed>>
      /\ Alive
  BY DEF QueueDispatcher, QueueWorker, RunJob, Handler, Elsewhere, mainVars, batchVars, BW!Send
<1>2. Dispatcher \/ (\E j \in Jobs : Push(j)) \/ (\E w \in Workers : Worker(w))
  BY DEF QueueDispatcher, QueueWorker, RunJob, Handler, Worker
<1>3. UNCHANGED caller
  <2>1. CASE Dispatcher
    BY <2>1 DEF Dispatcher, DispatchReceive, DispatchPick, DispatchHand, callerVars
  <2>2. CASE \E j \in Jobs : Push(j)
    BY <2>2 DEF Push, PushCheck, PushAdd, PushSend, callerVars
  <2>3. CASE \E w \in Workers : Worker(w)
    BY <2>3 DEF Worker, WorkerRunJob, WorkerRepool, WorkerDone, WorkerQuit,
                WorkerStopped, callerVars
  <2> QED  BY <1>2, <2>1, <2>2, <2>3
<1>4. Onward
  BY <1>2, JobsGoOnward
<1>5. panicked' => signalled /\ OwedDone
  <2> SUFFICES ASSUME panicked' PROVE signalled /\ OwedDone
    OBVIOUS
  <2>1. PastWait \/ (caller = "blocked" /\ InFlightJobs = {})
    BY <1>1, <1>2, PanicIsLate DEF Alive
  <2>2. main \in {"terminating", "closing", "exited"}
    BY <2>1 DEF CallerAgrees, PastWait
  <2>3. OwedDone
    BY <2>1 DEF OwedAgrees, OwedDone, InFlightJobs
  <2> QED  BY <2>2, <2>3 DEF ShutdownSignalled
<1>6. OwedAgrees'
  <2>1. OwedDone => OwedDone'
    BY <1>1, <1>4 DEF OwedDone, OwedAgrees, Onward
  <2>2. \A j \in owed' : stage'[j] \in InFlight \cup {"done"}
    BY <1>1, <1>4 DEF OwedAgrees, Onward
  <2> QED  BY <1>1, <1>3, <1>5, <2>1, <2>2 DEF OwedAgrees, PastWait
<1> QED  BY <1>1, <1>3, <1>6 DEF CallerAgrees, PoolAgrees, ShutdownSignalled, SchemaAgrees,
            Checked, ConnAgrees, BW!Flushing

(* The batch writer, which holds a connection while it flushes only.       *)
LEMMA WriterKeeps == ASSUME MInv, Receive \/ Tick \/ Stop \/ Exec PROVE MInv'
<1> USE DEF MInv, WriterStep
<1>1. /\ UNCHANGED <<caller, panicked, main, table, live, flowing, pool, owed, stage>> /\ Alive
      /\ caller # "created"
  BY DEF Receive, Tick, Stop, Exec, Acquire, ExecOK, ExecError, vars
<1>2. UNCHANGED signalled
  BY DEF Receive, Tick, Stop, Exec, Acquire, ExecOK, ExecError, BW!Receive, BW!Tick, BW!Stop,
         BW!Take, BW!Select, BW!ExecOK, BW!ExecError, BW!FlushReturns
<1>3. SchemaAgrees'
  BY <1>1 DEF SchemaAgrees, Checked
<1>4. ConnAgrees'
  <2>1. CASE Receive \/ Tick \/ Stop
    BY <1>1, <2>1 DEF Receive, Tick, Stop, BW!Receive, BW!Tick, BW!Stop, BW!Take, BW!Select,
                      ConnAgrees, BW!Flushing, Alive
  <2>2. CASE Acquire
    BY <1>1, <2>2 DEF Acquire, batchVars, ConnAgrees, BW!Flushing, Alive
  <2>3. CASE ExecOK \/ ExecError
    BY <2>3 DEF ExecOK, ExecError, ConnAgrees
  <2> QED  BY <2>1, <2>2, <2>3 DEF Exec
<1> QED  BY <1>1, <1>2, <1>3, <1>4 DEF CallerAgrees, PoolAgrees, ShutdownSignalled,
            OwedAgrees, OwedDone, PastWait

(* The process is over or hangs.                                           *)
LEMMA RestKeeps == ASSUME MInv, UNCHANGED allVars PROVE MInv'
BY DEF allVars, vars, mainVars, batchVars, MInv, CallerAgrees, PoolAgrees, ShutdownSignalled,
       SchemaAgrees, Checked, ConnAgrees, BW!Flushing, OwedAgrees, OwedDone, PastWait

(* Every step keeps the invariant.                                         *)
LEMMA MainNextKeeps == ASSUME IInv, MInv, [MainNext]_allVars PROVE MInv'
<1>1. CASE MainSteps  BY <1>1, StartUpKeeps, CallsKeep DEF MainSteps
<1>2. CASE Migrate \/ Signal  BY <1>2, OutsideKeeps
<1>3. CASE \/ Terminating \/ QueueDispatcher
           \/ (\E w \in Workers : QueueWorker(w)) \/ (\E j \in Jobs : Handler(j))
  BY <1>3, TerminatingKeeps, QueueKeeps
<1>4. CASE Receive \/ Tick \/ Stop \/ Exec  BY <1>4, WriterKeeps
<1>5. CASE Rest \/ UNCHANGED allVars  BY <1>5, RestKeeps DEF Rest
<1> QED  BY <1>1, <1>2, <1>3, <1>4, <1>5 DEF MainNext

-----------------------------------------------------------------------------
(* The order of main(), Terminate and the connection pool holds at every   *)
(* moment of the process, for every number of jobs and workers.            *)
THEOREM ProcessInvariant == MainSpec => [](IInv /\ MInv)
<1>1. MainInit => MInv
  BY InitMInv
<1>2. IInv /\ MInv /\ [MainNext]_allVars => MInv'
  BY MainNextKeeps
<1> QED  BY <1>1, <1>2, ProcessRunsQueue, QueueInvariant, PTL DEF MainSpec

(* Queue, writer and main() keep their types together; the pool is open    *)
(* from the start of the queue to the end of Terminate, so that every      *)
(* statement of a draining shutdown gets its connection.                   *)
THEOREM ProcessTypes == MainSpec => []MainTypeOK
<1>1. IInv /\ MInv /\ BW!TypeOK => MainTypeOK
  BY DEF IInv, TypeOK, MInv, BeforeRun, CallerAgrees, PoolAgrees, ConnAgrees, OwedAgrees,
         MainTypeOK
<1> QED  BY <1>1, ProcessInvariant, ProcessRunsWriter, WriterKeepsPromises, PTL

(* ServesOnCheckedSchema: with migrations at any time, before, between and *)
(* after the phases of the check, the queue runs and the writer writes     *)
(* only if what validateSchema read were exactly the expected columns.     *)
THEOREM SchemaIsChecked == MainSpec => []ServesOnCheckedSchema
<1>1. MInv => ServesOnCheckedSchema
  BY DEF MInv, SchemaAgrees, Checked, ServesOnCheckedSchema
<1> QED  BY <1>1, ProcessInvariant, PTL

(* OwedJobsRun: a Push of a handler that outlives the drain of the worker  *)
(* pool may end the process with a panic, of a closed channel or of the    *)
(* WaitGroup; but neither that nor the return of main() comes before the   *)
(* jobs that Terminate found in flight have been run.                      *)
THEOREM EndSparesOwedJobs == MainSpec => []OwedJobsRun
<1>1. MInv => OwedJobsRun
  BY DEF MInv, OwedAgrees, OwedDone, CallerAgrees, ShutdownSignalled, PastWait, OwedJobsRun
<1> QED  BY <1>1, ProcessInvariant, PTL

(* In the process, too, wg.Wait returns only when no job is between its    *)
(* wg.Add and its wg.Done, and every worker's channel is lent once.        *)
THEOREM ProcessQueuePromises == MainSpec => WaitCoversCounted /\ []ChannelsLentOnce
BY ProcessRunsQueue, WaitIsExact, EachChannelLentOnce, PTL

(* In the process, too, what the writer still holds is newer than what is  *)
(* written, and a writer that has returned has submitted its buffer.       *)
THEOREM ProcessWriterPromises ==
  MainSpec => [](BW!PendingIsNewer /\ BW!StopSubmitsBuffer)
BY ProcessRunsWriter, WriterKeepsPromises, PTL

(* In the process, too, the writer is a last-write-wins store: what the    *)
(* jobs of the queue hand it is written or lost in whole batches and in    *)
(* the order of the channel, across start-up, the closing of the pool and  *)
(* a shutdown at any moment.                                               *)
THEOREM ProcessImplementsStore == MainSpec => BWP!RefinesStore
<1>1. BWP!Spec => BWP!RefinesStore
  BY WriterAssumption, BWP!BatchWorkerImplementsStore
<1>2. BW!Spec => BWP!Spec
  BY SameWriter, PTL DEF BW!Spec, BWP!Spec
<1> QED  BY <1>1, <1>2, ProcessRunsWriter, PTL

-----------------------------------------------------------------------------
(* The records that jobs have sent are counted by the jobs that have run,  *)
(* and a job that is about to send is not counted among them yet.          *)
JobsRun == {j \in Jobs : ran[j] > 0}

RecordsCounted == sent = Cardinality(JobsRun)

SendersUncounted == \A w \in Workers : wpc[w] = "running" => sent < Cardinality(Jobs)

(* Every step but the run of a job leaves both counts alone.               *)
LEMMA OthersSendNothing ==
  ASSUME [MainNext]_allVars, ~\E w \in Workers : RunJob(w)
  PROVE  UNCHANGED <<ran, sent>>
<1> USE DEF allVars, vars, batchVars, mainVars, workerVars, Elsewhere, WriterStep, Panics
<1>1. CASE MainSteps
  <2>1. CASE Launch \/ CallTerminate
    BY <2>1 DEF Launch, CallTerminate, Run, Terminate, CallerStep
  <2>2. CASE ~Launch /\ ~CallTerminate
    BY <1>1, <2>2 DEF MainSteps, MainStep, Setup, Telemetry, Connect, TableExists,
         QueryColumns, validateSchema, Deadline, ClientFails, Wire, Drain, ClosePool, Exit
  <2> QED  BY <2>1, <2>2
<1>2. CASE Migrate \/ Rest \/ UNCHANGED allVars
  BY <1>2 DEF Migrate, Rest
<1>3. CASE Terminating
  BY <1>3 DEF Terminating, TerminateSteps, TerminateWait, WaitEnter, WaitWake, WaitReturn,
              WaitStep, TerminateCloseJobs, TerminateStopWorker, TerminateClosePool, CallerStep
<1>4. CASE QueueDispatcher
  BY <1>4 DEF QueueDispatcher, Dispatcher, DispatchReceive, DispatchPick, DispatchHand, HandTo,
              DispatchStep
<1>5. CASE \E w \in Workers : QueueWorker(w)
  BY <1>5 DEF QueueWorker, WorkerRepool, WorkerDone, WorkerQuit, WorkerStopped
<1>6. CASE \E j \in Jobs : Handler(j)
  BY <1>6 DEF Handler, Push, PushCheck, PushAdd, PushSend, PushStep
<1>7. CASE Signal \/ Receive \/ Tick \/ Stop \/ Exec
  BY <1>7 DEF Signal, Receive, Tick, Stop, Exec, Acquire, ExecOK, ExecError, BW!SignalStop,
              BW!Receive, BW!Tick, BW!Stop, BW!Take, BW!Select, BW!ExecOK, BW!ExecError,
              BW!Upsert, BW!FlushReturns
<1> QED  BY <1>1, <1>2, <1>3, <1>4, <1>5, <1>6, <1>7 DEF MainNext

(* A job that runs sends one record.                                       *)
LEMMA RunSendsOne ==
  ASSUME IInv, RecordsCounted, NEW w \in Workers, RunJob(w)
  PROVE  RecordsCounted'
<1> DEFINE j == wjob[w]
<1>1. WorkerRunJob(w) /\ sent' = sent + 1
  BY DEF RunJob, BW!Send
<1>2. j \in Jobs /\ stage[j] = "running"
  BY <1>1, HeldJob DEF WorkerRunJob, WorkerStep, Busy, HeldStage
<1>3. ran \in [Jobs -> Nat] /\ ran[j] = 0 /\ ran' = [ran EXCEPT ![j] = @ + 1]
  BY <1>1, <1>2 DEF WorkerRunJob, IInv, TypeOK, RanOnce
<1> HIDE DEF j
<1>4. JobsRun' = JobsRun \cup {j} /\ j \notin JobsRun /\ JobsRun \subseteq Jobs
  BY <1>2, <1>3 DEF JobsRun
<1>5. IsFiniteSet(JobsRun)
  BY <1>4, FS_Subset, QueueAssumption
<1>6. Cardinality(JobsRun') = Cardinality(JobsRun) + 1
  BY <1>4, <1>5, FS_AddElement
<1> QED  BY <1>1, <1>6 DEF RecordsCounted

(* A worker that is about to run its job has a job that has not run.       *)
LEMMA SendersHaveRoom ==
  ASSUME IInv, RecordsCounted
  PROVE  SendersUncounted
<1> SUFFICES ASSUME NEW w \in Workers, wpc[w] = "running" PROVE sent < Cardinality(Jobs)
  BY DEF SendersUncounted
<1> DEFINE j == wjob[w]
<1>1. j \in Jobs /\ stage[j] = "running"
  BY HeldJob DEF Busy, HeldStage
<1>2. j \notin JobsRun /\ JobsRun \subseteq Jobs
  BY <1>1 DEF JobsRun, IInv, RanOnce
<1> HIDE DEF j
<1>3. JobsRun # Jobs
  BY <1>1, <1>2
<1>4. Cardinality(JobsRun) < Cardinality(Jobs)
  <2>1. IsFiniteSet(Jobs)
    BY QueueAssumption
  <2>2. IsFiniteSet(JobsRun) /\ Cardinality(JobsRun) <= Cardinality(Jobs)
    BY <1>2, <2>1, FS_Subset
  <2>3. Cardinality(JobsRun) # Cardinality(Jobs)
    BY <1>2, <1>3, <2>1, FS_Subset
  <2>4. Cardinality(JobsRun) \in Nat /\ Cardinality(Jobs) \in Nat
    BY <2>1, <2>2, FS_CardinalityType
  <2> QED  BY <2>2, <2>3, <2>4
<1> QED  BY <1>4 DEF RecordsCounted

(* A job of the process sends exactly one record: as many are sent as jobs *)
(* have run, and the bound that BatchWorker puts on sends never stands in  *)
(* the way of a job, only the room in the channel does.                    *)
THEOREM EachJobSendsOneRecord == MainSpec => [](RecordsCounted /\ SendersUncounted)
<1>1. MainInit => RecordsCounted
  <2> SUFFICES ASSUME MainInit PROVE RecordsCounted
    OBVIOUS
  <2>1. sent = 0 /\ ran = [j \in Jobs |-> 0]
    BY DEF MainInit, Init, BW!Init
  <2>2. JobsRun = {}
    BY <2>1 DEF JobsRun
  <2> QED  BY <2>1, <2>2, FS_EmptySet DEF RecordsCounted
<1>2. IInv /\ RecordsCounted /\ [MainNext]_allVars => RecordsCounted'
  <2> SUFFICES ASSUME IInv, RecordsCounted, [MainNext]_allVars PROVE RecordsCounted'
    OBVIOUS
  <2>1. CASE \E w \in Workers : RunJob(w)
    BY <2>1, RunSendsOne
  <2>2. CASE ~\E w \in Workers : RunJob(w)
    BY <2>2, OthersSendNothing DEF RecordsCounted, JobsRun
  <2> QED  BY <2>1, <2>2
<1>3. IInv /\ RecordsCounted => SendersUncounted
  BY SendersHaveRoom
<1> QED  BY <1>1, <1>2, <1>3, ProcessRunsQueue, QueueInvariant, PTL DEF MainSpec

(* When the deferred Terminate passes wg.Wait, every job that was counted  *)
(* has handed its record to the writer's channel: one for each, and none   *)
(* for a push that was turned away or has not come to wg.Add.              *)
THEOREM WaitCoversRecords ==
  MainSpec => [][~PastWait /\ PastWait' =>
                   /\ \A j \in Jobs : stage[j] \in {"idle", "checked", "dropped", "done"}
                   /\ sent = Cardinality({j \in Jobs : stage[j] = "done"})]_allVars
<1>1. ASSUME IInv, RecordsCounted, [MainNext]_allVars, ~PastWait, PastWait'
      PROVE  /\ \A j \in Jobs : stage[j] \in {"idle", "checked", "dropped", "done"}
             /\ sent = Cardinality({j \in Jobs : stage[j] = "done"})
  <2>1. \A j \in Jobs : stage[j] \notin InFlight
    BY <1>1, StepOfQueue, PassesAtZero DEF InFlightJobs
  <2>2. \A j \in Jobs : stage[j] \in {"idle", "checked", "dropped", "done"}
    BY <1>1, <2>1 DEF IInv, TypeOK, Stages, InFlight
  <2>3. JobsRun = {j \in Jobs : stage[j] = "done"}
    BY <1>1, <2>2 DEF IInv, RanOnce, JobsRun
  <2> QED  BY <1>1, <2>2, <2>3 DEF RecordsCounted
<1>2. IInv /\ RecordsCounted /\ [MainNext]_allVars =>
        [~PastWait /\ PastWait' =>
           /\ \A j \in Jobs : stage[j] \in {"idle", "checked", "dropped", "done"}
           /\ sent = Cardinality({j \in Jobs : stage[j] = "done"})]_allVars
  BY <1>1
<1> QED  BY <1>2, EachJobSendsOneRecord, ProcessRunsQueue, QueueInvariant, PTL DEF MainSpec
=============================================================================
