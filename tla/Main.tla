-------------------------------- MODULE Main --------------------------------
(***************************************************************************)
(* The life of the process, main.go: configuration, telemetry, the         *)
(* readiness check of the database (pgcheck.go), the start of the batch    *)
(* writer and of the job queue, and the shutdown that a signal begins.     *)
(* It composes ChanQueue, whose caller is main(), with BatchWorker, whose  *)
(* stop channel is rootCtx.Done(): a job of the queue sends its record to  *)
(* the writer's channel.                                                   *)
(*                                                                         *)
(* main() ends the process, and every goroutine with it, by returning or   *)
(* by os.Exit(1), whose deferred calls do not run.  Which object a record  *)
(* is of does not matter here: there is one.                               *)
(***************************************************************************)
EXTENDS ChanQueue

CONSTANTS
  MaxBatch, ChanCap, NoRow,   (* see BatchWorker                           *)
  Expected,     (* columns of expectedColumns                              *)
  Written,      (* those that the INSERT names: all but id                 *)
  Foreign,      (* columns that are not                                    *)
  Absent        (* no table of that name                                   *)

ASSUME MainAssumption ==
  /\ Expected \cap Foreign = {} /\ Written \subseteq Expected
  /\ ~JoinPushers
  /\ MaxBatch \in Nat \ {0} /\ ChanCap \in Nat \ {0} /\ NoRow \notin Nat

VARIABLES
  main,         (* where main() is                                         *)
  signalled,    (* rootCtx is cancelled                                    *)
  table,        (* krateo_resources: the types of its columns, or Absent   *)
  live,         (* the columns that validateSchema has read                *)
  pool, conn,   (* the pgxpool, and whether the writer holds a connection  *)
  flowing,      (* the routers were started before rootCtx was cancelled   *)
  owed,         (* history: the jobs in flight when Terminate was called   *)
  recordChan, buffer, bpc, refreshed, sent    (* see BatchWorker           *)

Object == "object"

BW == INSTANCE BatchWorker WITH
        UIDs <- {Object}, MaxSends <- Cardinality(Jobs), pc <- bpc, stop <- signalled

batchVars == <<recordChan, buffer, bpc, refreshed, sent>>
mainVars == <<main, signalled, table, live, pool, conn, flowing, owed>>
allVars == <<vars, mainVars, batchVars>>

(* Types are compared with EqualFold: "want" stands for the wanted type of *)
(* a column in any case, "other" for every other type, and for that of a   *)
(* foreign column, which nobody looks at.                                  *)
Tables ==
  {t \in UNION {[cols -> {"want", "other"}] : cols \in SUBSET (Expected \cup Foreign)} :
     \A c \in DOMAIN t \cap Foreign : t[c] = "other"}

NoColumns == [c \in {} |-> "want"]

MainInit ==
  /\ Init /\ BW!Init
  /\ main = "config"
  /\ table \in Tables \cup {Absent} /\ live = NoColumns
  /\ pool = "none" /\ conn = FALSE
  /\ flowing = FALSE /\ owed = {}

Alive == ~panicked /\ main \notin {"exited", "failed"}

(* A step of main() that leaves queue and writer alone.                    *)
MainStep(from, to) ==
  /\ ~panicked
  /\ main = from /\ main' = to
  /\ UNCHANGED <<vars, batchVars, signalled, table, conn, owed>>

(* It leaves these alone as well.                                          *)
Alone == UNCHANGED <<live, pool, flowing>>

-----------------------------------------------------------------------------
(* config.Setup: DB_PARAMS may not parse, the URL may not be built.        *)
Setup == \E to \in {"telemetry", "failed"} : MainStep("config", to) /\ Alone

(* telemetry.Setup: disabled, or exporter, resource and instruments are    *)
(* made, any of which may fail.                                            *)
Telemetry == \E to \in {"connect", "failed"} : MainStep("telemetry", to) /\ Alone

(* WaitForPostgres.  Its context is cancelled by a signal, and its queries *)
(* fail from then on.  Phase 1: the database answers.                      *)
Connect ==
  ~signalled /\ MainStep("connect", "table") /\ pool' = "open" /\ UNCHANGED <<live, flowing>>

(* Phase 2 finds the table; as long as it does not, it tries again.        *)
TableExists == ~signalled /\ table # Absent /\ MainStep("table", "schema") /\ Alone

(* Phase 3, validateSchema, is tried once: read the columns, of which a    *)
(* table that was dropped meanwhile has none ...                           *)
QueryColumns ==
  /\ ~signalled
  /\ MainStep("schema", "compare")
  /\ live' = IF table = Absent THEN NoColumns ELSE table
  /\ UNCHANGED <<pool, flowing>>

(* ... and compare them.                                                   *)
Missing == Expected \ DOMAIN live
Mistyped == {c \in Expected \cap DOMAIN live : live[c] # "want"}
Extra == DOMAIN live \ Expected

(* Mutant: columns that nobody expects are tolerated.                      *)
MismatchTolerant == Missing \cup Mistyped

Mismatch == Missing \cup Mistyped \cup Extra

validateSchema ==
  /\ MainStep("compare", IF Mismatch = {} THEN "client" ELSE "failed")
  /\ pool' = IF Mismatch = {} THEN pool ELSE "closed"
  /\ UNCHANGED <<live, flowing>>

(* Mutant: the table is waited for without a deadline.                     *)
DeadlineWhileConnecting ==
  MainStep("connect", "failed") /\ Alone

(* DB_READY_TIMEOUT has passed, a signal came, or a query failed: the pool *)
(* is closed and the process exits.                                        *)
Deadline ==
  /\ \E at \in {"connect", "table", "schema"} : MainStep(at, "failed")
  /\ pool' = IF pool = "open" THEN "closed" ELSE pool
  /\ UNCHANGED <<live, flowing>>

(* The Kubernetes client, then the batch writer and the job queue.         *)
ClientFails == MainStep("client", "failed") /\ Alone

Launch ==
  /\ main = "client" /\ main' = "wire"
  /\ Run
  /\ UNCHANGED <<batchVars, signalled, table, live, pool, conn, flowing, owed>>

(* The managers, the worker pool and the static routers, after which       *)
(* events begin to flow; informers that are started after a signal stop at *)
(* once and list nothing.                                                  *)
Wire ==
  \E to \in {"serving", "failed"} :
    MainStep("wire", to) /\ flowing' = ~signalled /\ UNCHANGED <<live, pool>>

Starting == main \in {"config", "telemetry", "connect", "table", "schema", "compare",
                      "client", "wire"}

(* Somebody creates, alters or drops the table, at any time (external).    *)
(* Rows that are lost with it are not the ingester's: refreshed stays the  *)
(* last record that the database accepted.                                 *)
Migrate ==
  /\ Alive
  /\ table' \in (Tables \cup {Absent}) \ {table}
  /\ UNCHANGED <<vars, batchVars, main, signalled, live, pool, conn, flowing, owed>>

(* SIGINT or SIGTERM, once NotifyContext has been called.                  *)
Signal ==
  /\ Alive /\ main # "config"
  /\ BW!SignalStop
  /\ UNCHANGED <<vars, main, table, live, pool, conn, flowing, owed>>

-----------------------------------------------------------------------------
(* <-rootCtx.Done(), q.ShutDown, wgpool.Wait: the workers of the router    *)
(* pool finish what the shared queue holds.  Handlers of events that they  *)
(* published are joined by nobody.                                         *)
Drain == signalled /\ MainStep("serving", "drained") /\ Alone

(* hs.Shutdown, then the deferred calls: jobQueue.Terminate ...            *)
CallTerminate ==
  /\ main = "drained" /\ main' = "terminating"
  /\ Terminate
  /\ owed' = InFlightJobs
  /\ UNCHANGED <<batchVars, signalled, table, live, pool, conn, flowing>>

(* Mutant: the deferred calls come in another order, pool.Close first.     *)
ClosePoolFirst ==
  MainStep("terminating", "closing") /\ pool' = "closing" /\ UNCHANGED <<live, flowing>>

(* ... pool.Close, which waits for the connections that are in use ...     *)
ClosePool ==
  /\ caller = "done"
  /\ MainStep("terminating", "closing") /\ pool' = "closing" /\ UNCHANGED <<live, flowing>>

(* ... and shutdownMetrics, after which main() returns.                    *)
Exit ==
  ~conn /\ MainStep("closing", "exited") /\ pool' = "closed" /\ UNCHANGED <<live, flowing>>

MainSteps ==
  \/ Setup \/ Telemetry \/ Connect \/ TableExists \/ QueryColumns \/ validateSchema
  \/ Deadline \/ ClientFails \/ Launch \/ Wire
  \/ Drain \/ CallTerminate \/ ClosePool \/ Exit

-----------------------------------------------------------------------------
(* The goroutines of the queue.  An InsertRecordJob sends its record, and  *)
(* blocks while recordChan is full.                                        *)
Elsewhere == Alive /\ UNCHANGED mainVars

RunJob(w) == Elsewhere /\ WorkerRunJob(w) /\ BW!Send(Object, TRUE)

QueueWorker(w) ==
  \/ RunJob(w)
  \/ /\ Elsewhere /\ UNCHANGED batchVars
     /\ WorkerRepool(w) \/ WorkerDone(w) \/ WorkerQuit(w) \/ WorkerStopped(w)

QueueDispatcher == Elsewhere /\ UNCHANGED batchVars /\ Dispatcher

Terminating == Elsewhere /\ UNCHANGED batchVars /\ TerminateSteps

Handler(j) == flowing /\ Elsewhere /\ UNCHANGED batchVars /\ Push(j)

(* The batch writer.  pool.Exec takes a connection, which a pool that is   *)
(* being closed refuses, and gives it back.                                *)
WriterStep(step) ==
  Alive /\ caller # "created" /\ step
    /\ UNCHANGED <<vars, main, table, live, pool, flowing, owed>>

Acquire ==
  WriterStep(BW!Flushing /\ ~conn /\ pool = "open" /\ conn' = TRUE
               /\ UNCHANGED <<batchVars, signalled>>)

(* The table has the columns that the statement names; a type that is not  *)
(* the wanted one may do.                                                  *)
Takes == table # Absent /\ Written \subseteq DOMAIN table

ExecOK == WriterStep(conn /\ Takes /\ BW!ExecOK /\ conn' = FALSE)

ExecError ==
  WriterStep(/\ conn \/ pool # "open"
             /\ (conn /\ Takes) \/ UNCHANGED refreshed
             /\ BW!ExecError /\ conn' = FALSE)

Receive == WriterStep(BW!Receive /\ UNCHANGED conn)
Tick == WriterStep(BW!Tick /\ UNCHANGED conn)
Stop == WriterStep(BW!Stop /\ UNCHANGED conn)
Exec == Acquire \/ ExecOK \/ ExecError

-----------------------------------------------------------------------------
Over == ~Alive

(* The process hangs: Terminate waits for a job, which waits for room in   *)
(* the channel of the writer, which has left.                              *)
Stalled ==
  /\ caller = "blocked" /\ bpc = "stopped" /\ Len(recordChan) = ChanCap
  /\ \E w \in Workers : wpc[w] = "running"

Rest == (Over \/ Stalled) /\ UNCHANGED allVars

MainNext ==
  \/ MainSteps \/ Migrate \/ Signal
  \/ Terminating \/ QueueDispatcher
  \/ \E w \in Workers : QueueWorker(w)
  \/ \E j \in Jobs : Handler(j)
  \/ Receive \/ Tick \/ Stop \/ Exec
  \/ Rest

MainSpec == MainInit /\ [][MainNext]_allVars

(* main() and the goroutines run; waiting for the database ends, by its    *)
(* deadline at the latest, and statements are answered.  Nobody is obliged *)
(* to migrate, to push or to send a signal.                                *)
MainFairSpec ==
  /\ MainSpec
  /\ WF_allVars(MainSteps) /\ WF_allVars(Terminating) /\ WF_allVars(QueueDispatcher)
  /\ \A w \in Workers : WF_allVars(QueueWorker(w))
  /\ \A j \in Jobs : WF_allVars(Handler(j) /\ stage[j] # "idle")
  /\ WF_allVars(Receive) /\ WF_allVars(Tick) /\ SF_allVars(Stop) /\ WF_allVars(Exec)

-----------------------------------------------------------------------------
(* Type invariant: that of the queue, that of the writer, and the pool is  *)
(* open from the check of the table to the end of Terminate.               *)
MainTypeOK ==
  /\ TypeOK /\ BW!TypeOK
  /\ table \in Tables \cup {Absent} /\ live \in Tables
  /\ flowing \in BOOLEAN /\ owed \subseteq Jobs
  /\ pool \in {"none", "open", "closing", "closed"} /\ conn \in BOOLEAN
  /\ caller # "created" /\ caller # "done" => pool = "open"
  /\ conn => BW!Flushing

(* Nothing is accepted, let alone written, unless the columns that were    *)
(* read at one moment of the start-up were exactly the expected ones, of   *)
(* the expected types, with migrations before, between and after the       *)
(* phases of the check.  Later migrations go unnoticed: statements fail.   *)
ServesOnCheckedSchema ==
  caller # "created" \/ refreshed[Object] # NoRow => live = [c \in Expected |-> "want"]

(* However the process ends after a signal, by the return of main() or by  *)
(* a panic of a late Push (a closed channel, or a WaitGroup that is being  *)
(* released), the jobs that were in flight when Terminate was called have  *)
(* all been run before.  There is no panic without a signal.               *)
OwedJobsRun ==
  panicked \/ main = "exited" => signalled /\ \A j \in owed : stage[j] = "done"

(* Start-up comes to a decision: the ingester serves or it exits.          *)
StartupDecides == <>(~Starting)

(* After a signal the process ends, unless the batch writer left with jobs *)
(* blocked on its full channel: then Terminate waits for them for ever.    *)
(* Nothing else keeps it from ending.                                      *)
ShutdownEndsUnlessStalled == signalled ~> (Over \/ Stalled)

(* README, Key Components: "Handle graceful shutdown".  After a signal the *)
(* process ends.                                                           *)
ShutdownEnds == signalled ~> Over
=============================================================================
