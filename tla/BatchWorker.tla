---------------------------- MODULE BatchWorker ----------------------------
(***************************************************************************)
(* The batch writer, internal/batch/worker.go: one goroutine that selects  *)
(* on the record channel, a ticker and the stop channel, collects records  *)
(* in a buffer and writes the buffer with one INSERT ... ON CONFLICT.      *)
(*                                                                         *)
(* A record stands for its data by the number n of its send; of its fields *)
(* only global_uid and whether composition_id is a UUID (the column's      *)
(* type) matter to the statement.  A row keeps the number of the record    *)
(* that last wrote its deleted_at and raw, the columns the upsert          *)
(* refreshes.                                                              *)
(***************************************************************************)
EXTENDS Naturals, Sequences, FiniteSets

CONSTANTS
  UIDs,       (* global_uids of the watched objects                        *)
  MaxBatch,   (* WorkerOpts.MaxBatch: 50 in main.go                        *)
  ChanCap,    (* capacity of recordChan: 100 in main.go                    *)
  MaxSends,   (* bound: records sent in a behaviour                        *)
  NoRow       (* an object without a row                                   *)

ASSUME BatchAssumption ==
  /\ MaxBatch \in Nat \ {0}
  /\ ChanCap \in Nat \ {0}
  /\ MaxSends \in Nat
  /\ IsFiniteSet(UIDs)
  /\ NoRow \notin Nat

Record == [uid : UIDs, n : Nat, uuid : BOOLEAN]

VARIABLES
  recordChan,    (* chan InsertRecord                                      *)
  buffer,        (* Worker.buffer                                          *)
  pc,            (* "select", or in flush from the loop or from the stop   *)
  stop,          (* the stop channel is closed                             *)
  refreshed,     (* the table: the record number of each row               *)
  sent           (* number of the last record sent                         *)

vars == <<recordChan, buffer, pc, stop, refreshed, sent>>

Init ==
  /\ recordChan = <<>> /\ buffer = <<>>
  /\ pc = "select" /\ stop = FALSE
  /\ refreshed = [u \in UIDs |-> NoRow]
  /\ sent = 0

-----------------------------------------------------------------------------
(* hasCompositionId, as far as the column's type can tell: the object's    *)
(* composition-id label, which anybody may have written, or, when it has   *)
(* none, its UID.                                                          *)
CompositionLabels == {"absent", "uuid", "other"}

hasCompositionId(label) == label \in {"absent", "uuid"}

(* InsertRecordJob.Job on a worker of the job queue: blocks while          *)
(* recordChan is full.                                                     *)
Send(u, uuid) ==
  /\ sent < MaxSends
  /\ Len(recordChan) < ChanCap
  /\ recordChan' = Append(recordChan, [uid |-> u, n |-> sent + 1, uuid |-> uuid])
  /\ sent' = sent + 1
  /\ UNCHANGED <<buffer, pc, stop, refreshed>>

(* rootCtx is cancelled.                                                   *)
SignalStop ==
  /\ ~stop
  /\ stop' = TRUE
  /\ UNCHANGED <<recordChan, buffer, pc, refreshed, sent>>

(* A case of the select in Run, which goes on at the given place.          *)
Select(to) == pc = "select" /\ pc' = to /\ UNCHANGED <<stop, refreshed, sent>>

(* case rec := <-w.input, with the test that makes a batch full.           *)
Take(full) ==
  /\ Select(IF full THEN "flush" ELSE "select")
  /\ recordChan # <<>>
  /\ buffer' = Append(buffer, Head(recordChan))
  /\ recordChan' = Tail(recordChan)

(* Mutant: the buffer may outgrow the batch by one.                        *)
ReceiveOverfull == Take(Len(buffer) + 1 > MaxBatch)

Receive == Take(Len(buffer) + 1 >= MaxBatch)

(* Mutant: the ticker flushes full batches only.                           *)
TickFullOnly ==
  Len(buffer) >= MaxBatch /\ Select("flush") /\ UNCHANGED <<recordChan, buffer>>

(* case <-ticker.C; a tick on an empty buffer changes nothing.             *)
Tick == buffer # <<>> /\ Select("flush") /\ UNCHANGED <<recordChan, buffer>>

(* Mutant: the worker returns on stop without its last flush.              *)
StopUnflushed == stop /\ Select("stopped") /\ UNCHANGED <<recordChan, buffer>>

(* Mutant: the stop case does not return.                                  *)
StopNoReturn ==
  /\ stop
  /\ Select(IF buffer # <<>> THEN "flush" ELSE "select")
  /\ UNCHANGED <<recordChan, buffer>>

(* case <-stop                                                             *)
Stop ==
  /\ stop
  /\ Select(IF buffer # <<>> THEN "lastflush" ELSE "stopped")
  /\ UNCHANGED <<recordChan, buffer>>

-----------------------------------------------------------------------------
(* sync: the map seen keeps the last record of every global_uid.           *)

(* Mutant: the first record of an object wins.                             *)
FirstIndex(u) ==
  CHOOSE i \in 1..Len(buffer) :
    buffer[i].uid = u /\ \A k \in 1..Len(buffer) : buffer[k].uid = u => i <= k

LastIndex(u) ==
  CHOOSE i \in 1..Len(buffer) :
    buffer[i].uid = u /\ \A k \in 1..Len(buffer) : buffer[k].uid = u => k <= i

Keys == {buffer[i].uid : i \in 1..Len(buffer)}

(* Mutant: the buffer goes into the statement as it is.                    *)
recordsNotDeduplicated == {buffer[i] : i \in 1..Len(buffer)}

records == {buffer[LastIndex(u)] : u \in Keys}

(* Postgres: a statement is refused as a whole when a row's composition_id *)
(* is no UUID, and when ON CONFLICT would touch a row a second time.       *)
Acceptable(rs) ==
  /\ \A r \in rs : r.uuid
  /\ \A r, q \in rs : r.uid = q.uid => r = q

(* INSERT ... ON CONFLICT (global_uid) DO UPDATE SET deleted_at, raw       *)
Upsert ==
  refreshed' = [u \in UIDs |-> IF u \in Keys THEN buffer[LastIndex(u)].n
                                 ELSE refreshed[u]]

Flushing == pc \in {"flush", "lastflush"}

(* Mutant: the buffer is not reset.                                        *)
FlushKeepsBuffer ==
  /\ pc' = IF pc = "flush" THEN "select" ELSE "stopped"
  /\ UNCHANGED <<recordChan, buffer, stop, sent>>

(* flush resets the buffer whatever became of the statement, and returns   *)
(* to the loop or, after a stop, out of Run.                               *)
FlushReturns ==
  /\ buffer' = <<>>
  /\ pc' = IF pc = "flush" THEN "select" ELSE "stopped"
  /\ UNCHANGED <<recordChan, stop, sent>>

(* Exec succeeds.                                                          *)
ExecOK ==
  /\ Flushing
  /\ Acceptable(records)
  /\ Upsert
  /\ FlushReturns

(* Exec returns an error: the statement was refused, the connection failed *)
(* before it ran, or failed after it was committed.                        *)
ExecError ==
  /\ Flushing
  /\ UNCHANGED refreshed \/ (Acceptable(records) /\ Upsert)
  /\ FlushReturns

-----------------------------------------------------------------------------
(* The worker has returned and nobody is sending: senders may be left      *)
(* blocked on a full channel.                                              *)
Finished ==
  /\ pc = "stopped"
  /\ sent = MaxSends \/ Len(recordChan) = ChanCap
  /\ UNCHANGED vars

Exec == ExecOK \/ ExecError

Next ==
  \/ \E u \in UIDs, label \in CompositionLabels : Send(u, hasCompositionId(label))
  \/ SignalStop
  \/ Receive
  \/ Tick
  \/ Stop
  \/ ExecOK
  \/ ExecError
  \/ Finished

Spec == Init /\ [][Next]_vars

(* The goroutine runs, the ticker ticks and Exec returns; the select picks *)
(* at random among ready cases, so a stop signal is not passed over for    *)
(* ever.                                                                   *)
Fairness == WF_vars(Receive) /\ WF_vars(Tick) /\ WF_vars(Exec) /\ SF_vars(Stop)

FairSpec == Spec /\ Fairness

-----------------------------------------------------------------------------
(* Type invariant: above all, a flush never holds more than MaxBatch       *)
(* records, which keeps the statement's parameters below Postgres's limit, *)
(* and the loop never holds a full batch back.                             *)
TypeOK ==
  /\ recordChan \in Seq(Record) /\ Len(recordChan) <= ChanCap
  /\ buffer \in Seq(Record) /\ Len(buffer) <= MaxBatch
  /\ pc \in {"select", "flush", "lastflush", "stopped"}
  /\ pc = "select" => Len(buffer) < MaxBatch
  /\ stop \in BOOLEAN
  /\ refreshed \in [UIDs -> Nat \cup {NoRow}]
  /\ sent \in 0..MaxSends

(* Whatever mixture of updates of the same objects a batch collects, the   *)
(* statement built from it is one Postgres can execute, as long as its     *)
(* composition_ids are UUIDs.                                              *)
HealthyBatchAccepted ==
  Flushing /\ (\A i \in 1..Len(buffer) : buffer[i].uuid) => Acceptable(records)

(* When the worker has returned, every record it took from the channel has *)
(* been submitted to the database.                                         *)
StopSubmitsBuffer == pc = "stopped" => buffer = <<>>

(* A record of object u that is in the channel or in the buffer is no      *)
(* older than the row: what is still to be written never undoes what was.  *)
PendingIsNewer ==
  \A u \in UIDs : refreshed[u] # NoRow =>
    /\ \A i \in 1..Len(buffer) : buffer[i].uid = u => refreshed[u] < buffer[i].n
    /\ \A i \in 1..Len(recordChan) : recordChan[i].uid = u => refreshed[u] < recordChan[i].n

(* The batch writer implements the last-write-wins store: batches leave in *)
(* the order of the channel, and each one is written or lost as a whole.   *)
Store == INSTANCE LastWriteStore WITH
           NoRecord <- NoRow, pending <- buffer \o recordChan, db <- refreshed

RefinesStore == Store!Spec

(* Every record sent is submitted in the end, full batch or not, unless    *)
(* the worker is stopped first.                                            *)
Waiting(k) == \/ \E i \in 1..Len(recordChan) : recordChan[i].n = k
              \/ \E i \in 1..Len(buffer) : buffer[i].n = k

EventuallySubmitted == \A k \in 1..MaxSends : Waiting(k) ~> (~Waiting(k) \/ stop)

(* A stop signal ends the worker.                                          *)
StopEnds == stop ~> pc = "stopped"
=============================================================================
