---------------------------- MODULE StorageFlow ----------------------------
(***************************************************************************)
(* From an event on the bus to a row: the storage manager's handler        *)
(* (storage.go), one goroutine for each published event, composed with the *)
(* router and its worker pool.  The handler reads and writes the object    *)
(* that the informer's store, queue items and other events point to.       *)
(*                                                                         *)
(* The records it pushes go through the job queue, whose workers run in no *)
(* particular order (ChanQueue), and through the batch writer, which lets  *)
(* the last record win (BatchWorker): here they reach the table one by one *)
(* in any order, and the database accepts them.                            *)
(***************************************************************************)
EXTENDS RouterPool

VARIABLES
  subscribed, missed,   (* Subscribe was called; the events published before *)
  handler,   (* the handlers started: [pc, deleted], by the event's number *)
  row        (* the table: [version, deleted] by uid                       *)

flowVars == <<vars, subscribed, missed, handler, row>>

StorageEvents == {i \in DOMAIN bus \ missed : bus[i].target = "STORAGE"}

Pc(i) == IF i \in DOMAIN handler THEN handler[i].pc ELSE "start"

FlowInit == Init /\ subscribed = FALSE /\ missed = {} /\ handler = <<>> /\ row = <<>>

-----------------------------------------------------------------------------
(* The events of the kind, and the rest of the ingester, go on.            *)
Unstored == UNCHANGED <<subscribed, missed, handler, row>>
Upstream == Next /\ Unstored

(* storage.Run subscribes, in a goroutine of its own; what was published   *)
(* before is delivered to nobody.                                          *)
Subscribe ==
  /\ ~crashed /\ ~subscribed
  /\ subscribed' = TRUE /\ missed' = DOMAIN bus
  /\ UNCHANGED <<vars, handler, row>>

Elsewhere == <<cluster, informer, workqueue, worker, retries, registering, bus, subscribed,
               missed>>

(* The handler of event i goes on from one of the places to another.       *)
HandlerStep(i, from, to, mark) ==
  /\ ~crashed /\ subscribed
  /\ Pc(i) \in from
  /\ handler' = [k \in DOMAIN handler \cup {i} |->
                   IF k = i THEN [pc |-> to, deleted |-> mark] ELSE handler[k]]
  /\ UNCHANGED <<Elsewhere, crashed>>

Inspected(op, dt) ==
  CASE op = "UPDATE" -> IF dt THEN "clear" ELSE "build"
    [] op = "DELETE" -> IF dt THEN "build" ELSE "set"

(* Mutant: the cases of the switch are exchanged.                          *)
InspectExchanged(i) ==
  /\ HandlerStep(i, {"start"}, Inspected(IF bus[i].op = "UPDATE" THEN "DELETE" ELSE "UPDATE",
                                          heap[bus[i].obj].dt), FALSE)
  /\ UNCHANGED <<heap, row>>

(* The switch on the event's type, up to the test of the timestamp.        *)
Inspect(i) ==
  /\ HandlerStep(i, {"start"}, Inspected(bus[i].op, heap[bus[i].obj].dt), FALSE)
  /\ UNCHANGED <<heap, row>>

(* SetDeletionTimestamp(nil) or SetDeletionTimestamp(&now).                *)
Stamp(i) ==
  /\ HandlerStep(i, {"clear", "set"}, "build", FALSE)
  /\ heap' = [heap EXCEPT ![bus[i].obj].dt = (Pc(i) = "set")]
  /\ UNCHANGED row

(* Mutant: objects that carry a deletion timestamp are not recorded.       *)
BuildSkipsTerminating(i) ==
  /\ HandlerStep(i, {"build"}, IF heap[bus[i].obj].dt THEN "stored" ELSE "pushed", FALSE)
  /\ UNCHANGED <<heap, row>>

(* buildRecord and Push.                                                   *)
Build(i) ==
  /\ HandlerStep(i, {"build"}, "pushed", heap[bus[i].obj].dt)
  /\ UNCHANGED <<heap, row>>

(* The runtime notices that one handler writes an object's metadata map    *)
(* while another one works on the same object.                             *)
Race(i) ==
  /\ ~crashed
  /\ Pc(i) \in {"clear", "set"}
  /\ \E k \in StorageEvents \ {i} :
       bus[k].obj = bus[i].obj /\ Pc(k) \notin {"pushed", "stored"}
  /\ crashed' = TRUE
  /\ UNCHANGED <<Elsewhere, heap, handler, row>>

(* The record reaches the table: raw and deleted_at are overwritten.       *)
Store(i) ==
  /\ HandlerStep(i, {"pushed"}, "stored", handler[i].deleted)
  /\ LET uid == heap[bus[i].obj].uid
     IN  row' = [u \in DOMAIN row \cup {uid} |->
                   IF u = uid THEN [version |-> bus[i].obj, deleted |-> handler[i].deleted]
                              ELSE row[u]]
  /\ UNCHANGED heap

Storage(i) == Inspect(i) \/ Stamp(i) \/ Build(i) \/ Store(i)

FlowNext ==
  \/ Upstream
  \/ Subscribe
  \/ \E i \in StorageEvents : Storage(i) \/ Race(i)

FlowSpec == FlowInit /\ [][FlowNext]_flowVars

(* The router's handlers run, and as long as an informer, a worker, a      *)
(* back-off, the subscription or a storage handler has something to do,    *)
(* one of them does it.  Nothing obliges the cluster or the manager.       *)
Goroutines ==
  \/ /\ Unstored
     /\ \/ \E n \in Names : Informer(n)
        \/ \E w \in PoolWorkers : Process(w)
        \/ \E item \in delayed : RetryDue(item)
  \/ Subscribe
  \/ \E i \in StorageEvents : Storage(i)

FlowFairSpec == FlowSpec /\ WF_flowVars(Router /\ Unstored) /\ WF_flowVars(Goroutines)

-----------------------------------------------------------------------------
(* Type invariant of the storage side: only storage events have handlers,  *)
(* each takes the branch of its event, and a row is of its own object.     *)
FlowTypeOK ==
  /\ DOMAIN handler \subseteq StorageEvents
  /\ \A i \in DOMAIN handler :
       /\ handler[i] \in [pc : {"clear", "set", "build", "pushed", "stored"},
                          deleted : BOOLEAN]
       /\ handler[i].pc = "clear" => bus[i].op = "UPDATE"
       /\ handler[i].pc = "set" => bus[i].op = "DELETE"
  /\ \A u \in DOMAIN row : row[u].version \in 1..Len(heap) /\ heap[row[u].version].uid = u

AtRest == Quiet /\ ~crashed /\ subscribed /\ \A i \in StorageEvents : Pc(i) = "stored"

(* After the last change in the cluster everything that it caused is       *)
(* stored: retries, re-added items and the shared objects keep nobody busy *)
(* for ever.                                                               *)
FlowComesToRest == []<>(AtRest \/ crashed)

(* However handlers and notifications interleave on the shared objects, a  *)
(* row is marked deleted only if somebody has deleted its own object, and  *)
(* never because a predecessor or a successor of the name was deleted.     *)
NoFalseDeletion ==
  \A uid \in DOMAIN row : row[uid].deleted =>
    Gone(uid) \/ \E v \in terminating : heap[v].uid = uid

(* storage.go: "Remove the deletion timestamp until the resource is        *)
(* actually deleted".  A row is marked deleted only when its object is     *)
(* gone; one that waits for its finalizers is not.                         *)
DeletedRowsAreGone == \A uid \in DOMAIN row : row[uid].deleted => Gone(uid)

(* At rest every living object has a row, unless its key was dropped after *)
(* its retries, and so has every object that was seen to be deleted; both  *)
(* unless an event of it was published before the storage manager had      *)
(* subscribed.                                                             *)
HasRow(uid) == uid \in DOMAIN row \/ \E i \in missed : heap[bus[i].obj].uid = uid

RowForEveryObject ==
  AtRest => /\ \A n \in Names : api[n] # Nil /\ n \notin dropped => HasRow(heap[api[n]].uid)
            /\ \A uid \in deleted : HasRow(uid)

(* README, How It Works: the ingester "Sets deleted_at for delete events". *)
(* At rest, the row of an object whose delete event was published and      *)
(* stored is marked deleted.                                               *)
GoneRowsMarked ==
  AtRest => \A i \in StorageEvents :
    LET uid == heap[bus[i].obj].uid
    IN  bus[i].op = "DELETE" /\ Gone(uid) => row[uid].deleted
=============================================================================
