----------------------------- MODULE RouterPool -----------------------------
(***************************************************************************)
(* From a change in the cluster to an event on the bus: the informer's     *)
(* cache and its notifications, the router's handlers (router.go), the     *)
(* shared rate-limited work queue and the pool of workers that reconcile   *)
(* its items (workpool.go, handler.go), for the informer of one kind.      *)
(*                                                                         *)
(* The API server, the informer, the work queue and the bus are external;  *)
(* they are modelled as the code uses them.  heap[v] is the decoded object *)
(* of resource version v: caches, queue items and events share pointers,   *)
(* so they all hold v, and a write through one is seen through the others. *)
(***************************************************************************)
EXTENDS Naturals, Sequences, Functions

CONSTANTS
  Names,         (* the objects' namespace/name keys                       *)
  PoolWorkers,   (* goroutines of the pool: 10 in main.go                  *)
  MaxRequeues,   (* retries of an item before it is dropped: 5             *)
  IsCrd,         (* the kind is in the group apiextensions.k8s.io          *)
  AllNamespaces, (* a namespaced kind is watched in all namespaces (the    *)
                 (* default): reconcile finds its informer by the second,  *)
                 (* unlocked lookup only                                   *)
  MaxVersion     (* bound: changes in the cluster                          *)

ASSUME PoolAssumption ==
  /\ Names # {}
  /\ MaxRequeues \in Nat /\ MaxVersion \in Nat
  /\ IsCrd \in BOOLEAN /\ AllNamespaces \in BOOLEAN

Nil == 0          (* a nil pointer; no object has resource version 0       *)

Item == [name : Names, object : 0..MaxVersion]

VARIABLES
  api,           (* the cluster: current version of each object, or Nil    *)
  heap,          (* heap[v]: [name, uid, dt], dt: deletionTimestamp is set *)
  terminating,   (* versions that the API server has marked for deletion   *)
  store,         (* the informer's store: version of each object, or Nil   *)
  deleted,       (* history: uids whose deletion the informer has noticed  *)
  replaced,      (* history: uids the informer saw replaced by a successor *)
  notes,         (* notifications on their way to the router's handlers    *)
  queue, dirty, processing,   (* the work queue                            *)
  worker,        (* the pool: [pc, item]                                   *)
  delayed,       (* items waiting out their back-off                       *)
  requeues,      (* NumRequeues of each name's item                        *)
  dropped,       (* history: names dropped after MaxRequeues               *)
  registering,   (* another router is writing the pool's informer map      *)
  bus,           (* history: events published, in order                    *)
  crashed        (* the runtime found a concurrent map access              *)

cluster == <<api, terminating>>
workqueue == <<queue, dirty, processing>>
retries == <<delayed, requeues, dropped>>
informer == <<store, deleted, replaced, notes>>
vars == <<cluster, heap, informer, workqueue, worker, retries, registering,
          bus, crashed>>

Idle == [pc |-> "idle", item |-> [name |-> CHOOSE n \in Names : TRUE, object |-> Nil]]

Init ==
  /\ api = [n \in Names |-> Nil] /\ heap = <<>> /\ terminating = {}
  /\ store = [n \in Names |-> Nil] /\ deleted = {} /\ replaced = {} /\ notes = <<>>
  /\ queue = <<>> /\ dirty = {} /\ processing = {}
  /\ worker = [w \in PoolWorkers |-> Idle]
  /\ delayed = {} /\ requeues = [n \in Names |-> 0] /\ dropped = {}
  /\ registering = FALSE /\ bus = <<>> /\ crashed = FALSE

-----------------------------------------------------------------------------
(* The cluster (external).  An object's uid is its first version.          *)
NewVersion(n, uid, dt) ==
  /\ ~crashed
  /\ Len(heap) < MaxVersion
  /\ heap' = Append(heap, [name |-> n, uid |-> uid, dt |-> dt])
  /\ terminating' = terminating \cup (IF dt THEN {Len(heap) + 1} ELSE {})
  /\ UNCHANGED <<informer, workqueue, worker, retries, registering, bus, crashed>>

Create(n) ==
  /\ api[n] = Nil
  /\ NewVersion(n, Len(heap) + 1, FALSE)
  /\ api' = [api EXCEPT ![n] = Len(heap')]

(* A change or, of an object with finalizers, a delete.                    *)
Modify(n, delete) ==
  /\ api[n] # Nil
  /\ delete => api[n] \notin terminating
  /\ NewVersion(n, heap[api[n]].uid, delete \/ api[n] \in terminating)
  /\ api' = [api EXCEPT ![n] = Len(heap')]

(* The object is gone; its final version travels with the watch event.     *)
Remove(n) ==
  /\ api[n] # Nil
  /\ NewVersion(n, heap[api[n]].uid, api[n] \in terminating)
  /\ api' = [api EXCEPT ![n] = Nil]

FinalVersion(uid) == CHOOSE v \in 1..Len(heap) :
  heap[v].uid = uid /\ \A u \in v + 1..Len(heap) : heap[u].uid # uid

-----------------------------------------------------------------------------
(* The informer (external) follows the cluster, event by event or, after a *)
(* relist, in one jump to the present; the store changes first and the     *)
(* notification follows.                                                   *)
Notify(n, v, note) ==
  /\ ~crashed
  /\ store' = [store EXCEPT ![n] = v]
  /\ notes' = Append(notes, note)
  /\ UNCHANGED <<cluster, heap, workqueue, worker, retries, registering, bus, crashed>>

InformerAdd(n) ==
  /\ store[n] = Nil /\ api[n] # Nil
  /\ Notify(n, api[n], [type |-> "add", old |-> Nil, new |-> api[n]])
  /\ UNCHANGED <<deleted, replaced>>

(* After a relist, new may even be a successor of the same name.           *)
InformerUpdate(n) ==
  /\ store[n] # Nil /\ api[n] \notin {Nil, store[n]}
  /\ Notify(n, api[n], [type |-> "update", old |-> store[n], new |-> api[n]])
  /\ replaced' = replaced \cup ({heap[store[n]].uid} \ {heap[api[n]].uid})
  /\ UNCHANGED deleted

(* The watch event's object, or a tombstone with the cached one.           *)
InformerDelete(n) ==
  /\ store[n] # Nil /\ api[n] = Nil
  /\ \E v \in {FinalVersion(heap[store[n]].uid), store[n]} :
       Notify(n, Nil, [type |-> "delete", old |-> v, new |-> Nil])
  /\ deleted' = deleted \cup {heap[store[n]].uid}
  /\ UNCHANGED replaced

(* The periodic resync repeats the cached object.                          *)
InformerResync(n) ==
  /\ store[n] # Nil /\ notes = <<>>
  /\ Notify(n, store[n], [type |-> "update", old |-> store[n], new |-> store[n]])
  /\ UNCHANGED <<deleted, replaced>>

-----------------------------------------------------------------------------
(* The work queue (external): an item added while it is being processed is *)
(* queued again when its processing is done.                               *)
Add(item) ==
  /\ dirty' = dirty \cup {item}
  /\ queue' = IF item \in dirty \cup processing THEN queue ELSE Append(queue, item)
  /\ UNCHANGED processing

Get(item) ==
  /\ queue # <<>> /\ item = Head(queue)
  /\ queue' = Tail(queue)
  /\ processing' = processing \cup {item}
  /\ dirty' = dirty \ {item}

Done(item) ==
  /\ processing' = processing \ {item}
  /\ queue' = IF item \in dirty THEN Append(queue, item) ELSE queue
  /\ UNCHANGED dirty

-----------------------------------------------------------------------------
(* Router.onAdd, onUpdate and onDelete, called one notification at a time: *)
(* enqueue adds the object's key, and the object itself for deletes.       *)
KeyItem(v) == [name |-> heap[v].name, object |-> Nil]
ObjectItem(v) == [name |-> heap[v].name, object |-> v]

HandleNote(type) ==
  /\ ~crashed
  /\ notes # <<>> /\ Head(notes).type = type
  /\ notes' = Tail(notes)
  /\ UNCHANGED <<cluster, heap, store, deleted, replaced, worker, retries, registering,
                 bus, crashed>>

OnAdd == HandleNote("add") /\ Add(KeyItem(Head(notes).new))

(* Mutant: every update carries its object, as deletes do.                 *)
OnUpdateCarriesObject == HandleNote("update") /\ Add(ObjectItem(Head(notes).new))

OnUpdate ==
  /\ HandleNote("update")
  /\ LET old == Head(notes).old
         new == Head(notes).new
     IN  \/ old = new /\ UNCHANGED workqueue
         \/ old # new /\ heap[new].dt /\ Add(ObjectItem(new))
         \/ old # new /\ ~heap[new].dt /\ Add(KeyItem(new))

(* Mutant: the item of a delete does not carry the object.                 *)
OnDeleteByKey == HandleNote("delete") /\ Add(KeyItem(Head(notes).old))

OnDelete == HandleNote("delete") /\ Add(ObjectItem(Head(notes).old))

-----------------------------------------------------------------------------
(* WorkerPool.processNext: Get, reconcile, Forget or AddRateLimited, Done. *)
PoolStep(w, from) ==
  /\ ~crashed
  /\ worker[w].pc = from
  /\ UNCHANGED <<cluster, heap, informer, registering>>

ProcessGet(w) ==
  /\ PoolStep(w, "idle")
  /\ \E item \in Item : /\ Get(item)
                        /\ worker' = [worker EXCEPT ![w] = [pc |-> "got", item |-> item]]
  /\ UNCHANGED <<retries, bus, crashed>>

(* handler.Handle: publish an event and go on.                             *)
Handle(v, op, target) == bus' = Append(bus, [obj |-> v, op |-> op, target |-> target])

Reconciled(w, pc) ==
  /\ PoolStep(w, "got")
  /\ worker' = [worker EXCEPT ![w].pc = pc]
  /\ UNCHANGED <<workqueue, retries, crashed>>

(* The item carries its object.                                            *)
ReconcileObject(w) ==
  /\ worker[w].item.object # Nil
  /\ Handle(worker[w].item.object, "DELETE", "STORAGE")
  /\ Reconciled(w, "ok")

(* The informer is found; the object may have left its store.              *)
ReconcileKey(w) ==
  /\ worker[w].item.object = Nil
  /\ LET v == store[worker[w].item.name]
     IN  \/ v # Nil /\ Handle(v, "UPDATE", IF IsCrd THEN "MANAGER" ELSE "STORAGE")
         \/ v = Nil /\ UNCHANGED bus
  /\ Reconciled(w, "ok")

(* The lookup without the lock, while RegisterInformer writes the map, may *)
(* miss the informer ...                                                   *)
UnlockedLookup(w) == worker[w].item.object = Nil /\ AllNamespaces /\ registering

ReconcileMiss(w) == UnlockedLookup(w) /\ Reconciled(w, "failed") /\ UNCHANGED bus

(* ... or be caught by the runtime, which ends the process.                *)
ReconcileCrash(w) ==
  /\ PoolStep(w, "got")
  /\ UnlockedLookup(w)
  /\ crashed' = TRUE
  /\ UNCHANGED <<workqueue, worker, retries, bus>>

(* Mutant: Done is not called.                                             *)
ProcessNeverDone(w, from) ==
  /\ PoolStep(w, from)
  /\ worker' = [worker EXCEPT ![w] = Idle]
  /\ UNCHANGED <<workqueue, bus, crashed>>

ProcessDone(w, from) ==
  /\ PoolStep(w, from)
  /\ Done(worker[w].item)
  /\ worker' = [worker EXCEPT ![w] = Idle]
  /\ UNCHANGED <<bus, crashed>>

(* NumRequeues of the worker's item, and its change.                       *)
NumRequeues(w) == requeues[worker[w].item.name]
SetRequeues(w, k) == requeues' = [requeues EXCEPT ![worker[w].item.name] = k]

ProcessOk(w) ==
  /\ ProcessDone(w, "ok")
  /\ SetRequeues(w, IF worker[w].item.object = Nil THEN 0 ELSE NumRequeues(w))
  /\ UNCHANGED <<delayed, dropped>>

AddRateLimited(w) ==
  /\ ProcessDone(w, "failed")
  /\ SetRequeues(w, NumRequeues(w) + 1)
  /\ delayed' = delayed \cup {worker[w].item}
  /\ UNCHANGED dropped

(* Mutant: one retry too many.                                             *)
ProcessRetryOnceMore(w) == NumRequeues(w) <= MaxRequeues /\ AddRateLimited(w)

(* Mutant: a failed item is not added again.                               *)
ProcessRetryForgotten(w) ==
  NumRequeues(w) < MaxRequeues /\ ProcessDone(w, "failed") /\ UNCHANGED retries

ProcessRetry(w) == NumRequeues(w) < MaxRequeues /\ AddRateLimited(w)

ProcessDrop(w) ==
  /\ ProcessDone(w, "failed")
  /\ NumRequeues(w) >= MaxRequeues
  /\ SetRequeues(w, 0)
  /\ dropped' = dropped \cup {worker[w].item.name}
  /\ UNCHANGED delayed

(* The back-off of an item has passed.                                     *)
RetryDue(item) ==
  /\ ~crashed
  /\ item \in delayed
  /\ delayed' = delayed \ {item}
  /\ Add(item)
  /\ UNCHANGED <<cluster, heap, informer, worker, requeues, dropped, registering, bus, crashed>>

(* RegisterInformer, for a router that the manager starts.                 *)
Register ==
  /\ ~crashed /\ AllNamespaces
  /\ registering' = ~registering
  /\ UNCHANGED <<cluster, heap, informer, workqueue, worker, retries, bus, crashed>>

-----------------------------------------------------------------------------
(* Nothing is on its way.                                                  *)
Quiet ==
  /\ \A n \in Names : store[n] = api[n]
  /\ notes = <<>> /\ dirty = {} /\ processing = {} /\ delayed = {}

(* The process is dead, or waits for the next change.                      *)
Settled ==
  /\ crashed \/ (Quiet /\ Len(heap) = MaxVersion)
  /\ UNCHANGED vars

Cluster(n) == Create(n) \/ (\E delete \in BOOLEAN : Modify(n, delete)) \/ Remove(n)
Informer(n) == InformerAdd(n) \/ InformerUpdate(n) \/ InformerDelete(n)
Router == OnAdd \/ OnUpdate \/ OnDelete
Reconcile(w) == ReconcileObject(w) \/ ReconcileKey(w) \/ ReconcileMiss(w)
                  \/ ReconcileCrash(w)
Process(w) == ProcessGet(w) \/ Reconcile(w) \/ ProcessOk(w) \/ ProcessRetry(w)
                \/ ProcessDrop(w)

Next ==
  \/ \E n \in Names : Cluster(n) \/ Informer(n) \/ InformerResync(n)
  \/ Router
  \/ \E w \in PoolWorkers : Process(w)
  \/ \E item \in delayed : RetryDue(item)
  \/ Register
  \/ Settled

Spec == Init /\ [][Next]_vars

-----------------------------------------------------------------------------
(* Type invariant of the pipeline; the queue holds no item twice and every *)
(* item in it is dirty.                                                    *)
TypeOK ==
  /\ api \in [Names -> 0..Len(heap)] /\ store \in [Names -> 0..Len(heap)]
  /\ terminating \subseteq 1..Len(heap)
  /\ \A i \in DOMAIN heap : heap[i] \in [name : Names, uid : 1..Len(heap), dt : BOOLEAN]
  /\ Range(queue) \subseteq dirty /\ IsInjective(queue)
  /\ dirty \subseteq Item /\ processing \subseteq Item /\ delayed \subseteq Item
  /\ worker \in [PoolWorkers -> [pc : {"idle", "got", "ok", "failed"}, item : Item]]
  /\ requeues \in [Names -> 0..MaxRequeues] /\ dropped \subseteq Names
  /\ registering \in BOOLEAN /\ crashed \in BOOLEAN

(* When everything has come to rest, the present version of every object   *)
(* has been published, unless its key was dropped: an update that arrives  *)
(* while its key is queued, being reconciled or backing off is never lost. *)
LatestPublished ==
  Quiet /\ ~crashed =>
    \A n \in Names : api[n] # Nil /\ n \notin dropped =>
      \E i \in DOMAIN bus : bus[i].obj = api[n]

(* By then a DELETE has been published of every object whose deletion the  *)
(* informer noticed, whatever has become of its name since.  An object     *)
(* that was published and is gone without one was replaced by a successor  *)
(* of its name between two lists: onUpdate takes that for an update.       *)
Gone(uid) == \A n \in Names : api[n] = Nil \/ heap[api[n]].uid # uid

DeletionPublished ==
  Quiet /\ ~crashed =>
    \A uid \in deleted \cup {heap[bus[i].obj].uid : i \in DOMAIN bus} :
      \/ ~Gone(uid) \/ (uid \in replaced /\ uid \notin deleted)
      \/ \E i \in DOMAIN bus : heap[bus[i].obj].uid = uid /\ bus[i].op = "DELETE"

(* README, How It Works: "For CRDs (apiextensions.k8s.io): routes to the   *)
(* Manager via event bus to start or stop a dynamic router."  Once a CRD   *)
(* that the manager was told of is gone and all is quiet, the manager has  *)
(* been told of the deletion.                                              *)
CrdDeletionReachesManager ==
  IsCrd /\ Quiet /\ ~crashed =>
    \A n \in Names : api[n] = Nil =>
      \A i \in DOMAIN bus :
        heap[bus[i].obj].name = n /\ bus[i].target = "MANAGER" =>
          \E k \in DOMAIN bus : /\ heap[bus[k].obj].uid = heap[bus[i].obj].uid
                                /\ bus[k].target = "MANAGER"
                                /\ bus[k].op = "DELETE" \/ heap[bus[k].obj].dt
=============================================================================
