------------------------- MODULE StorageFlowProofs -------------------------
(***************************************************************************)
(* Proofs about StorageFlow, from the pipeline's invariant: the types of   *)
(* the storage side, that no row of an object which nobody has deleted is  *)
(* ever marked deleted and that at rest every object has its row, for      *)
(* every number of objects, changes, workers and handlers.                 *)
(***************************************************************************)
EXTENDS StorageFlow, RouterPoolProofs

-----------------------------------------------------------------------------
(* The inductive invariant, beside that of the pipeline and FlowTypeOK.    *)
(* An object was deleted in earnest when it is gone or was marked for      *)
(* deletion by the API server: a verdict that nothing takes back.          *)
Legit(uid) == Gone(uid) \/ \E v \in terminating : heap[v].uid = uid

(* Only such objects carry a deletion timestamp, travel as deletions, are  *)
(* published as DELETE events ...                                          *)
TravelLegit ==
  /\ \A v \in Versions : heap[v].dt => Legit(heap[v].uid)
  /\ \A x \in Range(notes) : x.type = "delete" => Legit(heap[x.old].uid)
  /\ \A item \in Held : item.object # Nil => Legit(heap[item.object].uid)
  /\ \A e \in Range(bus) : e.op = "DELETE" => Legit(heap[e.obj].uid)

(* ... and yield records with deleted_at.                                  *)
RecordsLegit ==
  \A i \in DOMAIN handler : handler[i].deleted => Legit(heap[bus[i].obj].uid)

(* A handler whose record has reached the table left a row behind.         *)
StoredHasRow ==
  \A i \in DOMAIN handler : handler[i].pc = "stored" => heap[bus[i].obj].uid \in DOMAIN row

(* A kind that is not a CRD is published to the storage manager only, and  *)
(* one that is looked up under the lock never fails.                       *)
Routed ==
  /\ ~IsCrd => \A e \in Range(bus) : e.target = "STORAGE"
  /\ ~AllNamespaces => dropped = {} /\ \A w \in PoolWorkers : worker[w].pc # "failed"

FInv ==
  /\ PInv /\ FlowTypeOK /\ missed \subseteq DOMAIN bus
  /\ ~subscribed => DOMAIN handler = {}
  /\ TravelLegit /\ RecordsLegit /\ NoFalseDeletion /\ StoredHasRow /\ Routed

-----------------------------------------------------------------------------
(* What a change in the cluster does to the objects.                       *)
LEMMA ClusterFacts ==
  ASSUME PInv, NEW n \in Names, Cluster(n)
  PROVE  /\ Len(heap) \in Nat /\ Len(heap') = Len(heap) + 1
         /\ \A v \in Versions : heap'[v] = heap[v]
         /\ heap'[Len(heap')].dt => Len(heap') \in terminating'
         /\ \/ heap'[Len(heap')].uid = Len(heap) + 1
            \/ api[n] # Nil /\ heap'[Len(heap')].uid = heap[api[n]].uid
         /\ \A m \in Names : (api'[m] \in {Nil, Len(heap')} /\ m = n) \/ api'[m] = api[m]
         /\ terminating \subseteq terminating'
         /\ UNCHANGED <<informer, workqueue, worker, retries, bus>>
<1> USE DEF PInv, Shape, ObjectsOK
<1>1. ASSUME NEW uid \in Nat, NEW dt \in BOOLEAN, NewVersion(n, uid, dt)
      PROVE  /\ Len(heap) \in Nat /\ Len(heap') = Len(heap) + 1
             /\ \A v \in Versions : heap'[v] = heap[v]
             /\ heap'[Len(heap')].dt => Len(heap') \in terminating'
             /\ heap'[Len(heap')].uid = uid
             /\ terminating \subseteq terminating'
             /\ UNCHANGED <<informer, workqueue, worker, retries, bus>>
  <2> DEFINE new == [name |-> n, uid |-> uid, dt |-> dt]
  <2>1. /\ heap' = Append(heap, new) /\ new \in [name : Names, uid : Nat, dt : BOOLEAN]
        /\ heap \in Seq([name : Names, uid : Nat, dt : BOOLEAN])
        /\ new.dt = dt /\ new.uid = uid
    BY <1>1 DEF NewVersion, HeapOK
  <2>2. /\ terminating' = terminating \cup (IF dt THEN {Len(heap) + 1} ELSE {})
        /\ UNCHANGED <<informer, workqueue, worker, retries, bus>>
    BY <1>1 DEF NewVersion
  <2> HIDE DEF new
  <2>3. /\ Len(heap) \in Nat /\ Len(heap') = Len(heap) + 1
        /\ \A v \in Versions : heap'[v] = heap[v]
    BY <2>1, AppendProperties, LenProperties DEF Versions
  <2>4. heap'[Len(heap')] = new
    BY <2>1, <2>3, AppendProperties
  <2>5. dt => Len(heap') \in terminating'
    BY <2>2, <2>3
  <2>6. heap'[Len(heap')].dt => dt
    BY <2>1, <2>4
  <2>7. heap'[Len(heap')].uid = uid
    BY <2>1, <2>4
  <2>8. terminating \subseteq terminating' /\ UNCHANGED <<informer, workqueue, worker, retries, bus>>
    BY <2>2
  <2>9. heap'[Len(heap')].dt => Len(heap') \in terminating'
    BY <2>5, <2>6
  <2> QED  BY <2>3, <2>7, <2>8, <2>9
<1>2. Len(heap) \in Nat /\ Nil \notin Versions
  BY HeapFacts
<1>3. api[n] # Nil => heap[api[n]].uid \in Nat
  BY HeapFacts DEF Caches
<1>4. CASE Create(n)
  <2>1. NewVersion(n, Len(heap) + 1, FALSE) /\ api' = [api EXCEPT ![n] = Len(heap')]
    BY <1>4 DEF Create
  <2>2. Len(heap) + 1 \in Nat /\ FALSE \in BOOLEAN
    BY <1>2
  <2>3. PICK uid \in Nat, dt \in BOOLEAN : NewVersion(n, uid, dt) /\ uid = Len(heap) + 1
    BY <2>1, <2>2, Zenon
  <2> QED  BY <1>1, <2>1, <2>3 DEF Caches
<1>5. ASSUME NEW delete \in BOOLEAN, Modify(n, delete)
      PROVE  \E dt \in BOOLEAN : /\ NewVersion(n, heap[api[n]].uid, dt) /\ api[n] # Nil
                                 /\ api' = [api EXCEPT ![n] = Len(heap')]
  <2>1. (delete \/ api[n] \in terminating) \in BOOLEAN
    OBVIOUS
  <2> QED  BY <1>5, <2>1 DEF Modify
<1>6. ASSUME Remove(n)
      PROVE  \E dt \in BOOLEAN : /\ NewVersion(n, heap[api[n]].uid, dt) /\ api[n] # Nil
                                 /\ api' = [api EXCEPT ![n] = Nil]
  <2>1. (api[n] \in terminating) \in BOOLEAN
    OBVIOUS
  <2> QED  BY <1>6, <2>1 DEF Remove
<1>7. CASE (\E delete \in BOOLEAN : Modify(n, delete)) \/ Remove(n)
  <2>1. PICK dt \in BOOLEAN : NewVersion(n, heap[api[n]].uid, dt) /\ api[n] # Nil
    BY <1>5, <1>6, <1>7
  <2>2. api' = [api EXCEPT ![n] = Len(heap')] \/ api' = [api EXCEPT ![n] = Nil]
    BY <1>5, <1>6, <1>7
  <2> QED  BY <1>1, <1>3, <2>1, <2>2 DEF Caches
<1> QED  BY <1>4, <1>7 DEF Cluster

(* Outside the cluster nothing changes the objects.                        *)
LEMMA OnlyClusterWrites ==
  ASSUME [Next]_vars
  PROVE  UNCHANGED <<api, terminating, heap>> \/ \E n \in Names : Cluster(n)
<1> USE DEF cluster
<1>1. CASE \E n \in Names : Informer(n) \/ InformerResync(n)
  BY <1>1 DEF Informer, InformerAdd, InformerUpdate, InformerDelete, InformerResync, Notify
<1>2. CASE Router
  BY <1>2 DEF Router, OnAdd, OnUpdate, OnDelete, HandleNote
<1>3. CASE \E w \in PoolWorkers : Process(w)
  BY <1>3 DEF Process, ProcessGet, Reconcile, ReconcileObject, ReconcileKey, ReconcileMiss,
              ReconcileCrash, Reconciled, ProcessOk, ProcessRetry, AddRateLimited, ProcessDrop,
              ProcessDone, PoolStep
<1>4. CASE \E item \in delayed : RetryDue(item)
  BY <1>4 DEF RetryDue
<1>5. CASE Register \/ Settled \/ UNCHANGED vars
  BY <1>5 DEF Register, Settled, vars
<1> QED  BY <1>1, <1>2, <1>3, <1>4, <1>5 DEF Next

(* Objects keep their names and uids, and a deletion is final.             *)
LEMMA LegitStays ==
  ASSUME PInv, [Next]_vars
  PROVE  /\ Len(heap) \in Nat /\ Len(heap') \in Nat /\ Versions \subseteq Versions'
         /\ \A v \in Versions : heap'[v] = heap[v]
         /\ \A uid \in Versions : Legit(uid) => Legit(uid)'
<1> USE DEF PInv, Shape, ObjectsOK
<1>1. /\ Len(heap) \in Nat /\ Nil \notin Versions
      /\ \A v \in Versions : heap[v].uid \in Versions
  BY HeapFacts
<1>2. CASE UNCHANGED <<api, terminating, heap>>
  BY <1>1, <1>2 DEF Legit, Gone, Versions
<1>3. CASE \E n \in Names : Cluster(n)
  <2>1. PICK n \in Names : Cluster(n)
    BY <1>3
  <2> DEFINE last == Len(heap')
  <2>2. /\ last = Len(heap) + 1 /\ \A v \in Versions : heap'[v] = heap[v]
        /\ \/ heap'[last].uid = Len(heap) + 1
           \/ api[n] # Nil /\ heap'[last].uid = heap[api[n]].uid
        /\ \A m \in Names : (api'[m] \in {Nil, last} /\ m = n) \/ api'[m] = api[m]
        /\ terminating \subseteq terminating'
    BY <2>1, ClusterFacts
  <2>3. Len(heap') \in Nat /\ Versions \subseteq Versions'
    BY <1>1, <2>2 DEF Versions
  <2>4. ASSUME NEW uid \in Versions, Gone(uid)
        PROVE  Gone(uid)'
    <3>1. uid # Len(heap) + 1
      BY <1>1 DEF Versions
    <3>2. heap'[last].uid # uid
      BY <2>2, <2>4, <3>1 DEF Gone
    <3>3. SUFFICES ASSUME NEW m \in Names, api'[m] # Nil
                   PROVE  heap'[api'[m]].uid # uid
      BY DEF Gone
    <3>4. CASE api'[m] = last
      BY <3>2, <3>4
    <3>5. CASE api'[m] = api[m]
      BY <2>2, <2>4, <3>3, <3>5 DEF Gone, Caches
    <3> QED  BY <2>2, <3>3, <3>4, <3>5
  <2>5. ASSUME NEW uid \in Versions, NEW v \in terminating, heap[v].uid = uid
        PROVE  \E u \in terminating' : heap'[u].uid = uid
    BY <2>2, <2>5
  <2> QED  BY <1>1, <2>2, <2>3, <2>4, <2>5 DEF Legit
<1> QED  BY <1>2, <1>3, OnlyClusterWrites

-----------------------------------------------------------------------------
(* The cluster marks what it puts a deletion timestamp on; nothing else on *)
(* the way changes.                                                        *)
LEMMA ClusterTravel ==
  ASSUME PInv, TravelLegit, NEW n \in Names, Cluster(n)
  PROVE  TravelLegit'
<1> USE DEF PInv, Shape, ObjectsOK
<1>1. /\ Len(heap) \in Nat /\ Len(heap') = Len(heap) + 1
      /\ \A v \in Versions : heap'[v] = heap[v]
      /\ heap'[Len(heap')].dt => Len(heap') \in terminating'
      /\ UNCHANGED <<notes, bus, dirty, worker>>
  BY ClusterFacts DEF informer, workqueue
<1>2. [Next]_vars
  BY DEF Next
<1>3. \A uid \in Versions : Legit(uid) => Legit(uid)'
  BY <1>2, LegitStays
<1>4. \A v \in Versions : heap[v].uid \in Versions
  BY HeapFacts
<1>5. \A v \in Versions' : v \in Versions \/ v = Len(heap')
  BY <1>1 DEF Versions
<1>6. ASSUME NEW v \in Versions', heap'[v].dt
      PROVE  Legit(heap[v].uid)'
  <2>1. CASE v \in Versions
    <3>1. heap[v].dt
      BY <1>1, <1>6, <2>1
    <3>2. Legit(heap[v].uid)
      BY <2>1, <3>1 DEF TravelLegit
    <3>3. PICK uid \in Versions : uid = heap[v].uid
      BY <1>4, <2>1
    <3>4. Legit(uid)' /\ uid = heap'[v].uid
      BY <1>1, <1>3, <2>1, <3>2, <3>3
    <3> QED  BY <3>4
  <2>2. CASE v = Len(heap')
    <3>1. v \in terminating'
      BY <1>1, <1>6, <2>2
    <3> QED  BY <3>1 DEF Legit
  <2> QED  BY <1>5, <2>1, <2>2
<1>7. ASSUME NEW v \in Versions, Legit(heap[v].uid)
      PROVE  Legit(heap[v].uid)'
  <2>1. PICK uid \in Versions : uid = heap[v].uid
    BY <1>4
  <2>2. Legit(uid)' /\ uid = heap'[v].uid
    BY <1>1, <1>3, <1>7, <2>1
  <2> QED  BY <2>2
<1>8. \A item \in Held : item.object # Nil => item.object \in Versions
  BY DEF Held, QueueOK, WorkersOK, ItemOK
<1>9. Held' = Held
  BY <1>1 DEF Held
<1>10. \A x \in Range(notes') : x.type = "delete" => Legit(heap[x.old].uid)'
  BY <1>1, <1>7, NoteTypes DEF TravelLegit
<1>11. \A item \in Held' : item.object # Nil => Legit(heap[item.object].uid)'
  BY <1>7, <1>8, <1>9 DEF TravelLegit
<1>12. \A e \in Range(bus') : e.op = "DELETE" => Legit(heap[e.obj].uid)'
  BY <1>1, <1>7 DEF TravelLegit, BusOK
<1> QED  BY <1>6, <1>10, <1>11, <1>12 DEF TravelLegit

(* The rest leaves the objects as they are.                                *)
LEMMA OtherTravel ==
  ASSUME TravelLegit, UNCHANGED <<api, terminating, heap>>,
         \A x \in Range(notes') :
           x.type = "delete" => x \in Range(notes) \/ Legit(heap[x.old].uid),
         \A item \in Held' :
           item.object # Nil => item \in Held \/ Legit(heap[item.object].uid),
         \A e \in Range(bus') :
           e.op = "DELETE" => e \in Range(bus) \/ Legit(heap[e.obj].uid)
  PROVE  TravelLegit'
<1>1. \A v : Legit(heap[v].uid) => Legit(heap[v].uid)'
  BY DEF Legit, Gone
<1>2. Versions' = Versions
  BY DEF Versions
<1> QED  BY <1>1, <1>2 DEF TravelLegit

(* The informer deletes what is gone.                                      *)
LEMMA InformerTravel ==
  ASSUME PInv, TravelLegit, NEW n \in Names, Informer(n) \/ InformerResync(n)
  PROVE  TravelLegit'
<1> USE DEF PInv, Shape, ObjectsOK
<1>1. PICK note \in Note :
        /\ \E v : Notify(n, v, note)
        /\ note.type = "delete" => /\ store[n] # Nil /\ api[n] = Nil
                                   /\ note.old \in {FinalVersion(heap[store[n]].uid), store[n]}
  <2>1. api[n] \in Nat /\ store[n] \in Nat /\ Nil \in Nat
    BY DEF Caches, Nil
  <2>2. ASSUME NEW type \in {"add", "update"}, NEW old \in Nat, NEW new \in Nat, NEW v,
               Notify(n, v, [type |-> type, old |-> old, new |-> new])
        PROVE  \E note \in Note : (\E u : Notify(n, u, note)) /\ note.type # "delete"
    <3> DEFINE note == [type |-> type, old |-> old, new |-> new]
    <3>1. note \in Note /\ note.type # "delete" /\ Notify(n, v, note)
      BY <2>2 DEF Note
    <3> HIDE DEF note
    <3> QED  BY <3>1
  <2>3. CASE InformerAdd(n) \/ InformerUpdate(n) \/ InformerResync(n)
    BY <2>1, <2>2, <2>3 DEF InformerAdd, InformerUpdate, InformerResync
  <2>4. CASE InformerDelete(n)
    <3>1. PICK old \in {FinalVersion(heap[store[n]].uid), store[n]} :
            Notify(n, Nil, [type |-> "delete", old |-> old, new |-> Nil])
      BY <2>4 DEF InformerDelete
    <3>2. store[n] # Nil /\ api[n] = Nil /\ old \in Nat
      BY <2>1, <2>4, <3>1, FinalVersionIsVersion DEF InformerDelete, Caches, Versions
    <3> DEFINE note == [type |-> "delete", old |-> old, new |-> Nil]
    <3>3. note \in Note /\ note.old = old /\ Notify(n, Nil, note)
      BY <2>1, <3>1, <3>2 DEF Note
    <3> HIDE DEF note
    <3> QED  BY <3>1, <3>2, <3>3
  <2> QED  BY <2>3, <2>4 DEF Informer
<1>2. /\ notes' = Append(notes, note)
      /\ UNCHANGED <<api, terminating, heap, dirty, worker, bus>>
  BY <1>1 DEF Notify, cluster, workqueue
<1>3. Range(notes') = Range(notes) \cup {note}
  BY <1>2, AppendElements DEF NotesOK
<1>4. ASSUME note.type = "delete"
      PROVE  Legit(heap[note.old].uid)
  <2>1. store[n] \in Versions /\ heap[store[n]].name = n /\ api[n] = Nil
    BY <1>1, <1>4 DEF Caches
  <2>2. heap[note.old].uid = heap[store[n]].uid
    BY <1>1, <1>4, <2>1, FinalVersionIsVersion
  <2>3. ASSUME NEW m \in Names, api[m] # Nil
        PROVE  heap[api[m]].uid # heap[store[n]].uid
    BY <2>1, <2>3 DEF Caches, HeapOK
  <2> QED  BY <2>2, <2>3 DEF Legit, Gone
<1>5. Held' = Held
  BY <1>2 DEF Held
<1> QED  BY <1>2, <1>3, <1>4, <1>5, OtherTravel

(* The router hands on deletions and updates of terminating objects as     *)
(* objects, everything else as keys.                                       *)
LEMMA RouterTravel ==
  ASSUME PInv, TravelLegit, Router
  PROVE  TravelLegit'
<1> USE DEF PInv, Shape, ObjectsOK
<1> DEFINE x == Head(notes)
<1>1. /\ notes # <<>> /\ notes' = Tail(notes) /\ notes \in Seq(Note)
      /\ UNCHANGED <<api, terminating, heap, worker, bus>>
  BY DEF Router, OnAdd, OnUpdate, OnDelete, HandleNote, cluster, NotesOK
<1>2. x \in Note /\ x \in Range(notes) /\ Range(notes) = {x} \cup Range(notes')
  BY <1>1, TailElements
<1>3. NoteOK(x)
  BY <1>2 DEF NotesOK
<1> HIDE DEF x
<1>4. \A item \in Held' : item.object # Nil => item \in Held \/ Legit(heap[item.object].uid)
  <2>1. \A item : Add(item) => Held' = Held \cup {item}
    BY <1>1 DEF Held, Add
  <2>2. CASE OnAdd
    <3>1. Add(KeyItem(x.new))
      BY <2>2 DEF OnAdd, x
    <3> QED  BY <2>1, <3>1 DEF KeyItem
  <2>3. CASE OnDelete
    <3>1. Add(ObjectItem(x.old)) /\ x.type = "delete"
      BY <2>3 DEF OnDelete, HandleNote, x
    <3>2. Legit(heap[x.old].uid) /\ ObjectItem(x.old).object = x.old
      BY <1>2, <3>1 DEF TravelLegit, ObjectItem
    <3> QED  BY <2>1, <3>1, <3>2
  <2>4. CASE OnUpdate
    <3>1. /\ x.type = "update" /\ x.new \in Versions
          /\ \/ UNCHANGED workqueue
             \/ heap[x.new].dt /\ Add(ObjectItem(x.new))
             \/ Add(KeyItem(x.new))
      BY <1>3, <2>4 DEF OnUpdate, HandleNote, x, NoteOK
    <3>2. CASE UNCHANGED workqueue
      BY <1>1, <3>2 DEF Held, workqueue
    <3>3. CASE heap[x.new].dt /\ Add(ObjectItem(x.new))
      <4>1. Legit(heap[x.new].uid) /\ ObjectItem(x.new).object = x.new
        BY <3>1, <3>3 DEF TravelLegit, ObjectItem
      <4> QED  BY <2>1, <3>3, <4>1
    <3>4. CASE Add(KeyItem(x.new))
      BY <2>1, <3>4 DEF KeyItem
    <3> QED  BY <3>1, <3>2, <3>3, <3>4
  <2> QED  BY <2>2, <2>3, <2>4 DEF Router
<1> QED  BY <1>1, <1>2, <1>4, OtherTravel

(* The pool publishes DELETE of objects only.                              *)
LEMMA PoolTravel ==
  ASSUME PInv, TravelLegit, NEW w \in PoolWorkers, Process(w)
  PROVE  TravelLegit' /\ UNCHANGED <<api, terminating, heap>>
<1> USE DEF PInv, Shape, ObjectsOK
<1>1. UNCHANGED <<api, terminating, heap, notes>>
  BY DEF Process, ProcessGet, Reconcile, ReconcileObject, ReconcileKey, ReconcileMiss,
         ReconcileCrash, Reconciled, ProcessOk, ProcessRetry, AddRateLimited, ProcessDrop,
         ProcessDone, PoolStep, cluster, informer
<1>2. CASE ProcessGet(w)
  <2>1. Held' = Held /\ UNCHANGED bus
    BY <1>2, ProcessGetKeeps DEF ProcessGet
  <2> QED  BY <1>1, <2>1, OtherTravel
<1>3. CASE ProcessOk(w) \/ ProcessRetry(w) \/ ProcessDrop(w)
  <2>1. \E from \in {"ok", "failed"} : ProcessDone(w, from)
    BY <1>3 DEF ProcessOk, ProcessRetry, AddRateLimited, ProcessDrop
  <2>2. Held' = Held /\ UNCHANGED bus
    BY <2>1, ProcessDoneKeeps
  <2> QED  BY <1>1, <2>2, OtherTravel
<1>4. CASE ReconcileCrash(w)
  <2>1. Held' = Held /\ UNCHANGED bus
    BY <1>4 DEF ReconcileCrash, Held, workqueue
  <2> QED  BY <1>1, <2>1, OtherTravel
<1>5. CASE ReconcileMiss(w)
  <2>1. UNCHANGED bus /\ Reconciled(w, "failed") /\ worker[w].item.object = Nil
    BY <1>5 DEF ReconcileMiss, UnlockedLookup
  <2>2. Held' \subseteq Held
    BY <2>1, ReconciledWorkers
  <2> QED  BY <1>1, <2>1, <2>2, OtherTravel
<1>6. ASSUME Reconciled(w, "ok"),
             bus' = bus \/ \E e \in Event : /\ bus' = Append(bus, e)
                                            /\ e.op = "DELETE" => Legit(heap[e.obj].uid)
      PROVE  TravelLegit'
  <2>1. Held' \subseteq Held
    BY <1>6, ReconciledWorkers
  <2>2. CASE bus' = bus
    BY <1>1, <2>1, <2>2, OtherTravel
  <2>3. ASSUME NEW e \in Event, bus' = Append(bus, e), e.op = "DELETE" => Legit(heap[e.obj].uid)
        PROVE  TravelLegit'
    <3>1. Range(bus') = Range(bus) \cup {e}
      BY <2>3, AppendElements DEF BusOK
    <3> QED  BY <1>1, <2>1, <2>3, <3>1, OtherTravel
  <2> QED  BY <1>6, <2>2, <2>3
<1>7. worker[w].pc = "got" => ItemOK(worker[w].item) /\ worker[w].item \in Held
  BY DEF WorkersOK, QueueOK, Held
<1>8. CASE ReconcileObject(w)
  <2> DEFINE v == worker[w].item.object
             e == [obj |-> v, op |-> "DELETE", target |-> "STORAGE"]
  <2>1. v # Nil /\ bus' = Append(bus, e) /\ Reconciled(w, "ok") /\ worker[w].pc = "got"
    BY <1>8 DEF ReconcileObject, Handle, Reconciled, PoolStep
  <2>2. e \in Event /\ e.obj = v
    BY <1>7, <2>1 DEF ItemOK, AnyItem, Event
  <2>3. Legit(heap[v].uid)
    BY <1>7, <2>1 DEF TravelLegit
  <2>4. \E d \in Event : bus' = Append(bus, d) /\ (d.op = "DELETE" => Legit(heap[d.obj].uid))
    BY <2>1, <2>2, <2>3
  <2> QED  BY <1>1, <1>6, <2>1, <2>4
<1>9. CASE ReconcileKey(w)
  <2> DEFINE v == store[worker[w].item.name]
             e == [obj |-> v, op |-> "UPDATE", target |-> IF IsCrd THEN "MANAGER" ELSE "STORAGE"]
  <2>1. /\ bus' = bus \/ bus' = Append(bus, e)
        /\ Reconciled(w, "ok") /\ worker[w].pc = "got"
    BY <1>9 DEF ReconcileKey, Handle, Reconciled, PoolStep
  <2>2. e \in Event /\ e.op = "UPDATE"
    BY <1>7, <2>1 DEF ItemOK, AnyItem, Event, Caches
  <2>3. \/ bus' = bus
        \/ \E d \in Event : bus' = Append(bus, d) /\ (d.op = "DELETE" => Legit(heap[d.obj].uid))
    BY <2>1, <2>2
  <2> QED  BY <1>1, <1>6, <2>1, <2>3
<1> QED  BY <1>1, <1>2, <1>3, <1>4, <1>5, <1>8, <1>9 DEF Process, Reconcile

(* No step of the router or the pool takes a deletion mark back or invents *)
(* one.                                                                    *)
LEMMA UpstreamTravel ==
  ASSUME PInv, TravelLegit, [Next]_vars
  PROVE  TravelLegit'
<1>1. CASE \E n \in Names : Cluster(n) \/ Informer(n) \/ InformerResync(n)
  BY <1>1, ClusterTravel, InformerTravel
<1>2. CASE Router
  BY <1>2, RouterTravel
<1>3. CASE \E w \in PoolWorkers : Process(w)
  BY <1>3, PoolTravel
<1>4. CASE \E item \in delayed : RetryDue(item)
  <2>1. PICK item \in delayed : RetryDue(item)
    BY <1>4
  <2>2. item.object = Nil /\ UNCHANGED <<api, terminating, heap, notes, worker, bus>>
    BY <2>1 DEF RetryDue, PInv, Shape, RetriesOK, cluster, informer
  <2>3. Held' = Held \cup {item}
    BY <2>1, <2>2 DEF RetryDue, Add, Held
  <2> QED  BY <2>2, <2>3, OtherTravel
<1>5. CASE Register \/ Settled \/ UNCHANGED vars
  <2>1. UNCHANGED <<api, terminating, heap, notes, worker, dirty, bus>>
    BY <1>5 DEF Register, Settled, vars, cluster, informer, workqueue
  <2>2. Held' = Held
    BY <2>1 DEF Held
  <2> QED  BY <2>1, <2>2, OtherTravel
<1> QED  BY <1>1, <1>2, <1>3, <1>4, <1>5 DEF Next

-----------------------------------------------------------------------------
(* Events are only ever added to the bus.                                  *)
LEMMA BusGrows ==
  ASSUME PInv, [Next]_vars
  PROVE  /\ DOMAIN bus \subseteq DOMAIN bus' /\ \A i \in DOMAIN bus : bus'[i] = bus[i]
         /\ \A e \in Range(bus') : e \in Range(bus) \/ (~IsCrd => e.target = "STORAGE")
<1> USE DEF PInv, Shape, ObjectsOK
<1>1. ASSUME NEW e \in Event, bus' = Append(bus, e), ~IsCrd => e.target = "STORAGE"
      PROVE  /\ DOMAIN bus \subseteq DOMAIN bus' /\ \A i \in DOMAIN bus : bus'[i] = bus[i]
             /\ \A d \in Range(bus') : d \in Range(bus) \/ (~IsCrd => d.target = "STORAGE")
  <2>1. /\ bus \in Seq(Event) /\ Len(bus) \in Nat /\ DOMAIN bus = 1..Len(bus)
        /\ DOMAIN bus' = 1..Len(bus) + 1 /\ \A i \in 1..Len(bus) : bus'[i] = bus[i]
        /\ Range(bus') = Range(bus) \cup {e}
    BY <1>1, LenProperties, AppendProperties, AppendElements DEF BusOK
  <2> QED  BY <1>1, <2>1
<1>2. CASE UNCHANGED bus
  BY <1>2
<1>3. ASSUME NEW w \in PoolWorkers, ReconcileObject(w) \/ ReconcileKey(w)
      PROVE  UNCHANGED bus \/ \E e \in Event : /\ bus' = Append(bus, e)
                                               /\ ~IsCrd => e.target = "STORAGE"
  <2>1. ItemOK(worker[w].item)
    BY <1>3 DEF ReconcileObject, ReconcileKey, Reconciled, PoolStep, WorkersOK, QueueOK
  <2>2. /\ worker[w].item.object \in Nat /\ worker[w].item.name \in Names
        /\ store[worker[w].item.name] \in Nat
    BY <2>1 DEF ItemOK, AnyItem, Caches
  <2>3. ASSUME NEW v \in Nat, NEW op \in {"UPDATE", "DELETE"},
               NEW target \in {"MANAGER", "STORAGE"}, Handle(v, op, target),
               ~IsCrd => target = "STORAGE"
        PROVE  \E e \in Event : bus' = Append(bus, e) /\ (~IsCrd => e.target = "STORAGE")
    <3> DEFINE e == [obj |-> v, op |-> op, target |-> target]
    <3>1. e \in Event /\ e.target = target /\ bus' = Append(bus, e)
      BY <2>3 DEF Event, Handle
    <3> HIDE DEF e
    <3> QED  BY <2>3, <3>1
  <2>4. (IF IsCrd THEN "MANAGER" ELSE "STORAGE") \in {"MANAGER", "STORAGE"}
    OBVIOUS
  <2>5. CASE ReconcileObject(w)
    BY <2>2, <2>3, <2>5 DEF ReconcileObject
  <2>6. CASE ReconcileKey(w)
    BY <2>2, <2>3, <2>4, <2>6 DEF ReconcileKey
  <2> QED  BY <1>3, <2>5, <2>6
<1>4. UNCHANGED bus \/ \E w \in PoolWorkers : ReconcileObject(w) \/ ReconcileKey(w)
  <2>1. CASE \E n \in Names : Cluster(n)
    BY <2>1, ClusterFacts
  <2>2. CASE \E n \in Names : Informer(n) \/ InformerResync(n)
    BY <2>2 DEF Informer, InformerAdd, InformerUpdate, InformerDelete, InformerResync, Notify
  <2>3. CASE Router
    BY <2>3 DEF Router, OnAdd, OnUpdate, OnDelete, HandleNote
  <2>4. CASE \E w \in PoolWorkers : Process(w)
    BY <2>4 DEF Process, ProcessGet, Reconcile, ReconcileMiss, ReconcileCrash, ProcessOk,
                ProcessRetry, AddRateLimited, ProcessDrop, ProcessDone
  <2>5. CASE \E item \in delayed : RetryDue(item)
    BY <2>5 DEF RetryDue
  <2>6. CASE Register \/ Settled \/ UNCHANGED vars
    BY <2>6 DEF Register, Settled, vars
  <2> QED  BY <2>1, <2>2, <2>3, <2>4, <2>5, <2>6 DEF Next
<1> QED  BY <1>1, <1>2, <1>3, <1>4

(* Only the unlocked lookup fails, and only failures are dropped.          *)
LEMMA UpstreamRouted ==
  ASSUME PInv, Routed, [Next]_vars
  PROVE  Routed'
<1> USE DEF PInv, Shape, ObjectsOK
<1>1. ~IsCrd => \A e \in Range(bus') : e.target = "STORAGE"
  BY BusGrows DEF Routed
<1>2. ASSUME ~AllNamespaces
      PROVE  dropped' = {} /\ \A z \in PoolWorkers : worker'[z].pc # "failed"
  <2>1. dropped = {} /\ \A z \in PoolWorkers : worker[z].pc # "failed"
    BY <1>2 DEF Routed
  <2>2. CASE UNCHANGED <<worker, dropped>>
    BY <2>1, <2>2
  <2>3. CASE \E n \in Names : Cluster(n)
    BY <2>2, <2>3, ClusterFacts DEF retries
  <2>4. CASE \E n \in Names : Informer(n) \/ InformerResync(n)
    BY <2>2, <2>4 DEF Informer, InformerAdd, InformerUpdate, InformerDelete, InformerResync,
                      Notify, retries
  <2>5. CASE Router
    BY <2>2, <2>5 DEF Router, OnAdd, OnUpdate, OnDelete, HandleNote, retries
  <2>6. ASSUME NEW w \in PoolWorkers, Process(w)
        PROVE  dropped' = {} /\ \A z \in PoolWorkers : worker'[z].pc # "failed"
    <3>1. CASE ProcessGet(w)
      BY <2>1, <3>1 DEF ProcessGet, WorkersOK, retries
    <3>2. CASE ReconcileObject(w) \/ ReconcileKey(w)
      BY <2>1, <3>2 DEF ReconcileObject, ReconcileKey, Reconciled, WorkersOK, retries
    <3>3. CASE ReconcileMiss(w) \/ ReconcileCrash(w)
      BY <1>2, <3>3 DEF ReconcileMiss, ReconcileCrash, UnlockedLookup
    <3>4. CASE ProcessOk(w)
      BY <2>1, <3>4 DEF ProcessOk, ProcessDone, WorkersOK, Idle
    <3>5. CASE ProcessRetry(w) \/ ProcessDrop(w)
      BY <2>1, <3>5 DEF ProcessRetry, AddRateLimited, ProcessDrop, ProcessDone, PoolStep
    <3> QED  BY <2>6, <3>1, <3>2, <3>3, <3>4, <3>5 DEF Process, Reconcile
  <2>7. CASE \E item \in delayed : RetryDue(item)
    BY <2>2, <2>7 DEF RetryDue
  <2>8. CASE Register \/ Settled \/ UNCHANGED vars
    BY <2>2, <2>8 DEF Register, Settled, vars, retries
  <2> QED  BY <2>3, <2>4, <2>5, <2>6, <2>7, <2>8 DEF Next
<1> QED  BY <1>1, <1>2 DEF Routed

(* The steps of RouterPool keep the invariant.                             *)
LEMMA UpstreamKeeps ==
  ASSUME FInv, [Next]_vars, UNCHANGED <<subscribed, missed, handler, row>>
  PROVE  FInv'
<1> USE DEF FInv
<1>1. PInv' /\ TravelLegit' /\ Routed'
  BY NextKeepsPInv, UpstreamTravel, UpstreamRouted
<1>2. /\ DOMAIN bus \subseteq DOMAIN bus' /\ \A i \in DOMAIN bus : bus'[i] = bus[i]
  BY BusGrows
<1>3. /\ Versions \subseteq Versions' /\ \A v \in Versions : heap'[v] = heap[v]
      /\ \A uid \in Versions : Legit(uid) => Legit(uid)'
  BY LegitStays
<1>4. /\ \A v \in Versions : heap[v].uid \in Versions
      /\ \A i \in DOMAIN bus : bus[i].obj \in Versions
  BY HeapFacts DEF PInv, Shape, ObjectsOK, BusOK, Range
<1>5. /\ \A i \in DOMAIN handler : i \in DOMAIN bus /\ i \in StorageEvents'
      /\ \A u \in DOMAIN row : /\ row[u].version \in Versions /\ heap[row[u].version].uid = u
                               /\ u \in Versions
  BY <1>2, <1>4 DEF FlowTypeOK, StorageEvents, Versions
<1>6. FlowTypeOK'
  BY <1>2, <1>3, <1>5 DEF FlowTypeOK, Versions
<1>7. RecordsLegit'
  <2> SUFFICES ASSUME NEW i \in DOMAIN handler, handler[i].deleted
               PROVE  Legit(heap[bus[i].obj].uid)'
    BY DEF RecordsLegit
  <2>1. PICK uid \in Versions : uid = heap[bus[i].obj].uid
    BY <1>4, <1>5
  <2>2. Legit(uid)' /\ uid = heap'[bus'[i].obj].uid
    BY <1>2, <1>3, <1>4, <1>5, <2>1 DEF RecordsLegit
  <2> QED  BY <2>2
<1>8. NoFalseDeletion'
  <2>1. \A uid \in DOMAIN row : row[uid].deleted => Legit(uid)
    BY DEF NoFalseDeletion, Legit
  <2>2. \A uid \in DOMAIN row : row[uid].deleted => Legit(uid)'
    BY <1>3, <1>5, <2>1
  <2> QED  BY <2>2 DEF NoFalseDeletion, Legit
<1>9. StoredHasRow'
  BY <1>2, <1>3, <1>4, <1>5 DEF StoredHasRow
<1>10. missed' \subseteq DOMAIN bus'
  BY <1>2
<1>11. ~subscribed' => DOMAIN handler' = {}
  OBVIOUS
<1> QED  BY <1>1, <1>6, <1>7, <1>8, <1>9, <1>10, <1>11

-----------------------------------------------------------------------------
(* A handler may write the deletion timestamp of the shared object, and of *)
(* the pipeline nothing else: its invariant does not depend on it, and the *)
(* write of a DELETE event's handler only confirms a deletion.             *)
LEMMA WriteKeeps ==
  ASSUME PInv, TravelLegit, Routed, HeapOK', Len(heap') = Len(heap), crashed' \in BOOLEAN,
         UNCHANGED <<cluster, informer, workqueue, worker, retries, registering, bus>>,
         \A v \in Versions : heap'[v].uid = heap[v].uid /\ heap'[v].name = heap[v].name,
         \A v \in Versions : heap'[v].dt => Legit(heap[v].uid)
  PROVE  /\ PInv' /\ TravelLegit' /\ Routed' /\ Versions' = Versions
         /\ \A uid : Legit(uid) => Legit(uid)'
<1> USE DEF PInv, Shape, ObjectsOK
<1>1. /\ Versions' = Versions /\ Len(heap) \in Nat /\ Nil \notin Versions
      /\ UNCHANGED <<api, terminating, notes, dirty, worker, dropped, bus>>
  BY HeapFacts DEF Versions, cluster, informer, workqueue, retries
<1>2. Grows
  BY <1>1 DEF Grows
<1>3. Caches(api)' /\ terminating' \subseteq Versions'
  BY <1>1 DEF Caches
<1>4. PInv'
  BY <1>2, <1>3, GrowthKeeps
<1>5. \A uid : Legit(uid) => Legit(uid)'
  BY <1>1 DEF Legit, Gone, Caches
<1>6. ASSUME NEW v \in Versions, Legit(heap[v].uid)
      PROVE  Legit(heap[v].uid)'
  <2>1. PICK uid : uid = heap[v].uid
    OBVIOUS
  <2>2. Legit(uid)' /\ uid = heap'[v].uid
    BY <1>5, <1>6, <2>1
  <2> QED  BY <2>2
<1>7. TravelLegit'
  <2>1. \A item \in Held : item.object # Nil => item.object \in Versions
    BY DEF Held, QueueOK, WorkersOK, ItemOK
  <2>2. Held' = Held
    BY <1>1 DEF Held
  <2>3. \A v \in Versions' : heap'[v].dt => Legit(heap[v].uid)'
    BY <1>1, <1>6
  <2>4. \A x \in Range(notes') : x.type = "delete" => Legit(heap[x.old].uid)'
    BY <1>1, <1>6, NoteTypes DEF TravelLegit
  <2>5. \A item \in Held' : item.object # Nil => Legit(heap[item.object].uid)'
    BY <1>6, <2>1, <2>2 DEF TravelLegit
  <2>6. \A e \in Range(bus') : e.op = "DELETE" => Legit(heap[e.obj].uid)'
    BY <1>1, <1>6 DEF TravelLegit, BusOK
  <2> QED  BY <2>3, <2>4, <2>5, <2>6 DEF TravelLegit
<1>8. Routed'
  BY <1>1 DEF Routed
<1> QED  BY <1>1, <1>4, <1>5, <1>7, <1>8

(* The handler of an event sets or clears the timestamp of the shared      *)
(* object.                                                                 *)
LEMMA StampWrites ==
  ASSUME FInv, NEW i \in StorageEvents, Stamp(i)
  PROVE  /\ HeapOK' /\ Len(heap') = Len(heap)
         /\ \A v \in Versions : heap'[v].uid = heap[v].uid /\ heap'[v].name = heap[v].name
         /\ \A v \in Versions : heap'[v].dt => Legit(heap[v].uid)
<1> USE DEF FInv, PInv, Shape, ObjectsOK
<1> DEFINE o == bus[i].obj
           b == (Pc(i) = "set")
           new == [heap[o] EXCEPT !.dt = b]
           Object == [name : Names, uid : Nat, dt : BOOLEAN]
<1>1. o \in Versions /\ i \in DOMAIN bus
  BY DEF StorageEvents, BusOK, Range
<1>2. heap \in Seq(Object) /\ heap[o] \in Object /\ Len(heap) \in Nat /\ b \in BOOLEAN
  BY <1>1, HeapFacts DEF HeapOK
<1>3. new \in Object /\ new.uid = heap[o].uid /\ new.name = heap[o].name
  BY <1>2
<1>4. new.dt => b
  BY <1>2
<1>5. heap' = [heap EXCEPT ![o] = new]
  BY DEF Stamp
<1> HIDE DEF new, Object, b
<1>6. /\ heap' \in Seq(Object) /\ Len(heap') = Len(heap)
      /\ \A v \in Versions : heap'[v] = IF v = o THEN new ELSE heap[v]
  BY <1>1, <1>2, <1>3, <1>5, ExceptSeq DEF Versions
<1>7. Versions' = Versions
  BY <1>6 DEF Versions
<1>8. \A v \in Versions : heap'[v].uid = heap[v].uid /\ heap'[v].name = heap[v].name
  BY <1>3, <1>6
<1>9. HeapOK'
  <2>1. heap' \in Seq([name : Names, uid : Nat, dt : BOOLEAN]) /\ Len(heap') <= MaxVersion
    BY <1>6 DEF HeapOK, Object
  <2>2. \A v \in Versions' : heap'[v].uid \in 1..v
    BY <1>7, <1>8 DEF HeapOK
  <2>3. \A u, v \in Versions' : heap'[u].uid = heap'[v].uid => heap'[u].name = heap'[v].name
    BY <1>7, <1>8 DEF HeapOK
  <2> QED  BY <2>1, <2>2, <2>3 DEF HeapOK
<1>10. ASSUME NEW v \in Versions, heap'[v].dt
       PROVE  Legit(heap[v].uid)
  <2>1. CASE v = o
    <3>1. Pc(i) = "set"
      BY <1>4, <1>6, <1>10, <2>1 DEF b
    <3>2. i \in DOMAIN handler /\ handler[i].pc = "set"
      BY <3>1 DEF Pc
    <3>3. bus[i].op = "DELETE"
      BY <3>2 DEF FlowTypeOK
    <3> QED  BY <1>1, <2>1, <3>3 DEF TravelLegit, Range
  <2>2. CASE v # o
    <3>1. heap[v].dt
      BY <1>6, <1>10, <2>2
    <3> QED  BY <3>1 DEF TravelLegit
  <2> QED  BY <2>1, <2>2
<1> QED  BY <1>6, <1>8, <1>9, <1>10

(* A handler's step, whichever: it stays on the branch of its event, marks *)
(* a record or a row only of a deleted object and leaves a row at the end. *)
LEMMA HandlerMoves ==
  ASSUME FInv, NEW i \in StorageEvents, NEW from,
         NEW to \in {"clear", "set", "build", "pushed", "stored"}, NEW mark \in BOOLEAN,
         HandlerStep(i, from, to, mark),
         to = "clear" => bus[i].op = "UPDATE", to = "set" => bus[i].op = "DELETE",
         mark => Legit(heap[bus[i].obj].uid),
         HeapOK', Len(heap') = Len(heap),
         \A v \in Versions : heap'[v].uid = heap[v].uid /\ heap'[v].name = heap[v].name,
         \A v \in Versions : heap'[v].dt => Legit(heap[v].uid),
         DOMAIN row \subseteq DOMAIN row',
         to = "stored" => heap[bus[i].obj].uid \in DOMAIN row',
         \A u \in DOMAIN row' :
           \/ u \in DOMAIN row /\ row'[u] = row[u]
           \/ /\ u = heap[bus[i].obj].uid /\ row'[u].version = bus[i].obj
              /\ row'[u].deleted => Legit(u)
  PROVE  FInv'
<1> USE DEF FInv
<1>1. /\ UNCHANGED <<cluster, informer, workqueue, worker, retries, registering, bus, crashed,
                     missed, subscribed>>
      /\ crashed \in BOOLEAN
  BY DEF HandlerStep, Elsewhere, PInv, Shape, RetriesOK
<1>2. /\ PInv' /\ TravelLegit' /\ Routed' /\ Versions' = Versions
      /\ \A uid : Legit(uid) => Legit(uid)'
  BY <1>1, WriteKeeps
<1>3. /\ \A k \in DOMAIN bus : bus[k].obj \in Versions
      /\ StorageEvents' = StorageEvents /\ i \in DOMAIN bus
  BY <1>1 DEF PInv, Shape, BusOK, Range, StorageEvents
<1>4. /\ DOMAIN handler' = DOMAIN handler \cup {i}
      /\ \A k \in DOMAIN handler' : k # i => k \in DOMAIN handler /\ handler'[k] = handler[k]
      /\ handler'[i] = [pc |-> to, deleted |-> mark]
  BY DEF HandlerStep
<1>5. handler'[i].pc = to /\ handler'[i].deleted = mark
  BY <1>4
<1>6. FlowTypeOK'
  <2>1. DOMAIN handler' \subseteq StorageEvents'
    BY <1>3, <1>4 DEF FlowTypeOK
  <2>2. ASSUME NEW k \in DOMAIN handler'
        PROVE  /\ handler'[k] \in [pc : {"clear", "set", "build", "pushed", "stored"},
                                   deleted : BOOLEAN]
               /\ handler'[k].pc = "clear" => bus'[k].op = "UPDATE"
               /\ handler'[k].pc = "set" => bus'[k].op = "DELETE"
    <3>1. CASE k = i
      BY <1>1, <1>4, <1>5, <3>1
    <3>2. CASE k # i
      BY <1>1, <1>4, <3>2 DEF FlowTypeOK
    <3> QED  BY <3>1, <3>2
  <2>3. ASSUME NEW u \in DOMAIN row'
        PROVE  row'[u].version \in Versions' /\ heap'[row'[u].version].uid = u
    <3>1. CASE u \in DOMAIN row /\ row'[u] = row[u]
      BY <1>2, <3>1 DEF FlowTypeOK, Versions
    <3>2. CASE u = heap[bus[i].obj].uid /\ row'[u].version = bus[i].obj
      BY <1>2, <1>3, <3>2
    <3> QED  BY <3>1, <3>2
  <2> QED  BY <2>1, <2>2, <2>3 DEF FlowTypeOK, Versions
<1>7. \A k \in DOMAIN bus : heap'[bus'[k].obj].uid = heap[bus[k].obj].uid
  BY <1>1, <1>3
<1>8. RecordsLegit'
  <2> SUFFICES ASSUME NEW k \in DOMAIN handler', handler'[k].deleted
               PROVE  Legit(heap[bus[k].obj].uid)'
    BY DEF RecordsLegit
  <2>1. k \in DOMAIN bus
    BY <1>3, <1>4 DEF FlowTypeOK, StorageEvents
  <2>2. Legit(heap[bus[k].obj].uid)
    <3>1. CASE k = i
      BY <1>5, <3>1
    <3>2. CASE k # i
      BY <1>4, <3>2 DEF RecordsLegit
    <3> QED  BY <3>1, <3>2
  <2>3. PICK uid : uid = heap[bus[k].obj].uid
    OBVIOUS
  <2>4. Legit(uid)' /\ uid = heap'[bus'[k].obj].uid
    BY <1>2, <1>7, <2>1, <2>2, <2>3
  <2> QED  BY <2>4
<1>9. NoFalseDeletion'
  <2> SUFFICES ASSUME NEW u \in DOMAIN row', row'[u].deleted
               PROVE  Legit(u)'
    BY DEF NoFalseDeletion, Legit
  <2>1. Legit(u)
    BY DEF NoFalseDeletion, Legit
  <2> QED  BY <1>2, <2>1
<1>10. StoredHasRow'
  <2> SUFFICES ASSUME NEW k \in DOMAIN handler', handler'[k].pc = "stored"
               PROVE  heap'[bus'[k].obj].uid \in DOMAIN row'
    BY DEF StoredHasRow
  <2>1. k \in DOMAIN bus
    BY <1>3, <1>4 DEF FlowTypeOK, StorageEvents
  <2>2. heap[bus[k].obj].uid \in DOMAIN row'
    BY <1>4, <1>5 DEF StoredHasRow
  <2> QED  BY <1>7, <2>1, <2>2
<1>11. missed' \subseteq DOMAIN bus' /\ subscribed'
  BY <1>1 DEF HandlerStep
<1> QED  BY <1>2, <1>6, <1>8, <1>9, <1>10, <1>11

(* The steps of the storage manager keep the invariant.                    *)
LEMMA StorageKeeps ==
  ASSUME FInv, NEW i \in StorageEvents, Storage(i)
  PROVE  FInv'
<1> USE DEF FInv
<1> DEFINE o == bus[i].obj
<1>1. /\ i \in DOMAIN bus /\ bus[i] \in Event /\ o \in Versions /\ HeapOK
      /\ heap[o] \in [name : Names, uid : Nat, dt : BOOLEAN]
  <2>1. i \in DOMAIN bus /\ HeapOK
    BY DEF StorageEvents, PInv, Shape, ObjectsOK
  <2>2. bus[i] \in Event /\ o \in Versions
    BY <2>1, LenProperties, ElementOfSeq DEF PInv, Shape, BusOK, Range
  <2> QED  BY <2>1, <2>2, HeapFacts
<1>2. bus[i].op \in {"UPDATE", "DELETE"}
  BY <1>1 DEF Event
<1>3. \A v \in Versions : heap[v].dt => Legit(heap[v].uid)
  BY DEF TravelLegit
<1>4. UNCHANGED heap => /\ HeapOK' /\ Len(heap') = Len(heap)
                        /\ \A v \in Versions : heap'[v].dt => Legit(heap[v].uid)
  BY <1>1, <1>3 DEF HeapOK, Versions
<1>5. CASE Inspect(i)
  <2> DEFINE to == Inspected(bus[i].op, heap[o].dt)
  <2>1. HandlerStep(i, {"start"}, to, FALSE) /\ UNCHANGED <<heap, row>>
    BY <1>5 DEF Inspect
  <2>2. /\ to \in {"clear", "set", "build"} /\ (to = "clear" => bus[i].op = "UPDATE")
        /\ to = "set" => bus[i].op = "DELETE"
    BY <1>2 DEF Inspected
  <2>3. FALSE \in BOOLEAN
    OBVIOUS
  <2> HIDE DEF to
  <2> QED  BY <1>4, <2>1, <2>2, <2>3, HandlerMoves
<1>6. CASE Stamp(i)
  <2>1. HandlerStep(i, {"clear", "set"}, "build", FALSE) /\ UNCHANGED row
    BY <1>6 DEF Stamp
  <2>2. /\ HeapOK' /\ Len(heap') = Len(heap)
        /\ \A v \in Versions : heap'[v].uid = heap[v].uid /\ heap'[v].name = heap[v].name
        /\ \A v \in Versions : heap'[v].dt => Legit(heap[v].uid)
    BY <1>6, StampWrites
  <2> QED  BY <2>1, <2>2, HandlerMoves
<1>7. CASE Build(i)
  <2>1. PICK mark \in BOOLEAN : HandlerStep(i, {"build"}, "pushed", mark) /\ mark = heap[o].dt
    BY <1>1, <1>7 DEF Build
  <2>2. UNCHANGED <<heap, row>> /\ (mark => Legit(heap[o].uid))
    BY <1>1, <1>3, <1>7, <2>1 DEF Build
  <2> QED  BY <1>4, <2>1, <2>2, HandlerMoves
<1>8. CASE Store(i)
  <2> DEFINE uid == heap[o].uid
  <2>1. i \in DOMAIN handler /\ handler[i].deleted \in BOOLEAN
    BY <1>8 DEF Store, HandlerStep, Pc, FlowTypeOK
  <2>2. PICK mark \in BOOLEAN : HandlerStep(i, {"pushed"}, "stored", mark) /\ mark = handler[i].deleted
    BY <1>8, <2>1 DEF Store
  <2>3. /\ row' = [u \in DOMAIN row \cup {uid} |->
                     IF u = uid THEN [version |-> o, deleted |-> handler[i].deleted] ELSE row[u]]
        /\ UNCHANGED heap
    BY <1>8 DEF Store
  <2>4. handler[i].deleted => Legit(uid)
    BY <2>1 DEF RecordsLegit
  <2>5. /\ DOMAIN row' = DOMAIN row \cup {uid}
        /\ row'[uid].version = o /\ row'[uid].deleted = handler[i].deleted
        /\ \A u \in DOMAIN row' : u # uid => u \in DOMAIN row /\ row'[u] = row[u]
    BY <2>3
  <2>6. row'[uid].deleted => Legit(uid)
    BY <2>4, <2>5
  <2>7. mark => Legit(uid)
    BY <2>2, <2>4
  <2>8. \A u \in DOMAIN row' :
          \/ u \in DOMAIN row /\ row'[u] = row[u]
          \/ u = uid /\ row'[u].version = o /\ (row'[u].deleted => Legit(u))
    BY <2>5, <2>6
  <2> QED  BY <1>4, <2>2, <2>3, <2>5, <2>7, <2>8, HandlerMoves
<1> QED  BY <1>5, <1>6, <1>7, <1>8 DEF Storage

(* The process dies, or the storage manager subscribes: no handler moves.  *)
LEMMA AroundKeeps ==
  ASSUME FInv, Subscribe \/ \E i \in StorageEvents : Race(i)
  PROVE  FInv'
<1> USE DEF FInv
<1>1. /\ UNCHANGED <<cluster, informer, workqueue, worker, retries, registering, bus, heap,
                     handler, row>>
      /\ crashed' \in BOOLEAN
  BY DEF Subscribe, Race, Elsewhere, vars, PInv, Shape, RetriesOK
<1>2. HeapOK' /\ \A v \in Versions : heap'[v].dt => Legit(heap[v].uid)
  BY <1>1 DEF TravelLegit, PInv, Shape, ObjectsOK, HeapOK, Versions
<1>3. /\ PInv' /\ TravelLegit' /\ Routed' /\ Versions' = Versions
      /\ \A uid : Legit(uid) => Legit(uid)'
  BY <1>1, <1>2, WriteKeeps
<1>4. RecordsLegit' /\ NoFalseDeletion' /\ StoredHasRow'
  BY <1>1 DEF RecordsLegit, NoFalseDeletion, StoredHasRow, Legit, Gone, cluster
<1>5. CASE Subscribe
  <2>1. ~subscribed /\ subscribed' /\ missed' = DOMAIN bus /\ DOMAIN handler' = {}
    BY <1>1, <1>5 DEF Subscribe
  <2> QED  BY <1>1, <1>3, <1>4, <2>1 DEF FlowTypeOK
<1>6. CASE \E i \in StorageEvents : Race(i)
  <2>1. UNCHANGED <<missed, subscribed>>
    BY <1>6 DEF Race, Elsewhere
  <2> QED  BY <1>1, <1>3, <1>4, <2>1 DEF FlowTypeOK, StorageEvents
<1> QED  BY <1>5, <1>6

(* Nothing is stored, nobody has subscribed.                               *)
LEMMA InitFInv == FlowInit => FInv
<1> SUFFICES ASSUME FlowInit PROVE FInv
  OBVIOUS
<1>1. PInv
  BY InitPInv DEF FlowInit
<1>2. DOMAIN handler = {} /\ DOMAIN row = {} /\ missed = {} /\ ~subscribed
  BY DEF FlowInit
<1>3. /\ heap = <<>> /\ notes = <<>> /\ bus = <<>> /\ dirty = {} /\ dropped = {}
      /\ worker = [w \in PoolWorkers |-> Idle]
  BY DEF FlowInit, Init
<1>4. Versions = {} /\ Range(notes) = {} /\ Range(bus) = {}
  BY <1>3 DEF Versions, Range
<1>5. \A w \in PoolWorkers : worker[w].pc = "idle"
  BY <1>3 DEF Idle
<1>6. TravelLegit /\ Routed
  BY <1>3, <1>4, <1>5 DEF TravelLegit, Routed, Held
<1>7. FlowTypeOK /\ RecordsLegit /\ NoFalseDeletion /\ StoredHasRow
  BY <1>2 DEF FlowTypeOK, RecordsLegit, NoFalseDeletion, StoredHasRow
<1> QED  BY <1>1, <1>2, <1>6, <1>7 DEF FInv

(* Every step keeps the invariant.                                         *)
LEMMA FlowKeepsFInv == FInv /\ [FlowNext]_flowVars => FInv'
<1> SUFFICES ASSUME FInv, [FlowNext]_flowVars PROVE FInv'
  OBVIOUS
<1>1. CASE Upstream
  BY <1>1, UpstreamKeeps DEF Upstream, Unstored
<1>2. CASE UNCHANGED flowVars
  BY <1>2, UpstreamKeeps DEF flowVars
<1>3. CASE Subscribe \/ \E i \in StorageEvents : Race(i)
  BY <1>3, AroundKeeps
<1>4. CASE \E i \in StorageEvents : Storage(i)
  BY <1>4, StorageKeeps
<1> QED  BY <1>1, <1>2, <1>3, <1>4 DEF FlowNext

-----------------------------------------------------------------------------
(* The inductive invariant of the flow from the cluster to the table.      *)
THEOREM FlowInvariant == FlowSpec => []FInv
BY InitFInv, FlowKeepsFInv, PTL DEF FlowSpec

(* The pipeline's own invariant survives the handlers' writes through the  *)
(* shared pointers, and so do its types and the two facts about events.    *)
THEOREM FlowKeepsPool == FlowSpec => [](TypeOK /\ LatestPublished /\ DeletionPublished)
<1>1. FInv => TypeOK /\ LatestPublished /\ DeletionPublished
  BY PoolIsTyped, PoolPublishesLatest, PoolPublishesDeletions DEF FInv
<1> QED  BY <1>1, FlowInvariant, PTL

(* The types of the storage side: each handler takes the branch of its     *)
(* event, and a row is of its own object.                                  *)
THEOREM FlowTypes == FlowSpec => []FlowTypeOK
<1>1. FInv => FlowTypeOK
  BY DEF FInv
<1> QED  BY <1>1, FlowInvariant, PTL

(* NoFalseDeletion: however the handlers of an object's events interleave  *)
(* on its deletion timestamp, deleted_at is set only of deleted objects.   *)
THEOREM DeletionIsTrue == FlowSpec => []NoFalseDeletion
<1>1. FInv => NoFalseDeletion
  BY DEF FInv
<1> QED  BY <1>1, FlowInvariant, PTL

(* A published event of a stored kind has left a row when all is quiet.    *)
LEMMA PublishedHasRow ==
  ASSUME ~IsCrd, FInv, AtRest, NEW i \in DOMAIN bus
  PROVE  HasRow(heap[bus[i].obj].uid)
<1> USE DEF FInv, HasRow
<1>1. CASE i \notin missed
  <2>1. i \in StorageEvents
    BY <1>1 DEF Routed, Range, StorageEvents
  <2>2. i \in DOMAIN handler /\ handler[i].pc = "stored"
    BY <2>1 DEF AtRest, Pc
  <2> QED  BY <2>2 DEF StoredHasRow
<1> QED  BY <1>1

(* The invariant gives a row to every object that is not dropped.          *)
LEMMA RestHasRow == ASSUME ~IsCrd, FInv PROVE RowForEveryObject
<1> SUFFICES ASSUME AtRest PROVE RowForEveryObject
  BY DEF RowForEveryObject
<1> USE DEF FInv
<1>1. ASSUME NEW n \in Names, api[n] # Nil, n \notin dropped
      PROVE  HasRow(heap[api[n]].uid)
  BY <1>1, RestIsPublished, PublishedHasRow DEF AtRest
<1>2. ASSUME NEW uid \in deleted PROVE HasRow(uid)
  BY <1>2, RestIsPublished, PublishedHasRow DEF AtRest
<1> QED  BY <1>1, <1>2 DEF RowForEveryObject

(* RowForEveryObject, in every configuration, the default of all           *)
(* namespaces included, where the second lookup may miss: an object of a   *)
(* stored kind is missing from the table only if it was given up after     *)
(* MaxRequeues (processNext) or came too early.                            *)
THEOREM EveryObjectHasRow ==
  ASSUME ~IsCrd
  PROVE  FlowSpec => []RowForEveryObject
<1>1. FInv => RowForEveryObject
  BY RestHasRow
<1> QED  BY <1>1, FlowInvariant, PTL

(* The objects that the cluster holds.                                     *)
Living == {heap[api[n]].uid : n \in {m \in Names : api[m] # Nil}}

(* A kind that is looked up under the lock, by its own namespace, is never *)
(* given up: every object has its row once all is quiet.                   *)
THEOREM NothingGivenUp ==
  ASSUME ~IsCrd, ~AllNamespaces
  PROVE  FlowSpec => [](AtRest => \A uid \in Living \cup deleted : HasRow(uid))
<1>1. FInv => (AtRest => \A uid \in Living \cup deleted : HasRow(uid))
  <2> SUFFICES ASSUME FInv, AtRest, NEW uid \in Living \cup deleted PROVE HasRow(uid)
    OBVIOUS
  <2>1. dropped = {} /\ RowForEveryObject
    BY RestHasRow DEF FInv, Routed
  <2> QED  BY <2>1 DEF RowForEveryObject, Living
<1> QED  BY <1>1, FlowInvariant, PTL
=============================================================================
