------------------------- MODULE RouterPoolProofs -------------------------
(***************************************************************************)
(* Proofs about RouterPool for every set of objects, every pool of workers *)
(* and every number of changes and retries: the types of the pipeline,     *)
(* that at rest the present version of every object has been published,    *)
(* and that a DELETE has been published of every deletion noticed.         *)
(***************************************************************************)
EXTENDS RouterPool, SequenceTheorems, WellFoundedInduction, TLAPS

-----------------------------------------------------------------------------
(* The inductive invariant.  Objects: an uid is no younger than a version  *)
(* of it and belongs to one name; caches hold an object under its name.    *)
Versions == 1..Len(heap)

Note == [type : {"add", "update", "delete"}, old : Nat, new : Nat]
Event == [obj : Nat, op : {"UPDATE", "DELETE"}, target : {"MANAGER", "STORAGE"}]
AnyItem == [name : Names, object : Nat]

HeapOK ==
  /\ heap \in Seq([name : Names, uid : Nat, dt : BOOLEAN]) /\ Len(heap) <= MaxVersion
  /\ \A v \in Versions : heap[v].uid \in 1..v
  /\ \A u, v \in Versions : heap[u].uid = heap[v].uid => heap[u].name = heap[v].name

Caches(cache) ==
  /\ cache \in [Names -> Nat]
  /\ \A n \in Names : cache[n] # Nil => cache[n] \in Versions /\ heap[cache[n]].name = n

ObjectsOK == HeapOK /\ Caches(api) /\ Caches(store) /\ terminating \subseteq Versions

(* A notification carries the objects its handler uses, and nothing else   *)
(* where the handler tells additions and deletions from updates.           *)
NoteOK(x) ==
  /\ x.type = "add" => x.old = Nil /\ x.new \in Versions
  /\ x.type = "update" => x.old \in Versions /\ x.new \in Versions
  /\ x.type = "delete" => x.old \in Versions /\ x.new = Nil

NotesOK ==
  /\ notes \in Seq(Note)
  /\ \A x \in Range(notes) : NoteOK(x)

BusOK ==
  /\ bus \in Seq(Event)
  /\ \A e \in Range(bus) : e.obj \in Versions

(* An item that carries an object carries the name of that object.         *)
ItemOK(item) ==
  /\ item \in AnyItem
  /\ item.object # Nil => item.object \in Versions /\ heap[item.object].name = item.name

(* The work queue: what is queued is dirty and not being processed, and no *)
(* item is queued twice.                                                   *)
QueueOK ==
  /\ queue \in Seq(AnyItem) /\ IsInjective(queue)
  /\ Range(queue) \subseteq dirty \ processing
  /\ \A item \in dirty \cup processing : ItemOK(item)

(* No item is in the hands of two workers, and what a worker has in hand   *)
(* is being processed.  Only keys fail and back off.                       *)
WorkersOK ==
  /\ worker \in [PoolWorkers -> [pc : {"idle", "got", "ok", "failed"}, item : AnyItem]]
  /\ \A w \in PoolWorkers :
       /\ worker[w].pc # "idle" => worker[w].item \in processing
       /\ worker[w].pc = "idle" => worker[w].item.object = Nil
       /\ worker[w].pc = "failed" => worker[w].item.object = Nil
  /\ \A w, z \in PoolWorkers :
       w # z /\ worker[w].pc # "idle" /\ worker[z].pc # "idle" => worker[w].item # worker[z].item

RetriesOK ==
  /\ requeues \in [Names -> 0..MaxRequeues] /\ dropped \subseteq Names
  /\ \A item \in delayed : ItemOK(item) /\ item.object = Nil
  /\ registering \in BOOLEAN /\ crashed \in BOOLEAN

Shape == ObjectsOK /\ NotesOK /\ BusOK /\ QueueOK /\ WorkersOK /\ RetriesOK

(* What is still to be reconciled.                                         *)
Held == dirty \cup {worker[w].item : w \in {z \in PoolWorkers : worker[z].pc = "got"}}

(* The cached version of an object has been published or will be: it is in *)
(* a notification that the handler will not take for a resync, or its key, *)
(* or an item that carries it, is on its way through the pool.             *)
Published(v) == \E e \in Range(bus) : e.obj = v
Failed(item) == \E w \in PoolWorkers : worker[w].pc = "failed" /\ worker[w].item = item

PublishDue(n) ==
  LET key == [name |-> n, object |-> Nil]
  IN  \/ n \in dropped \/ Published(store[n])
      \/ \E x \in Range(notes) : x.new = store[n] /\ x.old # x.new
      \/ key \in Held \cup delayed \/ Failed(key)
      \/ [name |-> n, object |-> store[n]] \in Held

LatestDue == \A n \in Names : store[n] # Nil => PublishDue(n)

(* So has a DELETE of every object whose deletion the informer noticed.    *)
DeletePublished(uid) == \E e \in Range(bus) : heap[e.obj].uid = uid /\ e.op = "DELETE"

DeleteDue(uid) ==
  \/ DeletePublished(uid)
  \/ \E x \in Range(notes) : x.type = "delete" /\ heap[x.old].uid = uid
  \/ \E item \in Held : item.object # Nil /\ heap[item.object].uid = uid

DeletionsDue == \A uid \in deleted : uid \in Nat /\ DeleteDue(uid)

(* Whatever travels is of an object that the informer still caches or that *)
(* it saw deleted or replaced.                                             *)
Seen == deleted \cup replaced \cup {heap[store[n]].uid : n \in {m \in Names : store[m] # Nil}}

SeenOnly ==
  /\ \A x \in Range(notes) : x.new # Nil => heap[x.new].uid \in Seen
  /\ \A x \in Range(notes) : x.type = "delete" => heap[x.old].uid \in Seen
  /\ \A item \in Held : item.object # Nil => heap[item.object].uid \in Seen
  /\ \A e \in Range(bus) : heap[e.obj].uid \in Seen

PInv == Shape /\ LatestDue /\ DeletionsDue /\ SeenOnly

-----------------------------------------------------------------------------
(* What Append and Tail, the work queue's and the watch's moves, do to the *)
(* elements of a sequence.                                                 *)
LEMMA AppendElements ==
  ASSUME NEW S, NEW s \in Seq(S), NEW e \in S
  PROVE  /\ Append(s, e) \in Seq(S) /\ Range(Append(s, e)) = Range(s) \cup {e}
         /\ Range(s) \subseteq S
         /\ IsInjective(s) /\ e \notin Range(s) => IsInjective(Append(s, e))
<1>1. /\ Append(s, e) \in Seq(S) /\ Len(Append(s, e)) = Len(s) + 1
      /\ Append(s, e)[Len(s) + 1] = e /\ \A i \in 1..Len(s) : Append(s, e)[i] = s[i]
  BY AppendProperties
<1>2. Len(s) \in Nat /\ DOMAIN s = 1..Len(s) /\ DOMAIN Append(s, e) = 1..Len(s) + 1
      /\ \A i \in 1..Len(s) : s[i] \in S
  BY <1>1, LenProperties, ElementOfSeq
<1>3. Range(Append(s, e)) = Range(s) \cup {e}
  <2>1. \A x \in Range(Append(s, e)) : x \in Range(s) \cup {e}
    BY <1>1, <1>2 DEF Range
  <2>2. \A x \in Range(s) : x \in Range(Append(s, e))
    BY <1>1, <1>2 DEF Range
  <2>3. Len(s) + 1 \in 1..Len(s) + 1
    BY <1>2
  <2>4. e \in Range(Append(s, e))
    BY <1>1, <1>2, <2>3 DEF Range
  <2> QED  BY <2>1, <2>2, <2>4
<1>4. IsInjective(s) /\ e \notin Range(s) => IsInjective(Append(s, e))
  <2> SUFFICES ASSUME IsInjective(s), e \notin Range(s),
                      NEW a \in 1..Len(s) + 1, NEW b \in 1..Len(s) + 1,
                      Append(s, e)[a] = Append(s, e)[b]
               PROVE  a = b
    BY <1>2 DEF IsInjective
  <2>1. \A i \in 1..Len(s) : s[i] # e
    BY <1>2 DEF Range
  <2>2. CASE a \in 1..Len(s) /\ b \in 1..Len(s)
    BY <1>1, <1>2, <2>2 DEF IsInjective
  <2>3. CASE a = Len(s) + 1 \/ b = Len(s) + 1
    BY <1>1, <1>2, <2>1, <2>3
  <2> QED  BY <1>2, <2>2, <2>3
<1> QED  BY <1>1, <1>2, <1>3, <1>4 DEF Range

(* Tail drops the first element and keeps the others.                      *)
LEMMA TailElements ==
  ASSUME NEW S, NEW s \in Seq(S), s # <<>>
  PROVE  /\ Head(s) \in S /\ Tail(s) \in Seq(S) /\ Head(s) \in Range(s)
         /\ Range(s) = {Head(s)} \cup Range(Tail(s))
         /\ IsInjective(s) => IsInjective(Tail(s)) /\ Head(s) \notin Range(Tail(s))
<1>1. /\ Head(s) \in S /\ Tail(s) \in Seq(S) /\ Len(Tail(s)) = Len(s) - 1
      /\ \A i \in 1..Len(s) - 1 : Tail(s)[i] = s[i + 1]
  BY HeadTailProperties
<1>2. /\ Len(s) \in Nat \ {0} /\ DOMAIN s = 1..Len(s) /\ DOMAIN Tail(s) = 1..Len(s) - 1
      /\ Head(s) = s[1] /\ 1 \in 1..Len(s)
  BY <1>1, EmptySeq, LenProperties
<1>3. \A i \in 1..Len(s) - 1 : i + 1 \in 1..Len(s) /\ i + 1 # 1
  BY <1>2
<1>4. \A j \in 1..Len(s) : j = 1 \/ (j - 1 \in 1..Len(s) - 1 /\ j = (j - 1) + 1)
  BY <1>2
<1>5. Head(s) \in Range(s)
  BY <1>2 DEF Range
<1>6. \A x \in Range(Tail(s)) : x \in Range(s)
  BY <1>1, <1>2, <1>3 DEF Range
<1>7. \A x \in Range(s) : x = Head(s) \/ x \in Range(Tail(s))
  <2> SUFFICES ASSUME NEW j \in 1..Len(s), s[j] # Head(s)
               PROVE  s[j] \in Range(Tail(s))
    BY <1>2 DEF Range
  <2>1. j - 1 \in 1..Len(s) - 1 /\ s[j] = Tail(s)[j - 1]
    BY <1>1, <1>2, <1>4
  <2> QED  BY <1>2, <2>1 DEF Range
<1>8. ASSUME IsInjective(s)
      PROVE  IsInjective(Tail(s)) /\ Head(s) \notin Range(Tail(s))
  <2>1. \A a, b \in 1..Len(s) : s[a] = s[b] => a = b
    BY <1>2, <1>8 DEF IsInjective
  <2>2. \A a, b \in 1..Len(s) - 1 : Tail(s)[a] = Tail(s)[b] => a = b
    <3> SUFFICES ASSUME NEW a \in 1..Len(s) - 1, NEW b \in 1..Len(s) - 1,
                        Tail(s)[a] = Tail(s)[b]
                 PROVE  a = b
      OBVIOUS
    <3>1. a + 1 = b + 1
      BY <1>1, <1>3, <2>1
    <3> QED  BY <1>2, <3>1
  <2>3. \A a \in 1..Len(s) - 1 : Tail(s)[a] # Head(s)
    BY <1>1, <1>2, <1>3, <2>1
  <2> QED  BY <1>2, <2>2, <2>3 DEF IsInjective, Range
<1> QED  BY <1>1, <1>5, <1>6, <1>7, <1>8

-----------------------------------------------------------------------------
(* A change in the cluster, or a write through a shared pointer, leaves    *)
(* the names and uids of the objects that exist as they are.               *)
Grows ==
  /\ Len(heap) \in Nat /\ Len(heap') \in Nat /\ Len(heap) <= Len(heap')
  /\ \A v \in Versions : heap'[v].uid = heap[v].uid /\ heap'[v].name = heap[v].name

(* The heap is a sequence of objects.                                      *)
LEMMA HeapFacts ==
  ASSUME HeapOK
  PROVE  /\ Len(heap) \in Nat /\ DOMAIN heap = Versions /\ Nil \notin Versions
         /\ \A v \in Versions : /\ heap[v] \in [name : Names, uid : Nat, dt : BOOLEAN]
                                /\ heap[v].uid \in Versions
<1>1. Len(heap) \in Nat /\ DOMAIN heap = Versions /\ Nil \notin Versions
  BY LenProperties DEF HeapOK, Versions, Nil
<1>2. \A v \in Versions : heap[v] \in [name : Names, uid : Nat, dt : BOOLEAN]
  BY ElementOfSeq DEF HeapOK, Versions
<1>3. \A v \in Versions : heap[v].uid \in Versions
  BY <1>1 DEF HeapOK, Versions
<1> QED  BY <1>1, <1>2, <1>3

(* The parts of a notification.                                            *)
LEMMA NoteTypes ==
  ASSUME NotesOK, NEW x \in Range(notes)
  PROVE  /\ x \in Note
         /\ x.new # Nil => x.new \in Versions
         /\ x.type = "delete" => x.old \in Versions
<1>1. x \in Note
  <2>1. PICK i \in DOMAIN notes : x = notes[i]
    BY DEF Range
  <2> QED  BY <2>1, LenProperties, ElementOfSeq DEF NotesOK
<1> QED  BY <1>1 DEF NotesOK, NoteOK, Note

(* A new version at the end of the heap changes nothing that points into   *)
(* it.                                                                     *)
LEMMA GrowthKeeps ==
  ASSUME PInv, Grows, crashed' \in BOOLEAN,
         UNCHANGED <<informer, workqueue, worker, retries, registering, bus>>
  PROVE  /\ Caches(store)' /\ NotesOK' /\ BusOK' /\ QueueOK' /\ WorkersOK' /\ RetriesOK'
         /\ LatestDue' /\ DeletionsDue' /\ SeenOnly'
<1> USE DEF PInv, Shape, ObjectsOK, informer, workqueue, retries
<1>1. /\ \A v \in Versions : /\ v \in Versions' /\ heap'[v].uid = heap[v].uid
                             /\ heap'[v].name = heap[v].name
      /\ Nil \notin Versions
  BY DEF Grows, Versions, Nil
<1>2. Caches(store)'
  BY <1>1 DEF Caches
<1>3. NotesOK'
  BY <1>1 DEF NotesOK, NoteOK
<1>4. BusOK'
  BY <1>1 DEF BusOK
<1>5. \A item : ItemOK(item) => ItemOK(item)'
  BY <1>1 DEF ItemOK
<1>6. QueueOK' /\ RetriesOK'
  BY <1>5 DEF QueueOK, RetriesOK
<1>7. WorkersOK'
  BY DEF WorkersOK
<1>8. LatestDue'
  BY DEF LatestDue, PublishDue, Published, Failed, Held
<1>9. \A item \in Held : item.object # Nil => item.object \in Versions
  BY DEF Held, QueueOK, WorkersOK, ItemOK
<1>10. \A uid : DeleteDue(uid) => DeleteDue(uid)'
  BY <1>1, <1>9 DEF DeleteDue, DeletePublished, Held, NotesOK, NoteOK, BusOK
<1>11. DeletionsDue'
  BY <1>10 DEF DeletionsDue
<1>12. Seen' = Seen
  BY <1>1 DEF Seen, Caches
<1>13. SeenOnly'
  BY <1>1, <1>9, <1>12, NoteTypes DEF SeenOnly, BusOK, Held
<1> QED  BY <1>2, <1>3, <1>4, <1>6, <1>7, <1>8, <1>11, <1>13

(* The API server writes a new version of an object.                       *)
LEMMA NewVersionKeeps ==
  ASSUME PInv, NEW new \in [name : Names, uid : 1..Len(heap) + 1, dt : BOOLEAN],
         heap' = Append(heap, new), Len(heap) < MaxVersion,
         \A v \in Versions : heap[v].uid = new.uid => heap[v].name = new.name,
         \/ api' = [api EXCEPT ![new.name] = Len(heap')]
         \/ api' = [api EXCEPT ![new.name] = Nil],
         terminating' \subseteq terminating \cup {Len(heap) + 1},
         UNCHANGED <<informer, workqueue, worker, retries, registering, bus, crashed>>
  PROVE  PInv'
<1> USE DEF PInv, Shape, ObjectsOK
<1> DEFINE last == Len(heap) + 1
<1>1. /\ heap \in Seq([name : Names, uid : Nat, dt : BOOLEAN])
      /\ new \in [name : Names, uid : Nat, dt : BOOLEAN] /\ MaxVersion \in Nat
  BY PoolAssumption DEF HeapOK
<1>2. /\ Len(heap) \in Nat /\ Len(heap') = last /\ heap'[last] = new
      /\ \A v \in Versions : heap'[v] = heap[v]
      /\ heap' \in Seq([name : Names, uid : Nat, dt : BOOLEAN])
      /\ \A v \in Versions' : v = last \/ v \in Versions
      /\ last \in Versions' /\ Versions \subseteq Versions'
  BY <1>1, AppendProperties, LenProperties DEF Versions
<1>3. Grows
  <2>1. Len(heap) <= Len(heap') /\ Len(heap') \in Nat
    BY <1>2
  <2> QED  BY <1>2, <2>1 DEF Grows
<1>4. crashed' \in BOOLEAN
  BY DEF RetriesOK
<1>5. HeapOK'
  <2>1. Len(heap') <= MaxVersion
    BY <1>1, <1>2
  <2>2. \A v \in Versions' : heap'[v].uid \in 1..v
    BY <1>2 DEF HeapOK
  <2>3. \A u, v \in Versions' : heap'[u].uid = heap'[v].uid => heap'[u].name = heap'[v].name
    <3>1. \A v \in Versions : heap'[v].uid = new.uid => heap'[v].name = new.name
      BY <1>2
    <3>2. \A u, v \in Versions : heap'[u].uid = heap'[v].uid => heap'[u].name = heap'[v].name
      BY <1>2 DEF HeapOK
    <3>3. \A v \in Versions' : heap'[v] = new \/ v \in Versions
      BY <1>2
    <3>4. SUFFICES ASSUME NEW u \in Versions', NEW v \in Versions', heap'[u].uid = heap'[v].uid
                   PROVE  heap'[u].name = heap'[v].name
      OBVIOUS
    <3>5. CASE u \in Versions /\ v \in Versions
      BY <3>2, <3>4, <3>5
    <3>6. CASE heap'[u] = new \/ heap'[v] = new
      BY <3>1, <3>3, <3>4, <3>6
    <3> QED  BY <3>3, <3>5, <3>6
  <2> QED  BY <1>2, <2>1, <2>2, <2>3 DEF HeapOK
<1>6. Caches(api)'
  <2>1. new.name \in Names /\ last \in Nat /\ Nil \in Nat
    BY <1>2 DEF Nil
  <2>2. PICK top \in {Nil, last} : api' = [api EXCEPT ![new.name] = top]
    BY <1>2
  <2> HIDE DEF last
  <2>3. api' \in [Names -> Nat]
    BY <2>1, <2>2 DEF Caches
  <2>4. \A n \in Names : api'[n] # Nil => api'[n] \in Versions' /\ heap'[api'[n]].name = n
    BY <1>2, <2>1, <2>2 DEF Caches
  <2> QED  BY <2>3, <2>4 DEF Caches
<1>7. terminating' \subseteq Versions'
  BY <1>2
<1> QED  BY <1>3, <1>4, <1>5, <1>6, <1>7, GrowthKeeps

(* The cluster creates, changes or removes an object.                      *)
LEMMA ClusterKeeps ==
  ASSUME PInv, NEW n \in Names, Cluster(n)
  PROVE  PInv'
<1> USE DEF PInv, Shape, ObjectsOK
<1>1. Len(heap) \in Nat /\ Nil \notin Versions
  BY HeapFacts
<1>2. CASE Create(n)
  <2> DEFINE new == [name |-> n, uid |-> Len(heap) + 1, dt |-> FALSE]
  <2>1. new \in [name : Names, uid : 1..Len(heap) + 1, dt : BOOLEAN]
    BY <1>1
  <2>2. \A v \in Versions : heap[v].uid # Len(heap) + 1
    BY <1>1 DEF HeapOK, Versions
  <2>3. /\ new.name = n /\ new.uid = Len(heap) + 1
        /\ heap' = Append(heap, new) /\ Len(heap) < MaxVersion
        /\ api' = [api EXCEPT ![n] = Len(heap')]
        /\ terminating' \subseteq terminating \cup {Len(heap) + 1}
        /\ UNCHANGED <<informer, workqueue, worker, retries, registering, bus, crashed>>
    BY <1>2 DEF Create, NewVersion
  <2> HIDE DEF new
  <2> QED  BY <2>1, <2>2, <2>3, NewVersionKeeps
<1>3. ASSUME api[n] # Nil, NEW dt \in BOOLEAN, NewVersion(n, heap[api[n]].uid, dt),
             api' = [api EXCEPT ![n] = Len(heap')] \/ api' = [api EXCEPT ![n] = Nil]
      PROVE  PInv'
  <2> DEFINE new == [name |-> n, uid |-> heap[api[n]].uid, dt |-> dt]
  <2>1. api[n] \in Versions /\ heap[api[n]].name = n
    BY <1>3 DEF Caches
  <2>2. heap[api[n]].uid \in Nat /\ heap[api[n]].uid \in 1..Len(heap) + 1
    BY <1>1, <2>1, HeapFacts DEF Versions
  <2>3. new \in [name : Names, uid : 1..Len(heap) + 1, dt : BOOLEAN]
    BY <2>2
  <2>4. \A v \in Versions : heap[v].uid = heap[api[n]].uid => heap[v].name = n
    BY <2>1 DEF HeapOK
  <2>5. /\ new.name = n /\ new.uid = heap[api[n]].uid
        /\ heap' = Append(heap, new) /\ Len(heap) < MaxVersion
        /\ terminating' \subseteq terminating \cup {Len(heap) + 1}
        /\ UNCHANGED <<informer, workqueue, worker, retries, registering, bus, crashed>>
    BY <1>3 DEF NewVersion
  <2> HIDE DEF new
  <2> QED  BY <1>3, <2>3, <2>4, <2>5, NewVersionKeeps
<1>4. ASSUME NEW delete \in BOOLEAN, Modify(n, delete)
      PROVE  PInv'
  <2>1. (delete \/ api[n] \in terminating) \in BOOLEAN
    OBVIOUS
  <2> QED  BY <1>3, <1>4, <2>1 DEF Modify
<1>5. CASE Remove(n)
  <2>1. (api[n] \in terminating) \in BOOLEAN
    OBVIOUS
  <2> QED  BY <1>3, <1>5, <2>1 DEF Remove
<1> QED  BY <1>2, <1>4, <1>5 DEF Cluster

-----------------------------------------------------------------------------
(* The watch event of a deletion carries the object's last version.        *)
LEMMA LastElement ==
  ASSUME NEW k \in Nat, NEW T, T \subseteq 1..k, T # {}
  PROVE  \E x \in T : \A y \in T : y <= x
<1> DEFINE Less == OpToRel(<, Nat)
           D == {k - i : i \in T}
<1>1. \A i \in T : k - i \in Nat /\ i \in Nat
  OBVIOUS
<1>2. D \subseteq Nat /\ D # {}
  BY <1>1
<1>3. PICK d \in D : \A y \in D : ~ (<<y, d>> \in Less)
  BY <1>2, NatLessThanWellFounded, WFMin
<1>4. PICK x \in T : d = k - x
  OBVIOUS
<1>5. ASSUME NEW y \in T
      PROVE  y <= x
  <2>1. k - y \in D /\ k - y \in Nat /\ k - x \in Nat
    BY <1>1
  <2>2. ~ (k - y < k - x)
    BY <1>3, <1>4, <2>1 DEF OpToRel
  <2> QED  BY <1>1, <2>2
<1> QED  BY <1>5

(* The final version of an object is one of its versions.                  *)
LEMMA FinalVersionIsVersion ==
  ASSUME HeapOK, NEW v \in Versions
  PROVE  FinalVersion(heap[v].uid) \in Versions /\ heap[FinalVersion(heap[v].uid)].uid = heap[v].uid
<1> DEFINE T == {u \in Versions : heap[u].uid = heap[v].uid}
<1>1. Len(heap) \in Nat
  BY HeapFacts
<1>2. PICK x \in T : \A y \in T : y <= x
  BY <1>1, LastElement DEF Versions
<1>3. x \in 1..Len(heap) /\ \A u \in x + 1..Len(heap) : heap[u].uid # heap[v].uid
  BY <1>1, <1>2 DEF Versions
<1> QED  BY <1>2, <1>3 DEF FinalVersion, Versions

(* The informer changes its cache and notifies its router.                 *)
LEMMA NotifyKeeps ==
  ASSUME PInv, NEW n \in Names, NEW v \in Nat,
         NEW note \in Note,
         Notify(n, v, note), NoteOK(note),
         v # Nil => v \in Versions /\ heap[v].name = n,
         v \in {Nil, store[n]} \/ (note.new = v /\ note.old # v),
         note.new \in {Nil, v},
         deleted \subseteq deleted', replaced \subseteq replaced',
         note.type = "delete" => heap[note.old].uid \in deleted',
         \A uid \in deleted' \ deleted :
           uid \in Nat /\ note.type = "delete" /\ heap[note.old].uid = uid,
         store[n] # Nil => \/ heap[store[n]].uid \in deleted' \cup replaced'
                           \/ v # Nil /\ heap[v].uid = heap[store[n]].uid
  PROVE  PInv'
<1> USE DEF PInv, Shape, ObjectsOK
<1>1. /\ store' = [store EXCEPT ![n] = v] /\ notes' = Append(notes, note)
      /\ UNCHANGED <<api, terminating, heap, queue, dirty, processing, worker, delayed,
                     requeues, dropped, registering, bus, crashed>>
  BY DEF Notify, cluster, workqueue, retries
<1>2. /\ notes' \in Seq(Note)
      /\ Range(notes') = Range(notes) \cup {note}
  BY <1>1, AppendElements DEF NotesOK
<1>3. /\ store' \in [Names -> Nat] /\ store'[n] = v
      /\ \A m \in Names : m # n => store'[m] = store[m]
  BY <1>1 DEF Caches
<1>4. Versions' = Versions
  BY <1>1 DEF Versions
<1>5. ObjectsOK'
  <2>1. HeapOK' /\ Caches(api)' /\ terminating' \subseteq Versions'
    BY <1>1, <1>4 DEF HeapOK, Caches
  <2>2. Caches(store)'
    BY <1>1, <1>3, <1>4 DEF Caches
  <2> QED  BY <2>1, <2>2
<1>6. NotesOK'
  BY <1>2, <1>4 DEF NotesOK, NoteOK
<1>7. BusOK' /\ QueueOK' /\ WorkersOK' /\ RetriesOK' /\ Held' = Held
  <2>1. \A item : ItemOK(item) => ItemOK(item)'
    BY <1>1, <1>4 DEF ItemOK
  <2>2. BusOK' /\ QueueOK' /\ RetriesOK'
    BY <1>1, <1>4, <2>1 DEF BusOK, QueueOK, RetriesOK
  <2>3. WorkersOK' /\ Held' = Held
    BY <1>1 DEF WorkersOK, Held
  <2> QED  BY <2>2, <2>3
<1>8. LatestDue'
  <2> SUFFICES ASSUME NEW m \in Names, store'[m] # Nil
               PROVE  PublishDue(m)'
    BY DEF LatestDue
  <2>1. CASE store'[m] = store[m]
    BY <1>1, <1>2, <1>7, <2>1 DEF LatestDue, PublishDue, Published, Failed
  <2>2. CASE store'[m] # store[m]
    <3>1. store'[m] = v /\ note.new = v /\ note.old # v
      BY <1>3, <2>2
    <3> QED  BY <1>2, <3>1 DEF PublishDue
  <2> QED  BY <2>1, <2>2
<1>9. DeletionsDue'
  BY <1>1, <1>2, <1>7 DEF DeletionsDue, DeleteDue, DeletePublished
<1>10. Seen \subseteq Seen'
  <2> SUFFICES ASSUME NEW m \in Names, store[m] # Nil
               PROVE  heap[store[m]].uid \in Seen'
    BY DEF Seen
  <2>1. CASE m = n
    <3>1. CASE heap[store[n]].uid \in deleted' \cup replaced'
      BY <2>1, <3>1 DEF Seen
    <3>2. CASE v # Nil /\ heap[v].uid = heap[store[n]].uid
      BY <1>1, <1>3, <2>1, <3>2 DEF Seen
    <3> QED  BY <2>1, <3>1, <3>2
  <2>2. CASE m # n
    BY <1>1, <1>3, <2>2 DEF Seen
  <2> QED  BY <2>1, <2>2
<1>11. /\ note.new # Nil => heap[note.new].uid \in Seen'
       /\ note.type = "delete" => heap[note.old].uid \in Seen'
  BY <1>1, <1>3 DEF Seen
<1>12. SeenOnly'
  BY <1>1, <1>2, <1>7, <1>10, <1>11 DEF SeenOnly
<1> QED  BY <1>5, <1>6, <1>7, <1>8, <1>9, <1>12

(* The informer lists or watches.                                          *)
LEMMA InformerKeeps ==
  ASSUME PInv, NEW n \in Names, Informer(n) \/ InformerResync(n)
  PROVE  PInv'
<1> USE DEF PInv, Shape, ObjectsOK
<1>1. /\ Nil \in Nat /\ Nil \notin Versions /\ api[n] \in Nat /\ store[n] \in Nat
      /\ api[n] # Nil => api[n] \in Versions /\ heap[api[n]].name = n
      /\ store[n] # Nil => store[n] \in Versions /\ heap[store[n]].name = n
  BY HeapFacts DEF Caches, Nil
<1>2. CASE InformerAdd(n)
  <2> DEFINE note == [type |-> "add", old |-> Nil, new |-> api[n]]
  <2>1. /\ note \in Note
        /\ note.type = "add" /\ note.new = api[n] /\ note.old = Nil
        /\ Notify(n, api[n], note) /\ api[n] # Nil /\ store[n] = Nil
        /\ UNCHANGED <<deleted, replaced>>
    BY <1>1, <1>2 DEF InformerAdd, Note
  <2>2. NoteOK(note)
    BY <1>1, <2>1 DEF NoteOK
  <2> HIDE DEF note
  <2> QED  BY <1>1, <2>1, <2>2, NotifyKeeps
<1>3. CASE InformerUpdate(n)
  <2> DEFINE note == [type |-> "update", old |-> store[n], new |-> api[n]]
  <2>1. /\ note \in Note
        /\ note.type = "update" /\ note.new = api[n] /\ note.old = store[n]
        /\ Notify(n, api[n], note) /\ api[n] # Nil /\ store[n] # Nil /\ api[n] # store[n]
        /\ replaced' = replaced \cup ({heap[store[n]].uid} \ {heap[api[n]].uid})
        /\ UNCHANGED deleted
    BY <1>1, <1>3 DEF InformerUpdate, Note
  <2>2. NoteOK(note)
    BY <1>1, <2>1 DEF NoteOK
  <2> HIDE DEF note
  <2> QED  BY <1>1, <2>1, <2>2, NotifyKeeps
<1>4. CASE InformerDelete(n)
  <2>1. PICK v \in {FinalVersion(heap[store[n]].uid), store[n]} :
               Notify(n, Nil, [type |-> "delete", old |-> v, new |-> Nil])
    BY <1>4 DEF InformerDelete
  <2>2. store[n] # Nil /\ deleted' = deleted \cup {heap[store[n]].uid} /\ UNCHANGED replaced
    BY <1>4 DEF InformerDelete
  <2>3. v \in Versions /\ heap[v].uid = heap[store[n]].uid /\ v \in Nat /\ heap[v].uid \in Nat
    BY <1>1, <2>1, <2>2, FinalVersionIsVersion, HeapFacts DEF Versions
  <2> DEFINE note == [type |-> "delete", old |-> v, new |-> Nil]
  <2>4. /\ note \in Note
        /\ note.type = "delete" /\ note.new = Nil /\ note.old = v
        /\ Notify(n, Nil, note)
    BY <1>1, <2>1, <2>3 DEF Note
  <2>5. NoteOK(note)
    BY <2>3, <2>4 DEF NoteOK
  <2> HIDE DEF note
  <2> QED  BY <1>1, <2>2, <2>3, <2>4, <2>5, NotifyKeeps
<1>5. CASE InformerResync(n)
  <2> DEFINE note == [type |-> "update", old |-> store[n], new |-> store[n]]
  <2>1. /\ note \in Note
        /\ note.type = "update" /\ note.new = store[n] /\ note.old = store[n]
        /\ Notify(n, store[n], note) /\ store[n] # Nil
        /\ UNCHANGED <<deleted, replaced>>
    BY <1>1, <1>5 DEF InformerResync, Note
  <2>2. NoteOK(note)
    BY <1>1, <2>1 DEF NoteOK
  <2> HIDE DEF note
  <2> QED  BY <1>1, <2>1, <2>2, NotifyKeeps
<1> QED  BY <1>2, <1>3, <1>4, <1>5 DEF Informer

-----------------------------------------------------------------------------
(* An item that is added is held until a worker has reconciled it, whether *)
(* it is new, queued already or being processed at this moment.            *)
LEMMA AddHolds ==
  ASSUME QueueOK, WorkersOK, NEW item, ItemOK(item), Add(item), UNCHANGED <<heap, worker>>
  PROVE  QueueOK' /\ WorkersOK' /\ Held' = Held \cup {item}
<1>1. \A it : ItemOK(it) => ItemOK(it)'
  BY DEF ItemOK, Versions
<1>2. item \in AnyItem /\ queue \in Seq(AnyItem)
  BY DEF ItemOK, QueueOK
<1>3. QueueOK'
  <2>1. CASE item \in dirty \cup processing
    BY <1>1, <2>1 DEF Add, QueueOK
  <2>2. CASE item \notin dirty \cup processing
    <3>1. queue' = Append(queue, item) /\ item \notin Range(queue)
      BY <2>2 DEF Add, QueueOK
    <3>2. queue' \in Seq(AnyItem) /\ Range(queue') = Range(queue) \cup {item} /\ IsInjective(queue')
      BY <1>2, <3>1, AppendElements DEF QueueOK
    <3> QED  BY <1>1, <2>2, <3>2 DEF Add, QueueOK
  <2> QED  BY <2>1, <2>2
<1>4. WorkersOK'
  BY DEF WorkersOK, Add
<1>5. Held' = Held \cup {item}
  BY DEF Held, Add
<1> QED  BY <1>3, <1>4, <1>5

(* onAdd, onUpdate, onDelete: the notification becomes an item or an       *)
(* event.                                                                  *)
LEMMA RouterKeeps ==
  ASSUME PInv, Router
  PROVE  PInv'
<1> USE DEF PInv, Shape, ObjectsOK
<1> DEFINE x == Head(notes)
<1>1. /\ notes # <<>> /\ notes' = Tail(notes) /\ notes \in Seq(Note)
      /\ UNCHANGED <<api, terminating, heap, store, deleted, replaced, worker, delayed,
                     requeues, dropped, registering, bus, crashed>>
  BY DEF Router, OnAdd, OnUpdate, OnDelete, HandleNote, cluster, retries, NotesOK
<1>2. /\ x \in Note /\ x \in Range(notes) /\ notes' \in Seq(Note)
      /\ Range(notes) = {x} \cup Range(notes')
  BY <1>1, TailElements
<1>3. Versions' = Versions /\ Seen' = Seen
  BY <1>1 DEF Versions, Seen
<1>4. ObjectsOK' /\ NotesOK' /\ BusOK'
  BY <1>1, <1>2, <1>3 DEF HeapOK, Caches, NotesOK, NoteOK, BusOK
<1>5. RetriesOK'
  BY <1>1, <1>3 DEF RetriesOK, ItemOK
<1>6. NoteOK(x)
  BY <1>2 DEF NotesOK
<1> HIDE DEF x
<1>7. ASSUME NEW item, ItemOK(item), Add(item),
             x.new # Nil => item.name = heap[x.new].name /\ item.object \in {Nil, x.new},
             x.type = "delete" => item.object = x.old
      PROVE  PInv'
  <2>1. QueueOK' /\ WorkersOK' /\ Held' = Held \cup {item}
    BY <1>1, <1>7, AddHolds
  <2>2. LatestDue'
    <3> SUFFICES ASSUME NEW n \in Names, store[n] # Nil
                 PROVE  PublishDue(n)'
      BY <1>1 DEF LatestDue
    <3>1. PublishDue(n) /\ heap[store[n]].name = n
      BY DEF LatestDue, Caches
    <3>2. CASE x.new = store[n]
      <4>1. item = [name |-> n, object |-> Nil] \/ item = [name |-> n, object |-> store[n]]
        BY <1>7, <3>1, <3>2 DEF ItemOK, AnyItem
      <4> QED  BY <1>1, <2>1, <4>1 DEF PublishDue
    <3>3. CASE x.new # store[n]
      BY <1>1, <1>2, <2>1, <3>1, <3>3 DEF PublishDue, Published, Failed
    <3> QED  BY <3>2, <3>3
  <2>3. DeletionsDue'
    <3> SUFFICES ASSUME NEW uid \in deleted PROVE DeleteDue(uid)'
      BY <1>1 DEF DeletionsDue
    <3>1. DeleteDue(uid)
      BY DEF DeletionsDue
    <3>2. CASE x.type = "delete" /\ heap[x.old].uid = uid
      <4>1. item.object # Nil /\ heap[item.object].uid = uid
        BY <1>6, <1>7, <3>2, HeapFacts DEF NoteOK
      <4> QED  BY <1>1, <2>1, <4>1 DEF DeleteDue
    <3>3. CASE ~(x.type = "delete" /\ heap[x.old].uid = uid)
      BY <1>1, <1>2, <2>1, <3>1, <3>3 DEF DeleteDue, DeletePublished
    <3> QED  BY <3>2, <3>3
  <2>4. SeenOnly'
    <3>1. item.object # Nil => heap[item.object].uid \in Seen
      <4>1. x.type = "delete" \/ x.new # Nil
        BY <1>2, <1>6, HeapFacts DEF NoteOK, Note
      <4> QED  BY <1>2, <1>7, <4>1 DEF SeenOnly
    <3> QED  BY <1>1, <1>2, <1>3, <2>1, <3>1 DEF SeenOnly
  <2> QED  BY <1>4, <1>5, <2>1, <2>2, <2>3, <2>4
<1>8. \A v \in Versions : /\ ItemOK(KeyItem(v)) /\ ItemOK(ObjectItem(v))
                          /\ KeyItem(v).name = heap[v].name /\ KeyItem(v).object = Nil
                          /\ ObjectItem(v).name = heap[v].name /\ ObjectItem(v).object = v
  <2> TAKE v \in Versions
  <2>1. heap[v].name \in Names /\ v \in Nat /\ Nil \in Nat
    BY HeapFacts DEF Versions, Nil
  <2> QED  BY <2>1 DEF ItemOK, KeyItem, ObjectItem, AnyItem
<1>9. CASE OnAdd
  <2>1. x.type = "add" /\ Add(KeyItem(x.new))
    BY <1>9 DEF OnAdd, HandleNote, x
  <2> QED  BY <1>6, <1>7, <1>8, <2>1 DEF NoteOK
<1>10. CASE OnDelete
  <2>1. x.type = "delete" /\ Add(ObjectItem(x.old))
    BY <1>10 DEF OnDelete, HandleNote, x
  <2> QED  BY <1>6, <1>7, <1>8, <2>1 DEF NoteOK
<1>11. CASE OnUpdate
  <2>1. /\ x.type = "update" /\ x.old \in Versions /\ x.new \in Versions
        /\ \/ x.old = x.new /\ UNCHANGED workqueue
           \/ Add(ObjectItem(x.new)) \/ Add(KeyItem(x.new))
    BY <1>6, <1>11 DEF OnUpdate, HandleNote, x, NoteOK
  <2>2. CASE x.old = x.new /\ UNCHANGED workqueue
    <3>1. QueueOK' /\ WorkersOK' /\ Held' = Held
      BY <1>1, <1>3, <2>2 DEF QueueOK, WorkersOK, Held, ItemOK, workqueue
    <3>2. LatestDue'
      BY <1>1, <1>2, <2>2, <3>1 DEF LatestDue, PublishDue, Published, Failed
    <3>3. DeletionsDue'
      BY <1>1, <1>2, <2>1, <3>1 DEF DeletionsDue, DeleteDue, DeletePublished
    <3>4. SeenOnly'
      BY <1>1, <1>2, <1>3, <3>1 DEF SeenOnly
    <3> QED  BY <1>4, <1>5, <3>1, <3>2, <3>3, <3>4
  <2>3. CASE Add(ObjectItem(x.new))
    BY <1>7, <1>8, <2>1, <2>3
  <2>4. CASE Add(KeyItem(x.new))
    BY <1>7, <1>8, <2>1, <2>4
  <2> QED  BY <2>1, <2>2, <2>3, <2>4
<1> QED  BY <1>9, <1>10, <1>11 DEF Router

-----------------------------------------------------------------------------
(* A worker takes the first item: nobody else has it, and it stays held.   *)
LEMMA ProcessGetKeeps ==
  ASSUME PInv, NEW w \in PoolWorkers, ProcessGet(w)
  PROVE  PInv' /\ Held' = Held
<1> USE DEF PInv, Shape, ObjectsOK
<1> DEFINE item == Head(queue)
<1>1. /\ queue # <<>> /\ queue \in Seq(AnyItem) /\ queue' = Tail(queue)
      /\ processing' = processing \cup {item} /\ dirty' = dirty \ {item}
      /\ worker[w].pc = "idle" /\ worker' = [worker EXCEPT ![w] = [pc |-> "got", item |-> item]]
      /\ UNCHANGED <<api, terminating, heap, store, deleted, replaced, notes, delayed,
                     requeues, dropped, registering, bus, crashed>>
  BY DEF ProcessGet, PoolStep, Get, QueueOK, cluster, informer, retries
<1>2. /\ item \in AnyItem /\ item \in Range(queue) /\ queue' \in Seq(AnyItem)
      /\ Range(queue) = {item} \cup Range(queue') /\ IsInjective(queue')
      /\ item \notin Range(queue') /\ item \in dirty /\ item \notin processing
  BY <1>1, TailElements DEF QueueOK
<1> HIDE DEF item
<1>3. Versions' = Versions /\ Seen' = Seen
  BY <1>1 DEF Versions, Seen
<1>4. ObjectsOK' /\ NotesOK' /\ BusOK'
  BY <1>1, <1>3 DEF HeapOK, Caches, NotesOK, NoteOK, BusOK
<1>5. \A it : ItemOK(it) => ItemOK(it)'
  BY <1>1, <1>3 DEF ItemOK
<1>6. RetriesOK' /\ QueueOK'
  BY <1>1, <1>2, <1>5 DEF RetriesOK, QueueOK
<1>7. WorkersOK'
  BY <1>1, <1>2 DEF WorkersOK
<1>8. Held' = Held /\ \A it : Failed(it) => Failed(it)'
  <2>1. \A it \in Held : it \in Held'
    BY <1>1, <1>2 DEF Held, WorkersOK
  <2>2. \A it \in Held' : it \in Held
    BY <1>1, <1>2 DEF Held, WorkersOK
  <2>3. \A it : Failed(it) => Failed(it)'
    BY <1>1 DEF Failed, WorkersOK
  <2> QED  BY <2>1, <2>2, <2>3
<1>9. LatestDue' /\ DeletionsDue' /\ SeenOnly'
  BY <1>1, <1>3, <1>8 DEF LatestDue, PublishDue, Published, DeletionsDue, DeleteDue,
                          DeletePublished, SeenOnly
<1> QED  BY <1>4, <1>6, <1>7, <1>8, <1>9

(* A worker has reconciled its item, and is done with it but for Done.     *)
LEMMA ReconciledWorkers ==
  ASSUME WorkersOK, NEW w \in PoolWorkers, NEW pc \in {"ok", "failed"}, Reconciled(w, pc),
         pc = "failed" => worker[w].item.object = Nil
  PROVE  /\ WorkersOK' /\ Held' \subseteq Held /\ Held \subseteq Held' \cup {worker[w].item}
         /\ worker[w].item \in Held /\ \A item : Failed(item) => Failed(item)'
         /\ \A item : pc = "failed" /\ item = worker[w].item => Failed(item)'
<1>1. /\ worker[w].pc = "got" /\ worker' = [worker EXCEPT ![w].pc = pc]
      /\ UNCHANGED <<dirty, processing>>
  BY DEF Reconciled, PoolStep, workqueue
<1>2. /\ worker'[w].pc = pc /\ worker'[w].item = worker[w].item
      /\ \A z \in PoolWorkers : z # w => worker'[z] = worker[z]
  BY <1>1 DEF WorkersOK
<1>3. WorkersOK'
  <2>1. worker' \in [PoolWorkers -> [pc : {"idle", "got", "ok", "failed"}, item : AnyItem]]
    BY <1>1 DEF WorkersOK
  <2>2. \A z \in PoolWorkers : worker'[z].item = worker[z].item
    BY <1>2
  <2>3. \A z \in PoolWorkers : worker'[z].pc = IF z = w THEN pc ELSE worker[z].pc
    BY <1>2
  <2> QED  BY <1>1, <2>1, <2>2, <2>3 DEF WorkersOK
<1>4. Held' \subseteq Held
  BY <1>1, <1>2 DEF Held
<1>5. Held \subseteq Held' \cup {worker[w].item} /\ worker[w].item \in Held
  BY <1>1, <1>2 DEF Held
<1>6. \A item : Failed(item) => Failed(item)'
  BY <1>1, <1>2 DEF Failed
<1>7. \A item : pc = "failed" /\ item = worker[w].item => Failed(item)'
  BY <1>2 DEF Failed
<1> QED  BY <1>3, <1>4, <1>5, <1>6, <1>7

(* What a worker publishes is the object its item carries or the one that  *)
(* the cache holds at that moment; a key that it cannot look up fails.     *)
LEMMA ReconcileKeeps ==
  ASSUME PInv, NEW w \in PoolWorkers, Reconcile(w)
  PROVE  PInv'
<1> USE DEF PInv, Shape, ObjectsOK
<1> DEFINE item == worker[w].item
<1>1. ItemOK(item) /\ worker[w].pc = "got"
  BY DEF Reconcile, ReconcileObject, ReconcileKey, ReconcileMiss, ReconcileCrash, Reconciled,
         PoolStep, WorkersOK, QueueOK
<1>2. UNCHANGED <<api, terminating, heap, store, deleted, replaced, notes, queue, dirty,
                  processing, delayed, requeues, dropped, registering>>
  BY DEF Reconcile, ReconcileObject, ReconcileKey, ReconcileMiss, ReconcileCrash, Reconciled,
         PoolStep, cluster, informer, workqueue, retries
<1>3. Versions' = Versions /\ Seen' = Seen
  BY <1>2 DEF Versions, Seen
<1>4. ObjectsOK' /\ NotesOK'
  BY <1>2, <1>3 DEF HeapOK, Caches, NotesOK, NoteOK
<1>5. \A it : ItemOK(it) => ItemOK(it)'
  BY <1>2, <1>3 DEF ItemOK
<1>6. QueueOK' /\ RetriesOK'
  <2>1. crashed' \in BOOLEAN
    BY DEF Reconcile, ReconcileObject, ReconcileKey, ReconcileMiss, ReconcileCrash,
           Reconciled, RetriesOK
  <2> QED  BY <1>2, <1>5, <2>1 DEF QueueOK, RetriesOK
<1>7. CASE ReconcileCrash(w)
  <2>1. UNCHANGED <<worker, bus>>
    BY <1>7 DEF ReconcileCrash
  <2>2. WorkersOK' /\ BusOK' /\ Held' = Held /\ \A it : Failed(it) => Failed(it)'
    BY <1>2, <1>3, <2>1 DEF WorkersOK, BusOK, Held, Failed
  <2> QED  BY <1>2, <1>3, <1>4, <1>6, <2>1, <2>2 DEF LatestDue, PublishDue, Published,
              DeletionsDue, DeleteDue, DeletePublished, SeenOnly
<1>8. ASSUME UNCHANGED bus, Reconciled(w, "ok") \/ Reconciled(w, "failed"), item.object = Nil,
             store[item.name] = Nil \/ Reconciled(w, "failed")
      PROVE  PInv'
  <2>1. /\ WorkersOK' /\ Held' \subseteq Held /\ Held \subseteq Held' \cup {item}
        /\ \A it : Failed(it) => Failed(it)'
        /\ \A it : it = item => store[it.name] = Nil \/ Failed(it)'
    BY <1>8, ReconciledWorkers
  <2>2. BusOK'
    BY <1>3, <1>8 DEF BusOK
  <2>3. LatestDue'
    <3> SUFFICES ASSUME NEW n \in Names, store[n] # Nil
                 PROVE  PublishDue(n)'
      BY <1>2 DEF LatestDue
    <3>1. PublishDue(n)
      BY DEF LatestDue
    <3>2. item # [name |-> n, object |-> store[n]]
      BY <1>8
    <3>3. CASE item = [name |-> n, object |-> Nil]
      <4>1. Failed([name |-> n, object |-> Nil])'
        BY <2>1, <3>3
      <4> QED  BY <4>1 DEF PublishDue
    <3>4. CASE item # [name |-> n, object |-> Nil]
      BY <1>2, <1>8, <2>1, <3>1, <3>2, <3>4 DEF PublishDue, Published
    <3> QED  BY <3>3, <3>4
  <2>4. DeletionsDue'
    BY <1>2, <1>8, <2>1 DEF DeletionsDue, DeleteDue, DeletePublished
  <2>5. SeenOnly'
    BY <1>2, <1>3, <1>8, <2>1 DEF SeenOnly
  <2> QED  BY <1>4, <1>6, <2>1, <2>2, <2>3, <2>4, <2>5
<1>9. ASSUME NEW e \in Event, bus' = Append(bus, e), Reconciled(w, "ok"),
             e.obj \in Versions, heap[e.obj].uid \in Seen,
             item.object = Nil => e.obj = store[item.name],
             item.object # Nil => e.obj = item.object /\ e.op = "DELETE"
      PROVE  PInv'
  <2>1. /\ WorkersOK' /\ Held' \subseteq Held /\ Held \subseteq Held' \cup {item}
        /\ \A it : Failed(it) => Failed(it)'
    BY <1>9, ReconciledWorkers
  <2>2. bus' \in Seq(Event) /\ Range(bus') = Range(bus) \cup {e}
    BY <1>9, AppendElements DEF BusOK
  <2>3. BusOK'
    BY <1>3, <1>9, <2>2 DEF BusOK
  <2>4. LatestDue'
    <3> SUFFICES ASSUME NEW n \in Names, store[n] # Nil
                 PROVE  PublishDue(n)'
      BY <1>2 DEF LatestDue
    <3>1. PublishDue(n)
      BY DEF LatestDue
    <3>2. CASE \/ item = [name |-> n, object |-> Nil]
               \/ item = [name |-> n, object |-> store[n]]
      <4>1. e.obj = store[n]
        BY <1>9, <3>2
      <4> QED  BY <1>2, <2>2, <4>1 DEF PublishDue, Published
    <3>3. CASE ~ \/ item = [name |-> n, object |-> Nil]
                 \/ item = [name |-> n, object |-> store[n]]
      BY <1>2, <2>1, <2>2, <3>1, <3>3 DEF PublishDue, Published
    <3> QED  BY <3>2, <3>3
  <2>5. DeletionsDue'
    <3> SUFFICES ASSUME NEW uid \in deleted PROVE DeleteDue(uid)'
      BY <1>2 DEF DeletionsDue
    <3>1. DeleteDue(uid)
      BY DEF DeletionsDue
    <3>2. CASE item.object # Nil /\ heap[item.object].uid = uid
      BY <1>2, <1>9, <2>2, <3>2 DEF DeleteDue, DeletePublished
    <3>3. CASE ~(item.object # Nil /\ heap[item.object].uid = uid)
      BY <1>2, <2>1, <2>2, <3>1, <3>3 DEF DeleteDue, DeletePublished
    <3> QED  BY <3>2, <3>3
  <2>6. SeenOnly'
    BY <1>2, <1>3, <1>9, <2>1, <2>2 DEF SeenOnly
  <2> QED  BY <1>4, <1>6, <2>1, <2>3, <2>4, <2>5, <2>6
<1>10. CASE ReconcileMiss(w)
  BY <1>8, <1>10 DEF ReconcileMiss, UnlockedLookup
<1>11. CASE ReconcileObject(w)
  <2> DEFINE e == [obj |-> item.object, op |-> "DELETE", target |-> "STORAGE"]
  <2>1. /\ item.object # Nil /\ bus' = Append(bus, e) /\ Reconciled(w, "ok")
        /\ item.object \in Versions /\ item.object \in Nat
    BY <1>1, <1>11 DEF ReconcileObject, Handle, ItemOK, AnyItem
  <2>2. e \in Event /\ e.obj = item.object /\ e.op = "DELETE"
    BY <2>1 DEF Event
  <2>3. heap[item.object].uid \in Seen
    BY <1>1, <2>1 DEF SeenOnly, Held
  <2> HIDE DEF e
  <2> QED  BY <1>9, <2>1, <2>2, <2>3
<1>12. CASE ReconcileKey(w)
  <2> DEFINE v == store[item.name]
             e == [obj |-> v, op |-> "UPDATE", target |-> IF IsCrd THEN "MANAGER" ELSE "STORAGE"]
  <2>1. /\ item.object = Nil /\ Reconciled(w, "ok")
        /\ (v # Nil /\ bus' = Append(bus, e)) \/ (v = Nil /\ UNCHANGED bus)
    BY <1>12 DEF ReconcileKey, Handle
  <2>2. CASE v # Nil /\ bus' = Append(bus, e)
    <3>1. item.name \in Names
      BY <1>1 DEF ItemOK, AnyItem
    <3>2. v \in Versions /\ v \in Nat /\ heap[v].uid \in Seen
      BY <2>2, <3>1 DEF Caches, Seen
    <3>3. e \in Event /\ e.obj = v
      BY <3>2 DEF Event
    <3> HIDE DEF e
    <3> QED  BY <1>9, <2>1, <2>2, <3>2, <3>3
  <2>3. CASE v = Nil /\ UNCHANGED bus
    BY <1>8, <2>1, <2>3
  <2> QED  BY <2>1, <2>2, <2>3
<1> QED  BY <1>7, <1>10, <1>11, <1>12 DEF Reconcile

-----------------------------------------------------------------------------
(* Done: the worker lets its item go, and what was added meanwhile is      *)
(* queued; a key that failed is no longer in this worker's hands.          *)
LEMMA ProcessDoneKeeps ==
  ASSUME Shape, NEW w \in PoolWorkers, NEW from \in {"ok", "failed"}, ProcessDone(w, from)
  PROVE  /\ ObjectsOK' /\ NotesOK' /\ BusOK' /\ QueueOK' /\ WorkersOK'
         /\ Held' = Held /\ Seen' = Seen
         /\ \A item : Failed(item) => Failed(item)' \/ (from = "failed" /\ item = worker[w].item)
         /\ \A item : ItemOK(item) => ItemOK(item)'
         /\ ItemOK(worker[w].item) /\ worker[w].item.name \in Names
         /\ from = "failed" => worker[w].item.object = Nil
         /\ UNCHANGED <<heap, store, deleted, notes, bus, registering, crashed>>
<1> USE DEF Shape, ObjectsOK
<1> DEFINE item == worker[w].item
<1>1. /\ worker[w].pc = from /\ worker' = [worker EXCEPT ![w] = Idle]
      /\ processing' = processing \ {item} /\ dirty' = dirty
      /\ queue' = IF item \in dirty THEN Append(queue, item) ELSE queue
      /\ UNCHANGED <<api, terminating, heap, store, deleted, replaced, notes, registering,
                     bus, crashed>>
  BY DEF ProcessDone, PoolStep, Done, cluster, informer
<1>2. Versions' = Versions /\ Seen' = Seen
  BY <1>1 DEF Versions, Seen
<1>3. ObjectsOK' /\ NotesOK' /\ BusOK'
  BY <1>1, <1>2 DEF HeapOK, Caches, NotesOK, NoteOK, BusOK
<1>4. \A it : ItemOK(it) => ItemOK(it)'
  BY <1>1, <1>2 DEF ItemOK
<1>5. item \in processing /\ ItemOK(item) /\ item \in AnyItem /\ item.name \in Names
  BY <1>1 DEF WorkersOK, QueueOK, ItemOK, AnyItem
<1>6. QueueOK'
  <2>1. queue \in Seq(AnyItem) /\ item \notin Range(queue)
    BY <1>5 DEF QueueOK
  <2>2. CASE item \in dirty
    <3>1. queue' \in Seq(AnyItem) /\ Range(queue') = Range(queue) \cup {item} /\ IsInjective(queue')
      BY <1>1, <1>5, <2>1, <2>2, AppendElements DEF QueueOK
    <3> QED  BY <1>1, <1>4, <2>2, <3>1 DEF QueueOK
  <2>3. CASE item \notin dirty
    BY <1>1, <1>4, <2>1, <2>3 DEF QueueOK
  <2> QED  BY <2>2, <2>3
<1>7. /\ Idle \in [pc : {"idle", "got", "ok", "failed"}, item : AnyItem]
      /\ Idle.pc = "idle" /\ Idle.item.object = Nil
  <2>1. (CHOOSE n \in Names : TRUE) \in Names
    BY PoolAssumption
  <2> QED  BY <2>1 DEF Idle, AnyItem, Nil
<1>8. worker'[w] = Idle /\ \A z \in PoolWorkers : z # w => worker'[z] = worker[z]
  BY <1>1 DEF WorkersOK
<1>9. WorkersOK'
  <2>1. worker' \in [PoolWorkers -> [pc : {"idle", "got", "ok", "failed"}, item : AnyItem]]
    BY <1>1, <1>7 DEF WorkersOK
  <2>2. \A z \in PoolWorkers :
          /\ worker'[z].pc # "idle" => worker'[z].item \in processing'
          /\ worker'[z].pc = "idle" => worker'[z].item.object = Nil
          /\ worker'[z].pc = "failed" => worker'[z].item.object = Nil
    BY <1>1, <1>7, <1>8 DEF WorkersOK
  <2>3. \A z, y \in PoolWorkers :
          z # y /\ worker'[z].pc # "idle" /\ worker'[y].pc # "idle"
            => worker'[z].item # worker'[y].item
    BY <1>7, <1>8 DEF WorkersOK
  <2> QED  BY <2>1, <2>2, <2>3 DEF WorkersOK
<1>10. Held' = Held
  <2>1. \A it \in Held : it \in Held'
    BY <1>1, <1>8 DEF Held
  <2>2. \A it \in Held' : it \in Held
    BY <1>1, <1>7, <1>8 DEF Held
  <2> QED  BY <2>1, <2>2
<1>11. \A it : Failed(it) => Failed(it)' \/ (from = "failed" /\ it = item)
  BY <1>1, <1>8 DEF Failed
<1>12. from = "failed" => item.object = Nil
  BY <1>1 DEF WorkersOK
<1> QED  BY <1>1, <1>2, <1>3, <1>4, <1>5, <1>6, <1>9, <1>10, <1>11, <1>12

(* A key that failed backs off or is dropped: it is not forgotten.         *)
LEMMA ProcessEndKeeps ==
  ASSUME PInv, NEW w \in PoolWorkers, ProcessOk(w) \/ ProcessRetry(w) \/ ProcessDrop(w)
  PROVE  PInv'
<1> USE DEF PInv
<1> DEFINE item == worker[w].item
<1>1. PICK from \in {"ok", "failed"} :
        /\ ProcessDone(w, from)
        /\ from = "failed" => item \in delayed' \/ item.name \in dropped'
  BY DEF ProcessOk, ProcessRetry, AddRateLimited, ProcessDrop
<1>2. /\ ObjectsOK' /\ NotesOK' /\ BusOK' /\ QueueOK' /\ WorkersOK'
      /\ Held' = Held /\ Seen' = Seen
      /\ \A it : Failed(it) => Failed(it)' \/ (from = "failed" /\ it = item)
      /\ \A it : ItemOK(it) => ItemOK(it)'
      /\ ItemOK(item) /\ item.name \in Names
      /\ from = "failed" => item.object = Nil
      /\ UNCHANGED <<heap, store, deleted, notes, bus, registering, crashed>>
  BY <1>1, ProcessDoneKeeps
<1>3. /\ delayed \subseteq delayed' /\ dropped \subseteq dropped'
      /\ delayed' \subseteq delayed \cup {item} /\ dropped' \subseteq dropped \cup {item.name}
  BY DEF ProcessOk, ProcessRetry, AddRateLimited, ProcessDrop
<1>4. \A it \in delayed' : it \in delayed \/ (it = item /\ item.object = Nil)
  <2>1. CASE ProcessRetry(w)
    <3>1. item.object = Nil
      BY <2>1, ProcessDoneKeeps DEF ProcessRetry, AddRateLimited
    <3> QED  BY <1>3, <3>1
  <2>2. CASE ProcessOk(w) \/ ProcessDrop(w)
    BY <2>2 DEF ProcessOk, ProcessDrop
  <2> QED  BY <2>1, <2>2
<1>5. requeues' \in [Names -> 0..MaxRequeues]
  <2>1. requeues \in [Names -> 0..MaxRequeues] /\ requeues[item.name] \in 0..MaxRequeues
    BY <1>2 DEF Shape, RetriesOK
  <2>2. \E k \in 0..MaxRequeues : requeues' = [requeues EXCEPT ![item.name] = k]
    <3> DEFINE k == IF item.object = Nil THEN 0 ELSE requeues[item.name]
    <3>0. 0 \in 0..MaxRequeues
      BY PoolAssumption
    <3>1. CASE ProcessOk(w)
      <4>1. requeues' = [requeues EXCEPT ![item.name] = k]
        BY <3>1 DEF ProcessOk, SetRequeues, NumRequeues
      <4>2. k \in 0..MaxRequeues
        BY <2>1, <3>0
      <4> HIDE DEF k
      <4> QED  BY <4>1, <4>2
    <3>2. CASE ProcessRetry(w)
      <4>1. requeues[item.name] + 1 \in 0..MaxRequeues
        BY <2>1, <3>2, PoolAssumption DEF ProcessRetry, NumRequeues
      <4> QED  BY <3>2, <4>1 DEF ProcessRetry, AddRateLimited, SetRequeues, NumRequeues
    <3>3. CASE ProcessDrop(w)
      BY <3>0, <3>3 DEF ProcessDrop, SetRequeues
    <3> QED  BY <3>1, <3>2, <3>3
  <2> QED  BY <2>1, <2>2
<1>6. RetriesOK'
  BY <1>2, <1>3, <1>4, <1>5 DEF Shape, RetriesOK
<1>7. LatestDue'
  <2> SUFFICES ASSUME NEW n \in Names, store[n] # Nil
               PROVE  PublishDue(n)'
    BY <1>2 DEF LatestDue
  <2>1. PublishDue(n)
    BY DEF LatestDue
  <2> DEFINE key == [name |-> n, object |-> Nil]
  <2>2. CASE from = "failed" /\ item = key
    <3>1. key \in delayed' \/ n \in dropped'
      BY <1>1, <2>2
    <3> QED  BY <3>1 DEF PublishDue
  <2>3. CASE ~(from = "failed" /\ item = key)
    BY <1>2, <1>3, <2>1, <2>3 DEF PublishDue, Published
  <2> QED  BY <2>2, <2>3
<1>8. DeletionsDue' /\ SeenOnly'
  BY <1>2 DEF DeletionsDue, DeleteDue, DeletePublished, SeenOnly
<1> QED  BY <1>2, <1>6, <1>7, <1>8 DEF Shape

(* The end of a back-off.                                                  *)
LEMMA RetryDueKeeps ==
  ASSUME PInv, NEW item \in delayed, RetryDue(item)
  PROVE  PInv'
<1> USE DEF PInv, Shape, ObjectsOK
<1>1. /\ ItemOK(item) /\ Add(item) /\ delayed' = delayed \ {item}
      /\ UNCHANGED <<api, terminating, heap, store, deleted, replaced, notes, worker,
                     requeues, dropped, registering, bus, crashed>>
  BY DEF RetryDue, RetriesOK, cluster, informer
<1>2. QueueOK' /\ WorkersOK' /\ Held' = Held \cup {item}
  BY <1>1, AddHolds
<1>3. Versions' = Versions /\ Seen' = Seen
  BY <1>1 DEF Versions, Seen
<1>4. ObjectsOK' /\ NotesOK' /\ BusOK'
  BY <1>1, <1>3 DEF HeapOK, Caches, NotesOK, NoteOK, BusOK
<1>5. RetriesOK' /\ item.object = Nil
  BY <1>1, <1>3 DEF RetriesOK, ItemOK
<1>6. LatestDue'
  BY <1>1, <1>2 DEF LatestDue, PublishDue, Published, Failed
<1>7. DeletionsDue' /\ SeenOnly'
  BY <1>1, <1>2, <1>3, <1>5 DEF DeletionsDue, DeleteDue, DeletePublished, SeenOnly
<1> QED  BY <1>2, <1>4, <1>5, <1>6, <1>7

(* Nothing happens.                                                        *)
LEMMA StutterKeeps ==
  ASSUME PInv, registering' \in BOOLEAN,
         UNCHANGED <<cluster, heap, informer, workqueue, worker, retries, bus, crashed>>
  PROVE  PInv'
<1> USE DEF PInv, Shape, ObjectsOK, cluster, informer, workqueue, retries
<1>1. Versions' = Versions /\ Held' = Held /\ Seen' = Seen
  BY DEF Versions, Held, Seen
<1>2. ObjectsOK' /\ NotesOK' /\ BusOK' /\ WorkersOK'
  BY <1>1 DEF HeapOK, Caches, NotesOK, NoteOK, BusOK, WorkersOK
<1>3. QueueOK' /\ RetriesOK'
  BY <1>1 DEF QueueOK, RetriesOK, ItemOK
<1>4. LatestDue' /\ DeletionsDue' /\ SeenOnly'
  BY <1>1 DEF LatestDue, PublishDue, Published, Failed, DeletionsDue, DeleteDue,
              DeletePublished, SeenOnly
<1> QED  BY <1>2, <1>3, <1>4

-----------------------------------------------------------------------------
(* A router that was just started.                                         *)
LEMMA InitPInv == Init => PInv
<1> SUFFICES ASSUME Init PROVE PInv
  OBVIOUS
<1>1. /\ heap = <<>> /\ notes = <<>> /\ bus = <<>> /\ queue = <<>> /\ dirty = {}
      /\ processing = {} /\ delayed = {} /\ dropped = {} /\ deleted = {} /\ replaced = {}
      /\ api = [n \in Names |-> Nil] /\ store = [n \in Names |-> Nil] /\ terminating = {}
      /\ requeues = [n \in Names |-> 0] /\ worker = [w \in PoolWorkers |-> Idle]
      /\ registering = FALSE /\ crashed = FALSE
  BY DEF Init
<1>2. /\ heap \in Seq([name : Names, uid : Nat, dt : BOOLEAN]) /\ Len(heap) = 0
      /\ notes \in Seq(Note) /\ bus \in Seq(Event) /\ queue \in Seq(AnyItem)
      /\ Range(notes) = {} /\ Range(bus) = {} /\ Range(queue) = {} /\ IsInjective(queue)
  BY <1>1 DEF Range, IsInjective
<1>3. Versions = {}
  BY <1>2 DEF Versions
<1>4. ObjectsOK
  <2>1. HeapOK
    BY <1>2, <1>3, PoolAssumption DEF HeapOK
  <2>2. Caches(api) /\ Caches(store)
    BY <1>1 DEF Caches, Nil
  <2> QED  BY <1>1, <2>1, <2>2 DEF ObjectsOK
<1>5. NotesOK /\ BusOK
  BY <1>2 DEF NotesOK, BusOK
<1>6. QueueOK
  BY <1>1, <1>2 DEF QueueOK
<1>7. /\ Idle \in [pc : {"idle", "got", "ok", "failed"}, item : AnyItem]
      /\ Idle.pc = "idle" /\ Idle.item.object = Nil
  <2>1. (CHOOSE n \in Names : TRUE) \in Names
    BY PoolAssumption
  <2> QED  BY <2>1 DEF Idle, AnyItem, Nil
<1>8. WorkersOK
  BY <1>1, <1>7 DEF WorkersOK
<1>9. RetriesOK
  <2>1. 0 \in 0..MaxRequeues
    BY PoolAssumption
  <2> QED  BY <1>1, <2>1 DEF RetriesOK
<1>10. Held = {}
  BY <1>1, <1>7 DEF Held
<1>11. LatestDue /\ DeletionsDue /\ SeenOnly
  BY <1>1, <1>2, <1>10 DEF LatestDue, DeletionsDue, SeenOnly
<1> QED  BY <1>4, <1>5, <1>6, <1>8, <1>9, <1>11 DEF PInv, Shape

(* Every step keeps the invariant.                                         *)
LEMMA NextKeepsPInv == PInv /\ [Next]_vars => PInv'
<1> SUFFICES ASSUME PInv, [Next]_vars PROVE PInv'
  OBVIOUS
<1>1. CASE \E n \in Names : Cluster(n) \/ Informer(n) \/ InformerResync(n)
  BY <1>1, ClusterKeeps, InformerKeeps
<1>2. CASE Router
  BY <1>2, RouterKeeps
<1>3. CASE \E w \in PoolWorkers : Process(w)
  BY <1>3, ProcessGetKeeps, ReconcileKeeps, ProcessEndKeeps DEF Process
<1>4. CASE \E item \in delayed : RetryDue(item)
  BY <1>4, RetryDueKeeps
<1>5. registering \in BOOLEAN
  BY DEF PInv, Shape, RetriesOK
<1>6. CASE Register
  BY <1>6, StutterKeeps DEF Register
<1>7. CASE Settled \/ UNCHANGED vars
  BY <1>5, <1>7, StutterKeeps DEF Settled, vars
<1> QED  BY <1>1, <1>2, <1>3, <1>4, <1>6, <1>7 DEF Next

(* The pipeline's inductive invariant.                                     *)
THEOREM PoolInvariant == Spec => []PInv
BY InitPInv, NextKeepsPInv, PTL DEF Spec

(* The invariant implies the type invariant, ...                           *)
LEMMA PoolIsTyped == PInv => TypeOK
<1> SUFFICES ASSUME PInv PROVE TypeOK
  OBVIOUS
<1> USE DEF PInv, Shape, ObjectsOK
<1>1. Len(heap) \in Nat /\ Len(heap) <= MaxVersion /\ MaxVersion \in Nat /\ DOMAIN heap = Versions
  BY HeapFacts, PoolAssumption DEF HeapOK
<1>2. api \in [Names -> 0..Len(heap)] /\ store \in [Names -> 0..Len(heap)]
  BY <1>1 DEF Caches, Versions, Nil
<1>3. \A i \in DOMAIN heap : heap[i] \in [name : Names, uid : 1..Len(heap), dt : BOOLEAN]
  BY <1>1, HeapFacts DEF Versions
<1>4. \A item : ItemOK(item) => item \in Item
  BY <1>1 DEF ItemOK, AnyItem, Item, Versions, Nil
<1>5. Range(queue) \subseteq dirty /\ IsInjective(queue) /\ dirty \subseteq Item
      /\ processing \subseteq Item /\ delayed \subseteq Item
  BY <1>4 DEF QueueOK, RetriesOK
<1>6. \A w \in PoolWorkers : worker[w].item \in Item
  BY <1>1, <1>4 DEF WorkersOK, QueueOK, AnyItem, Item, Nil
<1>7. worker \in [PoolWorkers -> [pc : {"idle", "got", "ok", "failed"}, item : Item]]
  BY <1>6 DEF WorkersOK
<1> QED  BY <1>2, <1>3, <1>5, <1>7 DEF TypeOK, RetriesOK, Versions

(* The types of the pipeline: the work queue holds no item twice, and no   *)
(* key is retried more than MaxRequeues times.                             *)
THEOREM PoolTypes == Spec => []TypeOK
BY PoolIsTyped, PoolInvariant, PTL

(* At rest nothing is due any more: the present version of every object    *)
(* was published, unless its key was dropped.                              *)
LEMMA RestIsPublished ==
  ASSUME PInv, Quiet
  PROVE  /\ \A n \in Names : api[n] # Nil /\ n \notin dropped =>
              \E i \in DOMAIN bus : bus[i].obj = api[n]
         /\ \A uid \in deleted :
              \E i \in DOMAIN bus : heap[bus[i].obj].uid = uid /\ bus[i].op = "DELETE"
<1> USE DEF PInv, Shape
<1>1. /\ Range(notes) = {} /\ dirty = {} /\ processing = {} /\ delayed = {}
      /\ \A n \in Names : store[n] = api[n]
  BY DEF Quiet, Range
<1>2. \A w \in PoolWorkers : worker[w].pc = "idle"
  BY <1>1 DEF WorkersOK
<1>3. Held = {} /\ \A item : ~Failed(item)
  BY <1>1, <1>2 DEF Held, Failed
<1>4. ASSUME NEW n \in Names, api[n] # Nil, n \notin dropped
      PROVE  \E i \in DOMAIN bus : bus[i].obj = api[n]
  <2>1. PublishDue(n)
    BY <1>1, <1>4 DEF LatestDue
  <2>2. Published(api[n])
    BY <1>1, <1>3, <1>4, <2>1 DEF PublishDue
  <2> QED  BY <2>2 DEF Published, Range
<1>5. ASSUME NEW uid \in deleted
      PROVE  \E i \in DOMAIN bus : heap[bus[i].obj].uid = uid /\ bus[i].op = "DELETE"
  BY <1>1, <1>3 DEF DeletionsDue, DeleteDue, DeletePublished, Range
<1> QED  BY <1>4, <1>5

(* ... that the latest version is published, ...                           *)
LEMMA PoolPublishesLatest == PInv => LatestPublished
BY RestIsPublished DEF LatestPublished

(* ... and that deletions are.                                             *)
LEMMA PoolPublishesDeletions == PInv => DeletionPublished
<1> SUFFICES ASSUME PInv, Quiet,
                    NEW uid \in deleted \cup {heap[bus[i].obj].uid : i \in DOMAIN bus},
                    Gone(uid), uid \notin replaced \/ uid \in deleted
             PROVE  uid \in deleted
  BY RestIsPublished DEF DeletionPublished
<1>1. CASE uid \in deleted
  BY <1>1
<1>2. CASE \E i \in DOMAIN bus : uid = heap[bus[i].obj].uid
  <2>1. uid \in Seen
    BY <1>2 DEF PInv, SeenOnly, Range
  <2>2. ASSUME NEW n \in Names, store[n] # Nil, uid = heap[store[n]].uid
        PROVE  FALSE
    BY <2>2 DEF Quiet, Gone
  <2> QED  BY <2>1, <2>2 DEF Seen
<1> QED  BY <1>1, <1>2

(* LatestPublished: no update that arrives while its key is queued, being  *)
(* reconciled or backing off is lost, for every number of workers.         *)
THEOREM LatestIsPublished == Spec => []LatestPublished
BY PoolPublishesLatest, PoolInvariant, PTL

(* DeletionPublished: a DELETE of every deletion the informer noticed, and *)
(* of every object published and gone but for those that a relist replaced.*)
THEOREM DeletionIsPublished == Spec => []DeletionPublished
BY PoolPublishesDeletions, PoolInvariant, PTL
=============================================================================
