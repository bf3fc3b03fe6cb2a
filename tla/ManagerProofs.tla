--------------------------- MODULE ManagerProofs ---------------------------
(***************************************************************************)
(* Proofs about Manager for every CRD, every number of events handled at   *)
(* once and every number of routers: its types, that a tracked router is   *)
(* running and, as long as nothing was stopped, that no kind has two       *)
(* routers and that every version that was to be watched is watched.       *)
(***************************************************************************)
EXTENDS Manager, FiniteSetTheorems, TLAPS

-----------------------------------------------------------------------------
(* The inductive invariant.  The shapes of the variables; a handler that   *)
(* starts or stops a router has a version of the CRD in hand.              *)
Busy == {"start", "register", "stop", "cancel"}

Shape ==
  /\ informers \in [Versions -> Nat] /\ registry \in [Versions -> Nat]
  /\ pc \in [Handlers -> {"unborn", "loop", "done"} \cup Busy]
  /\ gvr \in [Handlers -> Versions \cup {Vacuum}]
  /\ rest \in [Handlers -> SUBSET Versions]
  /\ mine \in [Handlers -> Nat]
  /\ asked \subseteq Versions
  /\ stops \in BOOLEAN /\ cancelled \in BOOLEAN
  /\ \A h \in Handlers : pc[h] \in Busy => gvr[h] \in Versions

(* While nothing was stopped, a router that is being registered is the one *)
(* that is tracked, ...                                                    *)
RegistersTracked ==
  \A h \in Handlers : pc[h] = "register" => informers[gvr[h]] = mine[h]

(* ... a tracked router is registered or is being registered, ...          *)
TrackedRegistered ==
  \A g \in Versions : informers[g] # None =>
    \/ registry[g] = informers[g]
    \/ \E h \in Handlers : pc[h] = "register" /\ gvr[h] = g

(* ... and a version that was to be watched is tracked or about to be.     *)
AskedTracked ==
  \A g \in asked \ {Vacuum} :
    informers[g] # None \/ \E h \in Handlers : pc[h] = "start" /\ gvr[h] = g

Unstopped ==
  ~stops => /\ ~cancelled
            /\ NoRouterOrphaned /\ RegistersTracked /\ TrackedRegistered /\ AskedTracked

MInv == Shape /\ TypeOK /\ TrackedIsLive /\ Unstopped

-----------------------------------------------------------------------------
(* The handler's own steps leave the routers alone.                        *)
USE DEF HandlerStep, routers, history, lifetime, Busy

(* Nothing is tracked at the start.                                        *)
LEMMA InitEstablishes == Init => MInv
<1> SUFFICES ASSUME Init PROVE MInv
  OBVIOUS
<1>1. Shape
  BY DEF Init, Shape, None
<1>2. TypeOK
  BY ManagerAssumption DEF Init, TypeOK, OfGvr, None
<1>3. TrackedIsLive /\ Unstopped
  BY DEF Init, TrackedIsLive, Unstopped, NoRouterOrphaned, RegistersTracked,
         TrackedRegistered, AskedTracked, None
<1> QED  BY <1>1, <1>2, <1>3 DEF MInv

(* The bus starts a handler.                                               *)
LEMMA DeliverKeeps ==
  ASSUME MInv, NEW h \in Handlers, NEW crd \in CRDs, NEW managed \in BOOLEAN,
         NEW dt \in BOOLEAN, Deliver(h, crd, managed, dt)
  PROVE  MInv'
<1>1. ExtractGvrs(crd) \subseteq Versions
  BY ManagerAssumption DEF CRDs, ExtractGvrs
<1>2. Shape'
  BY <1>1 DEF MInv, Shape, Deliver
<1>3. TypeOK'
  BY <1>1 DEF MInv, Shape, TypeOK, OfGvr, Deliver, None
<1>4. TrackedIsLive'
  BY DEF MInv, TrackedIsLive, Deliver
<1>5. Unstopped'
  BY DEF MInv, Shape, Unstopped, NoRouterOrphaned, RegistersTracked, TrackedRegistered,
         AskedTracked, Deliver
<1> QED  BY <1>2, <1>3, <1>4, <1>5 DEF MInv

(* The storage manager sets the timestamp of the shared object.            *)
LEMMA StampKeeps ==
  ASSUME MInv, NEW h \in Handlers, StampObject(h)
  PROVE  MInv'
BY DEF MInv, Shape, TypeOK, OfGvr, TrackedIsLive, Unstopped, NoRouterOrphaned,
       RegistersTracked, TrackedRegistered, AskedTracked, StampObject

(* A handler goes on to its next version, or returns.                      *)
LEMMA LoopKeeps ==
  ASSUME MInv, NEW h \in Handlers, Loop(h)
  PROVE  MInv'
<1>1. CASE LoopEnd(h)
  <2>1. Shape'
    BY <1>1 DEF MInv, Shape, LoopEnd
  <2>2. TypeOK'
    BY <1>1 DEF MInv, Shape, TypeOK, OfGvr, LoopEnd, None
  <2>3. TrackedIsLive'
    BY <1>1 DEF MInv, TrackedIsLive, LoopEnd
  <2>4. Unstopped'
    BY <1>1 DEF MInv, Shape, Unstopped, NoRouterOrphaned, RegistersTracked,
                TrackedRegistered, AskedTracked, LoopEnd
  <2> QED  BY <2>1, <2>2, <2>3, <2>4 DEF MInv
<1>2. ASSUME NEW g \in rest[h], LoopTurn(h, g, rest[h] \ {g})
      PROVE  MInv'
  <2>1. g \in Versions
    BY DEF MInv, Shape
  <2>2. Shape'
    BY <1>2, <2>1 DEF MInv, Shape, LoopTurn
  <2>3. TypeOK'
    BY <1>2, <2>1 DEF MInv, Shape, TypeOK, OfGvr, LoopTurn, None
  <2>4. TrackedIsLive'
    BY <1>2 DEF MInv, TrackedIsLive, LoopTurn
  <2>5. \/ stops
        \/ /\ ~cancelled'
           /\ NoRouterOrphaned' /\ RegistersTracked' /\ TrackedRegistered' /\ AskedTracked'
    BY <1>2, <2>1 DEF MInv, Shape, Unstopped, NoRouterOrphaned, RegistersTracked,
                      TrackedRegistered, AskedTracked, LoopTurn
  <2>6. Unstopped'
    BY <1>2, <2>5 DEF Unstopped, LoopTurn
  <2> QED  BY <2>2, <2>3, <2>4, <2>6 DEF MInv
<1> QED  BY <1>1, <1>2 DEF Loop

(* startInformer finds the version tracked.                                *)
LEMMA StartSkipKeeps ==
  ASSUME MInv, NEW h \in Handlers, StartSkip(h)
  PROVE  MInv'
<1>1. Shape' /\ TypeOK'
  BY DEF MInv, Shape, TypeOK, OfGvr, StartSkip, None
<1>2. TrackedIsLive'
  BY DEF MInv, TrackedIsLive, StartSkip
<1>3. Unstopped'
  BY DEF MInv, Shape, Unstopped, NoRouterOrphaned, RegistersTracked,
         TrackedRegistered, AskedTracked, StartSkip
<1> QED  BY <1>1, <1>2, <1>3 DEF MInv

(* startInformer tracks a new router under the lock.                       *)
LEMMA StartTrackKeeps ==
  ASSUME MInv, NEW h \in Handlers, StartTrack(h)
  PROVE  MInv'
<1> DEFINE g == gvr[h]
           r == Len(router) + 1
<1>1. /\ g \in Versions /\ g # Vacuum /\ informers[g] = None
      /\ router \in Seq(Versions) /\ Len(router) \in Nat /\ r \in Nat \ {0}
      /\ router' = Append(router, g) /\ Len(router') = r /\ r <= MaxRouters
      /\ DOMAIN router = 1..Len(router) /\ DOMAIN router' = 1..r
      /\ router'[r] = g /\ \A k \in DOMAIN router : router'[k] = router[k]
  BY ManagerAssumption DEF MInv, Shape, TypeOK, StartTrack, Track
<1>2. /\ live' = IF cancelled THEN live ELSE live \cup {r}
      /\ informers' = [informers EXCEPT ![g] = r]
      /\ mine' = [mine EXCEPT ![h] = r]
      /\ pc[h] = "start" /\ pc' = [pc EXCEPT ![h] = "register"]
      /\ UNCHANGED <<registry, gvr, rest, asked, stops, cancelled, subscribed>>
  BY <1>1 DEF StartTrack, Track
<1> HIDE DEF g, r
<1>3. Shape'
  BY <1>1, <1>2 DEF MInv, Shape
<1>4. TypeOK'
  <2>1. router' \in Seq(Versions) /\ Len(router') <= MaxRouters
    BY <1>1
  <2>2. live' \subseteq (IF cancelled' THEN {} ELSE DOMAIN router')
    BY <1>1, <1>2 DEF MInv, TypeOK
  <2>3. \A k \in Versions : OfGvr(informers[k], k)' /\ OfGvr(registry[k], k)'
    BY <1>1, <1>2 DEF MInv, Shape, TypeOK, OfGvr, None
  <2>4. \A k \in Handlers : /\ (mine[k] # None)' => OfGvr(mine[k], gvr[k])'
                            /\ (pc[k] \in {"register", "cancel"} <=> mine[k] # None)'
                            /\ (rest[k] \subseteq Versions)'
    BY <1>1, <1>2 DEF MInv, Shape, TypeOK, OfGvr, None, g
  <2>5. (Vacuum \notin {router[k] : k \in DOMAIN router})' /\ subscribed' \in BOOLEAN
    BY <1>1, <1>2 DEF MInv, TypeOK
  <2> QED  BY <2>1, <2>2, <2>3, <2>4, <2>5 DEF TypeOK
<1>5. TrackedIsLive'
  BY <1>1, <1>2 DEF MInv, Shape, TrackedIsLive
<1>6. ASSUME ~stops PROVE (~cancelled /\ NoRouterOrphaned /\ RegistersTracked)'
  <2>1. ~cancelled /\ NoRouterOrphaned /\ RegistersTracked
    BY <1>6 DEF MInv, Unstopped
  <2>2. \A k \in live : k \in DOMAIN router /\ router[k] \in Versions /\ k # r /\ k # None
    BY <1>1, <2>1 DEF MInv, TypeOK, None
  <2>3. NoRouterOrphaned'
    BY <1>1, <1>2, <2>1, <2>2 DEF MInv, Shape, NoRouterOrphaned
  <2>4. \A k \in Handlers : pc[k] = "register" => mine[k] # None /\ gvr[k] \in Versions
    BY DEF MInv, Shape, TypeOK
  <2>5. RegistersTracked'
    BY <1>1, <1>2, <2>1, <2>4 DEF MInv, Shape, RegistersTracked, g
  <2> QED  BY <1>2, <2>1, <2>3, <2>5
<1>7. ASSUME ~stops PROVE (TrackedRegistered /\ AskedTracked)'
  <2>1. TrackedRegistered /\ AskedTracked
    BY <1>7 DEF MInv, Unstopped
  <2>2. TrackedRegistered'
    BY <1>1, <1>2, <2>1 DEF MInv, Shape, TrackedRegistered, g
  <2>3. AskedTracked'
    BY <1>1, <1>2, <2>1 DEF MInv, Shape, AskedTracked, None, g
  <2> QED  BY <2>2, <2>3
<1>8. Unstopped'
  BY <1>2, <1>6, <1>7 DEF Unstopped
<1> QED  BY <1>3, <1>4, <1>5, <1>8 DEF MInv

(* startInformer registers the router after the lock.                      *)
LEMMA StartRegisterKeeps ==
  ASSUME MInv, NEW h \in Handlers, StartRegister(h)
  PROVE  MInv'
<1>1. Shape'
  BY DEF MInv, Shape, StartRegister, None
<1>2. TypeOK'
  BY DEF MInv, Shape, TypeOK, OfGvr, StartRegister, None
<1>3. TrackedIsLive'
  BY DEF MInv, TrackedIsLive, StartRegister
<1>4. Unstopped'
  BY DEF MInv, Shape, Unstopped, NoRouterOrphaned, RegistersTracked,
         TrackedRegistered, AskedTracked, StartRegister
<1> QED  BY <1>1, <1>2, <1>3, <1>4 DEF MInv

(* stopInformer reads the entry outside the lock.                          *)
LEMMA StopReadKeeps ==
  ASSUME MInv, NEW h \in Handlers, StopRead(h)
  PROVE  MInv'
<1>1. Shape'
  BY DEF MInv, Shape, StopRead, None
<1>2. TypeOK'
  BY DEF MInv, Shape, TypeOK, OfGvr, StopRead, None
<1>3. TrackedIsLive'
  BY DEF MInv, TrackedIsLive, StopRead
<1>4. Unstopped'
  BY DEF MInv, Shape, Unstopped, NoRouterOrphaned, RegistersTracked,
         TrackedRegistered, AskedTracked, StopRead
<1> QED  BY <1>1, <1>2, <1>3, <1>4 DEF MInv

(* The router that is cancelled is of the version whose entry is deleted:  *)
(* no other entry loses its router.                                        *)
LEMMA StopCancelKeeps ==
  ASSUME MInv, NEW h \in Handlers, StopCancel(h)
  PROVE  MInv'
<1>1. Shape'
  BY DEF MInv, Shape, StopCancel, Cancel, None
<1>2. TypeOK'
  BY DEF MInv, Shape, TypeOK, OfGvr, StopCancel, Cancel, None
<1>3. TrackedIsLive'
  BY DEF MInv, Shape, TypeOK, OfGvr, TrackedIsLive, StopCancel, Cancel, None
<1>4. Unstopped'
  BY DEF Unstopped, StopCancel, Cancel
<1> QED  BY <1>1, <1>2, <1>3, <1>4 DEF MInv

(* The manager is stopped: its routers end with it, and the map keeps      *)
(* their entries.                                                          *)
LEMMA CancelContextKeeps ==
  ASSUME MInv, CancelContext
  PROVE  MInv'
<1>1. Shape'
  BY DEF MInv, Shape, CancelContext
<1>2. TypeOK'
  BY DEF MInv, TypeOK, OfGvr, CancelContext
<1>3. TrackedIsLive' /\ Unstopped'
  BY DEF TrackedIsLive, Unstopped, CancelContext
<1> QED  BY <1>1, <1>2, <1>3 DEF MInv

LEMMA UnsubscribeKeeps ==
  ASSUME MInv, Unsubscribe
  PROVE  MInv'
<1>1. Shape' /\ TrackedIsLive' /\ Unstopped'
  BY DEF MInv, Shape, TrackedIsLive, Unstopped, NoRouterOrphaned, RegistersTracked,
         TrackedRegistered, AskedTracked, Unsubscribe
<1>2. TypeOK'
  BY DEF MInv, TypeOK, OfGvr, Unsubscribe
<1> QED  BY <1>1, <1>2 DEF MInv

(* A step that changes nothing the invariant is about.                     *)
LEMMA StutterKeeps ==
  ASSUME MInv,
         UNCHANGED <<routers, pc, gvr, rest, mine, history, lifetime>>
  PROVE  MInv'
BY DEF MInv, Shape, TypeOK, OfGvr, TrackedIsLive, Unstopped, NoRouterOrphaned,
       RegistersTracked, TrackedRegistered, AskedTracked

(* Every step of the manager keeps the invariant.                          *)
LEMMA NextKeeps == MInv /\ [Next]_vars => MInv'
<1> SUFFICES ASSUME MInv, [Next]_vars PROVE MInv'
  OBVIOUS
<1>1. ASSUME NEW h \in Handlers, Start(h) PROVE MInv'
  BY <1>1, StartSkipKeeps, StartTrackKeeps, StartRegisterKeeps DEF Start
<1>2. ASSUME NEW h \in Handlers, StopInformer(h) PROVE MInv'
  <2>1. CASE StopReadRace(h)
    BY <2>1, StutterKeeps DEF StopReadRace
  <2> QED  BY <1>2, <2>1, StopReadKeeps, StopCancelKeeps DEF StopInformer
<1>3. CASE Settled \/ UNCHANGED vars
  BY <1>3, StutterKeeps DEF Settled, vars
<1> QED  BY <1>1, <1>2, <1>3, LoopKeeps, StampKeeps, DeliverKeeps,
         CancelContextKeeps, UnsubscribeKeeps DEF Next

-----------------------------------------------------------------------------
(* The invariant of the router manager: what its map, the worker pool's    *)
(* registry and its concurrent handlers know of each other.                *)
THEOREM ManagerInvariant == Spec => []MInv
<1> QED  BY InitEstablishes, NextKeeps, PTL DEF Spec

(* manager.informers and the registry refer to routers of their GVR, and   *)
(* the version "vacuum" has none.                                          *)
THEOREM ManagerTypes == Spec => []TypeOK
<1>1. MInv => TypeOK
  BY DEF MInv
<1> QED  BY <1>1, ManagerInvariant, PTL

(* Until Run is stopped, no entry of manager.informers outlives its        *)
(* router, although stopInformer reads the map without the lock: a later   *)
(* startInformer is never turned away by a router that is not running.     *)
THEOREM TrackedRoutersRun == Spec => []TrackedIsLive
<1>1. MInv => TrackedIsLive
  BY DEF MInv
<1> QED  BY <1>1, ManagerInvariant, PTL

(* Any number of CRD events handled at once, none of which stops a router, *)
(* start at most one router for each kind.                                 *)
THEOREM RoutersAreUnique == Spec => []OneRouterPerKind
<1>1. MInv => OneRouterPerKind
  <2> SUFFICES ASSUME MInv, ~stops, NEW g \in Versions
               PROVE  Cardinality(Alive(g)) <= 1
    BY DEF OneRouterPerKind
  <2>1. Alive(g) \subseteq {informers[g]}
    BY DEF MInv, Unstopped, NoRouterOrphaned, Alive
  <2>2. IsFiniteSet({informers[g]}) /\ Cardinality({informers[g]}) = 1
    BY FS_Singleton
  <2> QED  BY <2>1, <2>2, FS_Subset
<1> QED  BY <1>1, ManagerInvariant, PTL

(* When the handlers of all events have returned, and neither a router nor *)
(* Run was stopped, startInformer has left every version it was called for *)
(* tracked, running and registered with the worker pool.                   *)
THEOREM VersionsAreWatched == Spec => []EveryVersionWatched
<1>1. MInv => EveryVersionWatched
  <2> SUFFICES ASSUME MInv, ~stops, \A h \in Handlers : pc[h] \in {"unborn", "done"},
                      NEW g \in asked \ {Vacuum}
               PROVE  informers[g] \in live /\ registry[g] = informers[g]
    BY DEF EveryVersionWatched
  <2>1. informers[g] # None /\ g \in Versions
    BY DEF MInv, Shape, Unstopped, AskedTracked
  <2> QED  BY <2>1 DEF MInv, Unstopped, TrackedIsLive, TrackedRegistered
<1> QED  BY <1>1, ManagerInvariant, PTL
=============================================================================
