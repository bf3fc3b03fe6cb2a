------------------------------ MODULE Manager ------------------------------
(***************************************************************************)
(* The dynamic routers, internal/manager: every CRD event addressed to the *)
(* manager is handled in a goroutine of its own, which walks through the   *)
(* versions of the CRD and starts or stops the router of each.  Routers    *)
(* are numbered as they are started; the manager's map remembers a         *)
(* router's cancel function, and the worker pool's registry its informer.  *)
(*                                                                         *)
(* The worker pool addresses only UPDATE events to the manager, so a stop  *)
(* comes from an object whose deletion timestamp is set when the loop      *)
(* reads it.  The object is shared: the storage manager may set the        *)
(* timestamp between two versions of the loop.                             *)
(***************************************************************************)
EXTENDS Naturals, Sequences, FiniteSets

CONSTANTS
  Versions,     (* the GVRs of the CRD, one for each version              *)
  Vacuum,       (* the GVR of the version named "vacuum", never watched   *)
  Unnamed,      (* an entry of spec.versions that is no map or has no name *)
  Handlers,     (* bound: events for the manager                          *)
  MaxRouters    (* bound: routers started                                 *)

ASSUME ManagerAssumption ==
  /\ IsFiniteSet(Versions)
  /\ Unnamed \notin Versions
  /\ MaxRouters \in Nat

None == 0       (* no router                                              *)

VARIABLES
  informers,    (* manager.informers: the router tracked for each GVR     *)
  registry,     (* WorkerPool.informers: the router whose store is read   *)
  router,       (* the routers started: their GVRs, in order              *)
  live,         (* routers whose context is not cancelled                 *)
  pc, gvr, rest,    (* each handler: program counter, current and         *)
                    (* remaining GVRs                                     *)
  mine,         (* the router a handler is starting or is about to cancel *)
  terminating,  (* deletion timestamp of each handler's object            *)
  asked,        (* history: GVRs a handler was asked to start, kept until *)
                (* something is stopped                                   *)
  stops,        (* history: some router, or the manager, was stopped      *)
  crashed,      (* the runtime found a concurrent map access              *)
  cancelled,    (* mgrCtx, the parent of every router's context           *)
  subscribed    (* Run still listens to the bus                           *)

vars == <<informers, registry, router, live, pc, gvr, rest, mine, terminating,
          asked, stops, crashed, cancelled, subscribed>>
routers == <<informers, registry, router, live>>
history == <<asked, stops>>
lifetime == <<cancelled, subscribed>>

Init ==
  /\ informers = [g \in Versions |-> None]
  /\ registry = [g \in Versions |-> None]
  /\ router = <<>> /\ live = {}
  /\ pc = [h \in Handlers |-> "unborn"]
  /\ gvr = [h \in Handlers |-> Vacuum]
  /\ rest = [h \in Handlers |-> {}]
  /\ mine = [h \in Handlers |-> None]
  /\ terminating = [h \in Handlers |-> FALSE]
  /\ asked = {} /\ stops = FALSE /\ crashed = FALSE
  /\ cancelled = FALSE /\ subscribed = TRUE

-----------------------------------------------------------------------------
(* ExtractGvrkNsFromCrd: the GVRs of the named versions; none when spec,   *)
(* spec.names or spec.versions is missing.                                 *)
CRDs == [complete : BOOLEAN, versions : SUBSET (Versions \cup {Unnamed})]

ExtractGvrs(crd) == IF crd.complete THEN crd.versions \ {Unnamed} ELSE {}

(* A step of handler h that continues at another place.                    *)
HandlerStep(h, from, to) ==
  /\ ~crashed
  /\ pc[h] = from
  /\ pc' = [pc EXCEPT ![h] = to]
  /\ UNCHANGED <<crashed, lifetime>>

(* The bus delivers an UPDATE of the CRD: its contents, whether its group  *)
(* is managed, and its deletion timestamp.                                 *)
Deliver(h, crd, managed, dt) ==
  LET gvrs == ExtractGvrs(crd)
  IN  /\ subscribed
      /\ HandlerStep(h, "unborn", IF gvrs # {} /\ ~managed THEN "done" ELSE "loop")
      /\ rest' = [rest EXCEPT ![h] = IF managed THEN gvrs ELSE {}]
      /\ terminating' = [terminating EXCEPT ![h] = dt]
      /\ UNCHANGED <<routers, gvr, mine, history>>

(* Storage stamps the object of a delete event on which h works as well.   *)
StampObject(h) ==
  /\ ~crashed
  /\ pc[h] \notin {"unborn", "done"} /\ ~terminating[h]
  /\ terminating' = [terminating EXCEPT ![h] = TRUE]
  /\ UNCHANGED <<routers, pc, gvr, rest, mine, history, crashed, lifetime>>

(* The loop over the GVRs, and the test of the timestamp: each GVR that is *)
(* looked at, with the others as they remain afterwards.  A handler that   *)
(* returns forgets its last GVR.                                           *)
LoopEnd(h) ==
  /\ HandlerStep(h, "loop", "done")
  /\ rest[h] = {}
  /\ gvr' = [gvr EXCEPT ![h] = Vacuum]
  /\ UNCHANGED <<routers, rest, mine, terminating, history>>

LoopTurn(h, g, others) ==
  /\ HandlerStep(h, "loop", IF terminating[h] THEN "stop" ELSE "start")
  /\ gvr' = [gvr EXCEPT ![h] = g]
  /\ rest' = [rest EXCEPT ![h] = others]
  /\ asked' = IF terminating[h] \/ stops THEN asked ELSE asked \cup (rest[h] \ others)
  /\ UNCHANGED <<routers, mine, terminating, stops>>

(* Mutant: only the first version is looked at.                            *)
LoopFirstOnly(h) == LoopEnd(h) \/ \E g \in rest[h] : LoopTurn(h, g, {})

Loop(h) == LoopEnd(h) \/ \E g \in rest[h] : LoopTurn(h, g, rest[h] \ {g})

-----------------------------------------------------------------------------
(* startInformer: skip, or find the GVR tracked, or track a new router     *)
(* under the lock and then, without it, register and run its informers.  A *)
(* router that is started after the manager's stop is born cancelled.      *)
StartSkip(h) ==
  /\ HandlerStep(h, "start", "loop")
  /\ gvr[h] = Vacuum \/ informers[gvr[h]] # None
  /\ UNCHANGED <<routers, gvr, rest, mine, terminating, history>>

Track(h) ==
  /\ HandlerStep(h, "start", "register")
  /\ Len(router) < MaxRouters
  /\ router' = Append(router, gvr[h])
  /\ live' = IF cancelled THEN live ELSE live \cup {Len(router')}
  /\ informers' = [informers EXCEPT ![gvr[h]] = Len(router')]
  /\ mine' = [mine EXCEPT ![h] = Len(router')]
  /\ UNCHANGED <<registry, gvr, rest, terminating, history>>

(* Mutant: the version "vacuum" is started like any other.                 *)
StartTrackVacuum(h) == informers[gvr[h]] = None /\ Track(h)

(* Mutant: the map is not looked up before the router is tracked.          *)
StartUnchecked(h) == gvr[h] # Vacuum /\ Track(h)

StartTrack(h) == gvr[h] # Vacuum /\ informers[gvr[h]] = None /\ Track(h)

(* NewRouter calls RegisterInformer; Run is started and lives as long as   *)
(* its context.                                                            *)
StartRegister(h) ==
  /\ HandlerStep(h, "register", "loop")
  /\ registry' = [registry EXCEPT ![gvr[h]] = mine[h]]
  /\ mine' = [mine EXCEPT ![h] = None]
  /\ UNCHANGED <<informers, router, live, gvr, rest, terminating, history>>

-----------------------------------------------------------------------------
(* stopInformer: the map is read without the lock; then, under the lock,   *)
(* the function read is called and the entry, whatever it is now, deleted. *)
StopRead(h) ==
  /\ HandlerStep(h, "stop", IF informers[gvr[h]] = None THEN "loop" ELSE "cancel")
  /\ mine' = [mine EXCEPT ![h] = informers[gvr[h]]]
  /\ UNCHANGED <<routers, gvr, rest, terminating, history>>

(* The read may be caught while another handler writes the map.            *)
StopReadRace(h) ==
  /\ ~crashed
  /\ pc[h] = "stop"
  /\ \E k \in Handlers \ {h} :
       pc[k] = "cancel" \/ (pc[k] = "start" /\ gvr[k] # Vacuum
                              /\ informers[gvr[k]] = None)
  /\ crashed' = TRUE
  /\ UNCHANGED <<routers, pc, gvr, rest, mine, terminating, history, lifetime>>

Cancel(h) ==
  /\ HandlerStep(h, "cancel", "loop")
  /\ live' = live \ {mine[h]}
  /\ mine' = [mine EXCEPT ![h] = None]
  /\ stops' = TRUE /\ asked' = {}
  /\ UNCHANGED <<registry, router, gvr, rest, terminating>>

(* Mutant: the router is cancelled and stays in the map.                   *)
StopKeepsEntry(h) == Cancel(h) /\ UNCHANGED informers

StopCancel(h) == Cancel(h) /\ informers' = [informers EXCEPT ![gvr[h]] = None]

-----------------------------------------------------------------------------
(* The stop of Run: a goroutine of its own cancels mgrCtx, and every       *)
(* router with it; Run itself leaves the bus and cancels as well, in       *)
(* either order.  Handlers at work go on, and the map keeps its entries.   *)
CancelContext ==
  /\ ~crashed /\ ~cancelled
  /\ cancelled' = TRUE
  /\ live' = {}
  /\ stops' = TRUE /\ asked' = {}
  /\ UNCHANGED <<informers, registry, router, pc, gvr, rest, mine, terminating,
                 crashed, subscribed>>

Unsubscribe ==
  /\ ~crashed /\ subscribed
  /\ subscribed' = FALSE
  /\ UNCHANGED <<routers, pc, gvr, rest, mine, terminating, history, crashed, cancelled>>

(* The process is dead, or all events are handled (as far as the bound on  *)
(* routers lets them).                                                     *)
Settled ==
  /\ \/ crashed
     \/ Len(router) = MaxRouters
     \/ \A h \in Handlers : pc[h] = "done" \/ (pc[h] = "unborn" /\ ~subscribed)
  /\ UNCHANGED vars

Start(h) == StartSkip(h) \/ StartTrack(h) \/ StartRegister(h)
StopInformer(h) == StopRead(h) \/ StopReadRace(h) \/ StopCancel(h)

Next ==
  \/ \E h \in Handlers : \/ Start(h) \/ StopInformer(h) \/ Loop(h) \/ StampObject(h)
                         \/ \E crd \in CRDs, managed, dt \in BOOLEAN :
                              Deliver(h, crd, managed, dt)
  \/ CancelContext \/ Unsubscribe \/ Settled

Spec == Init /\ [][Next]_vars

-----------------------------------------------------------------------------
(* Type invariant; every map entry and every handler refers to a router of *)
(* the GVR it is meant for.                                                *)
OfGvr(r, g) == r = None \/ (r \in DOMAIN router /\ router[r] = g)

TypeOK ==
  /\ router \in Seq(Versions) /\ Len(router) <= MaxRouters
  /\ live \subseteq (IF cancelled THEN {} ELSE DOMAIN router)
  /\ subscribed \in BOOLEAN
  /\ \A g \in Versions : OfGvr(informers[g], g) /\ OfGvr(registry[g], g)
  /\ \A h \in Handlers : /\ mine[h] # None => OfGvr(mine[h], gvr[h])
                         /\ pc[h] \in {"register", "cancel"} <=> mine[h] # None
                         /\ rest[h] \subseteq Versions
  /\ Vacuum \notin {router[r] : r \in DOMAIN router}

Alive(g) == {r \in live : router[r] = g}

(* A router that the manager tracks is running, until the manager itself   *)
(* is stopped: the kind is not left unwatched because its entry outlived   *)
(* its router, which would make every later start return early.            *)
TrackedIsLive ==
  ~cancelled => \A g \in Versions : informers[g] # None => informers[g] \in live

(* However many events of a CRD are handled at once, as long as none of    *)
(* them stops a router, no kind is watched by two.                         *)
OneRouterPerKind == ~stops => \A g \in Versions : Cardinality(Alive(g)) <= 1

(* When all events are handled, and no router nor the manager was stopped, *)
(* every version of the CRD that was to be started is tracked, running and *)
(* registered.                                                             *)
EveryVersionWatched ==
  ~stops /\ (\A h \in Handlers : pc[h] \in {"unborn", "done"}) =>
    \A g \in asked \ {Vacuum} : informers[g] \in live /\ registry[g] = informers[g]

(* README, Key Components: "Dynamically start or stop routers when CRDs in *)
(* managed API groups are created, updated, or deleted".  Every running    *)
(* router is tracked, or it could never be stopped.                        *)
NoRouterOrphaned == \A r \in live : informers[router[r]] = r
=============================================================================
