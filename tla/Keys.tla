-------------------------------- MODULE Keys --------------------------------
(***************************************************************************)
(* Who watches what, and under which name: the NAMESPACES setting          *)
(* (config.go), the static routers and the keys of informers and queue     *)
(* items (router/helpers.go), the informers that NewRouter registers       *)
(* (router.go) and the lookup that reconcile does with a key it takes      *)
(* apart again (workpool.go).                                              *)
(*                                                                         *)
(* A string is a sequence of tokens: separators, blanks and names, which   *)
(* are not taken apart.  A name may hold a "|", as those of some cluster   *)
(* resources may, but never a "/".                                         *)
(***************************************************************************)
EXTENDS SequencesExt

CONSTANTS
  Char,           (* tokens                                                *)
  Kinds,          (* kinds of the cluster, with their group and version    *)
  Dynamic,        (* those a CRD declares, for which a router is started   *)
  ClusterScoped,  (* those that have no namespace                          *)
  Nss,            (* namespaces of the cluster                             *)
  ObjectNames,
  Settings,       (* what NAMESPACES may be set to                         *)
  StaticFiles     (* what may be compiled in as assets/static              *)

Blank == {" ", "\n"}
Part == Seq(Char \ {"/", "|"})
Kind == [group : Part, version : Part, resource : Part, kind : Part]

(* The API server allows no slash in a name, and none of the separators in *)
(* the parts of a kind and in a namespace, which is not empty either.  The *)
(* static file is part of the program and has no bar.                      *)
ASSUME KeysAssumption ==
  /\ {"/", "|", ","} \cup Blank \subseteq Char
  /\ Kinds \subseteq Kind /\ Dynamic \subseteq Kinds
  /\ Nss \subseteq Seq(Char \ ({"/", ","} \cup Blank)) \ {<<>>}
  /\ ObjectNames \subseteq Seq(Char \ {"/"})
  /\ Settings \subseteq Seq(Char) /\ StaticFiles \subseteq Seq(Char \ {"|"})

Objects == {o \in [kind : Kinds, ns : Nss \cup {<<>>}, name : ObjectNames] :
              o.ns = <<>> <=> o.kind \in ClusterScoped}

VARIABLES
  raw,          (* NAMESPACES, as it was set                               *)
  static,       (* assets/static, as it was compiled in                    *)
  namespaces,   (* Config.Namespaces; <<>> before Setup                    *)
  tracked,      (* manager.informers: the kinds started for a CRD          *)
  running,      (* informers that the routers run                          *)
  informers,    (* WorkerPool.informers, by key                            *)
  object, item, (* the object a router was notified of, and its key        *)
  found         (* the informer and the store key reconcile came to        *)

vars == <<raw, static, namespaces, tracked, running, informers, object, item, found>>

-----------------------------------------------------------------------------
(* strings.Split, strings.SplitN(s, sep, 2) and strings.TrimSpace.         *)
At(s, sep) == {i \in DOMAIN s : s[i] = sep}

Before(s, sep, p) == Cardinality({i \in At(s, sep) : i < p})

(* The positions with i - 1 separators before them; the last is that of    *)
(* the next separator, or the end of the string.                           *)
Span(s, sep, i) == {p \in 1..Len(s) + 1 : Before(s, sep, p) = i - 1}

Split(s, sep) ==
  [i \in 1..Before(s, sep, Len(s) + 1) + 1 |->
     SubSeq(s, Min(Span(s, sep, i)), Max(Span(s, sep, i)) - 1)]

SplitAt(s, i) == <<SubSeq(s, 1, i - 1), SubSeq(s, i + 1, Len(s))>>

(* Mutant: the key is split at its last bar.                               *)
SplitLast(s, sep) == IF At(s, sep) = {} THEN <<s>> ELSE SplitAt(s, Max(At(s, sep)))

SplitN(s, sep) == IF At(s, sep) = {} THEN <<s>> ELSE SplitAt(s, Min(At(s, sep)))

(* Mutant: blanks are kept.                                                *)
TrimNothing(s) == s

TrimSpace(s) ==
  LET text == {i \in DOMAIN s : s[i] \notin Blank}
  IN  IF text = {} THEN <<>> ELSE SubSeq(s, Min(text), Max(text))

-----------------------------------------------------------------------------
(* The keys.                                                               *)
Prefix(g) == g.group \o <<"/">> \o g.version \o <<"/">> \o g.resource \o <<"/">> \o g.kind

getInformerKey(g, ns) == Prefix(g) \o <<"|">> \o ns

getObjectKey(ns, n) == IF Len(ns) > 0 THEN ns \o <<"/">> \o n ELSE n

Segments(p) == [group |-> p[1], version |-> p[2], resource |-> p[3], kind |-> p[4]]

(* cache.MetaNamespaceKeyFunc and cache.SplitMetaNamespaceKey.             *)
MetaNamespaceKey(o) == IF o.ns # <<>> THEN o.ns \o <<"/">> \o o.name ELSE o.name

SplitMetaNamespaceKey(key) ==
  LET p == Split(key, "/")
  IN  CASE Len(p) = 1 -> [ok |-> TRUE, ns |-> <<>>, name |-> p[1]]
        [] Len(p) = 2 -> [ok |-> TRUE, ns |-> p[1], name |-> p[2]]
        [] OTHER -> [ok |-> FALSE, ns |-> <<>>, name |-> <<>>]

buildKey(g, o) == Prefix(g) \o <<"|">> \o MetaNamespaceKey(o)

(* An object key that is none yields empty parts and, in the code, no      *)
(* error; every key that is split has its bar.                             *)
splitKey(full) ==
  LET parts == SplitN(full, "|")
      key == SplitMetaNamespaceKey(parts[2])
      p == IF key.ok THEN Split(parts[1], "/") ELSE << <<>>, <<>>, <<>>, <<>> >>
  IN  [kind |-> Segments(p), ns |-> key.ns, name |-> key.name]

-----------------------------------------------------------------------------
(* getRoutersFromStatic: the rows with four segments.                      *)
FourSegments(text) == {p \in {Split(row, "/") : row \in Range(Split(text, "\n"))} : Len(p) = 4}

(* Mutant: a row is cut by SplitN(row, "/", 4), its last part is the rest. *)
getRoutersOfRest(text) ==
  LET rows == {row \in Range(Split(text, "\n")) : Len(Split(row, "/")) >= 4}
      Rest(row, p) == SubSeq(row, Len(p[1]) + Len(p[2]) + Len(p[3]) + 4, Len(row))
  IN  {Segments([Split(row, "/") EXCEPT ![4] = Rest(row, Split(row, "/"))]) : row \in rows}

getRoutersFromStatic(text) == {Segments(p) : p \in FourSegments(text)}

(* NewRouter: an informer for each namespace, or one for all, is run and   *)
(* registered under its key, where the last one stays.                     *)
Informer(g, ns) == [kind |-> g, ns |-> ns]

NewRouter(g, nss) ==
  LET watched == IF nss = <<>> THEN {<<>>} ELSE Range(nss)
      keys == {getInformerKey(g, ns) : ns \in watched}
      last == [k \in keys |-> CHOOSE ns \in watched : getInformerKey(g, ns) = k]
  IN  /\ running' = running \cup {Informer(g, ns) : ns \in watched}
      /\ informers' = [k \in DOMAIN informers \cup keys |->
           IF k \in keys THEN Informer(g, last[k]) ELSE informers[k]]

NoFind == [informer |-> <<>>, key |-> <<>>]

Init ==
  /\ raw \in Settings /\ static \in StaticFiles
  /\ namespaces = <<>> /\ tracked = {} /\ running = {} /\ informers = <<>>
  /\ object = <<>> /\ item = <<>> /\ found = NoFind

(* config.Setup                                                            *)
Setup ==
  /\ namespaces = <<>>
  /\ namespaces' = [i \in DOMAIN Split(raw, ",") |-> TrimSpace(Split(raw, ",")[i])]
  /\ UNCHANGED <<raw, static, tracked, running, informers, object, item, found>>

(* NewStaticRouters, one of them: watched in all namespaces.  The file is  *)
(* read by MustLoad.                                                       *)
StaticKinds == getRoutersFromStatic(TrimSpace(static))

StaticRouter ==
  /\ namespaces # <<>>
  /\ \E g \in StaticKinds : NewRouter(g, <<>>)
  /\ UNCHANGED <<raw, static, namespaces, tracked, object, item, found>>

(* manager.startInformer: a kind without namespaces is watched everywhere. *)
startInformer(g) ==
  /\ namespaces # <<>> /\ g \notin tracked
  /\ tracked' = tracked \cup {g}
  /\ NewRouter(g, IF g \in ClusterScoped THEN <<>> ELSE namespaces)
  /\ UNCHANGED <<raw, static, namespaces, object, item, found>>

(* An informer (external) sees the objects of its kind and namespace.      *)
Sees(inf, o) == inf.kind = o.kind /\ inf.ns \in {<<>>, o.ns}

Watched(o) == \E inf \in running : Sees(inf, o)

(* Router.enqueue                                                          *)
Enqueue(o) ==
  /\ item = <<>> /\ Watched(o)
  /\ object' = o /\ item' = buildKey(o.kind, o)
  /\ found' = NoFind
  /\ UNCHANGED <<raw, static, namespaces, tracked, running, informers>>

Lookup(s) ==
  LET key == getInformerKey(s.kind, s.ns)
      all == getInformerKey(s.kind, <<>>)
  IN  CASE key \in DOMAIN informers -> informers[key]
        [] key \notin DOMAIN informers /\ all \in DOMAIN informers -> informers[all]
        [] OTHER -> NoFind.informer

(* WorkerPool.reconcile                                                    *)
Reconcile ==
  /\ item # <<>>
  /\ LET s == splitKey(item)
     IN  found' = [informer |-> Lookup(s), key |-> getObjectKey(s.ns, s.name)]
  /\ item' = <<>>
  /\ UNCHANGED <<raw, static, namespaces, tracked, running, informers, object>>

Next ==
  \/ Setup
  \/ StaticRouter
  \/ \E g \in Dynamic : startInformer(g)
  \/ \E o \in Objects : Enqueue(o)
  \/ Reconcile

Spec == Init /\ [][Next]_vars

-----------------------------------------------------------------------------
(* Type invariant: a row of the static file that has not four segments     *)
(* starts no router, and every registered informer runs.                   *)
TypeOK ==
  /\ \A i \in DOMAIN namespaces : namespaces[i] \in Seq(Char \ {","})
  /\ tracked \subseteq Dynamic
  /\ \A inf \in running : inf.kind \in Kind /\ inf.ns \in Seq(Char \ {","})
  /\ Range(informers) \subseteq running
  /\ object # <<>> => object \in Objects

(* The key that a router builds leads reconcile to an informer that sees   *)
(* the object, and to the object's own place in its store, whatever the    *)
(* names, the scope of the kind and the namespaces watched.                *)
LookupFindsWatcher ==
  object # <<>> /\ item = <<>> =>
    /\ found.informer # NoFind.informer
    /\ Sees(found.informer, object)
    /\ found.key = MetaNamespaceKey(object)

(* An entry of the setting is what lies between two commas next to each    *)
(* other, or between a comma and an end; it lists a namespace if that and  *)
(* blanks around it are all it has.                                        *)
Cuts == {0, Len(raw) + 1} \cup At(raw, ",")
Entries == {c \in Cuts \X Cuts : c[1] < c[2] /\ ~\E k \in Cuts : c[1] < k /\ k < c[2]}

Lists(e, ns) ==
  \E i \in e[1] + 1..e[2], j \in e[1]..e[2] - 1 :
    /\ i <= j + 1 /\ SubSeq(raw, i, j) = ns
    /\ \A k \in (e[1] + 1..i - 1) \cup (j + 1..e[2] - 1) : raw[k] \in Blank

(* README, Configuration: NAMESPACES, "all (if empty)".  An object of a    *)
(* namespaced kind is watched if its namespace is an entry of the setting  *)
(* or some entry is blank, as that of an empty setting is and the one      *)
(* after a trailing comma; and not otherwise.                              *)
WatchedAsListed ==
  \A o \in Objects : o.kind \in tracked \ (ClusterScoped \cup StaticKinds) =>
    (Watched(o) <=> \E e \in Entries : Lists(e, <<>>) \/ Lists(e, o.ns))
=============================================================================
