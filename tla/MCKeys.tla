------------------------------- MODULE MCKeys -------------------------------
(***************************************************************************)
(* Keys for TLC: kinds of the static file and of CRDs, of both scopes, one *)
(* in the core group, which has no name; an object with a bar in its name. *)
(***************************************************************************)
EXTENDS Keys

CONSTANT MaxRaw      (* bound: tokens of the NAMESPACES setting             *)

ASSUME BoundAssumption == MaxRaw \in Nat

AKind(g, v, r, k) == [group |-> g, version |-> <<v>>, resource |-> <<r>>, kind |-> <<k>>]
Crd == AKind(<<"apiextensions">>, "v1", "crds", "Crd")
Pod == AKind(<<>>, "v1", "pods", "Pod")
Composition == AKind(<<"krateo">>, "v1", "comps", "Comp")
Global == AKind(<<"krateo">>, "v2", "comps", "Comp")

MCChar == {"/", "|", ",", " ", "\n", "ns1", "ns2", "n", "apiextensions", "krateo", "v1", "v2",
           "crds", "pods", "comps", "Crd", "Pod", "Comp"}
MCKinds == {Crd, Pod, Composition, Global}
MCDynamic == {Composition, Global}
MCClusterScoped == {Crd, Global}
MCNss == {<<"ns1">>, <<"ns2">>}
MCObjectNames == {<<"n">>, <<"n", "|", "ns1">>}

MCSettings == SeqOf({"ns1", "ns2", ",", " "}, MaxRaw)

(* A good row and a second one: empty, good, of three segments or of five. *)
Rows == {<<>>, Prefix(Crd), SubSeq(Prefix(Crd), 3, Len(Prefix(Crd))), Prefix(Crd) \o <<"/", "v1">>}
MCStaticFiles == {Prefix(Pod) \o <<"\n">> \o row : row \in Rows}
=============================================================================
