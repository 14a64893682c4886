--------------------------- MODULE MergeConflicts ---------------------------
(***************************************************************************)
(* How a merge conflict is shown and resolved (internal/kernel/            *)
(* evolution_merge_conflict_*.go).                                         *)
(*                                                                         *)
(* Lithograph reports a conflict as a slot of its own storage: a graph     *)
(* element type, a constraint, an index, a node or a relationship, or one  *)
(* label or property of them, with the native value each side has there.   *)
(* The kernel shows it as a field (path) of a public object, with the      *)
(* value of the whole field on each side, and maps the value a caller      *)
(* decides on back to a native value of that one slot.  What it cannot     *)
(* show or map back it must refuse, never guess.                           *)
(*                                                                         *)
(* A snapshot holds two objects, 1 and 2, of the kind the slot lies in;    *)
(* fields are sets, small numbers (0: none) and names.  Refs, the base and *)
(* related refs are left out: no value depends on them.                    *)
(***************************************************************************)
EXTENDS Naturals, FiniteSets, FiniteSetsExt

VARIABLES
  slot,        \* where the conflict lies
  objects,     \* the public objects of each side
  native,      \* the native value of the slot on each side
  resolution,  \* the resolution Lithograph keeps
  asked        \* the public value the caller resolved the conflict with

conflictVars == <<slot, objects, native, resolution, asked>>

Sides == {"ours", "theirs"}
None  == [kind |-> "none"]

-----------------------------------------------------------------------------
(* What the two sides may hold.                                            *)

KnowledgeNodes ==
  [kind : {"node"}, labels : SUBSET {"l", "m"}, properties : {f \in [{"p", "q"} -> 0..2] : f["q"] < 2}]
KnowledgeRelationships ==
  [kind : {"relationship"}, type : {"t", "u"}, start : {"a", "b"}, end : {"a", "b"},
   properties : [{"p", "q"} -> 0..1]]
Domains == [kind : {"domain"}, name : {"n", "o"}, title : 0..1, includes : SUBSET {"x", "y"}]
NodeTypes ==
  [kind : {"node type"}, labels : SUBSET {"A", "B"}, properties : [type : 1..2, title : 0..1]]
RelationshipTypes ==
  [kind : {"relationship type"}, from : {"A", "null"}, to : {"A", "null"},
   properties : [type : 1..2, title : 0..1]]
Declarations ==
  [kind : {"node type"}, constraints : 0..2, indexes : 0..2,
   properties : [type : 1..2, constraint : 0..2, unique : BOOLEAN, index : 0..2]]

Slots ==
  [in : {"knowledge node"}, tail : {"", "label", "property"}]
    \cup [in : {"knowledge relationship"}, tail : {"", "property"}]
    \cup [in : {"domain"}, tail : {"", "label", "name", "title", "unknown"}]
    \cup [in : {"membership"}, tail : {""}]
    \cup [in : {"binding"}, tail : {"", "edge", "label", "title", "unknown"}]
    \cup [in : {"graph node", "graph relationship"}, tail : {""}]
    \cup [in : {"constraint"}, tail : {"named", "unique", "hidden"}]
    \cup [in : {"index"}, tail : {""}]

\* One name is declared once; one index may be shared and is then the same.
Places(s) == {p \in {1, 2} \X {"own", "property"} :
                /\ s[p[1]] # None
                /\ (IF p[2] = "own" THEN s[p[1]].constraints ELSE s[p[1]].properties.constraint) # 0}
IndexesOf(s) == UNION {IF s[e] = None THEN {} ELSE {s[e].indexes, s[e].properties.index} : e \in {1, 2}} \ {0}
Plain == [kind |-> "node type", constraints |-> 0, indexes |-> 0,
          properties |-> [type |-> 1, constraint |-> 0, unique |-> FALSE, index |-> 0]]
One(set) == {[e \in {1, 2} |-> IF e = 1 THEN o ELSE None] : o \in set \cup {None}}

SnapshotsOf == [sl \in Slots |->
  CASE sl.in = "knowledge node" -> One(KnowledgeNodes)
    [] sl.in = "knowledge relationship" -> One(KnowledgeRelationships)
    [] sl.in \in {"domain", "membership"} -> One(Domains)
    [] sl.in \in {"binding", "graph node"} -> One(NodeTypes)
    [] sl.in = "graph relationship" -> One(RelationshipTypes)
    [] sl.in = "constraint" ->
         LET First  == {o \in Declarations :
                          /\ o.indexes = 0 /\ o.properties.index = 0
                          /\ o.constraints # 0 \/ o.properties.constraint # 0
                             => o.properties.type = 1 /\ ~o.properties.unique} \cup {None}
             Second == {None, Plain, [Plain EXCEPT !.constraints = 1], [Plain EXCEPT !.properties.constraint = 1]}
             Two    == {[e \in {1, 2} |-> IF e = 1 THEN a ELSE b] : a \in First, b \in Second}
         IN  {s \in Two : Cardinality(Places(s)) <= 1}
    [] sl.in = "index" ->
         LET Indexed == {None, Plain} \cup {[Plain EXCEPT !.indexes = i] : i \in 1..2}
                          \cup {[Plain EXCEPT !.properties.index = i] : i \in 1..2}
         IN  {s \in [{1, 2} -> Indexed] : Cardinality(IndexesOf(s)) <= 1}]

-----------------------------------------------------------------------------
(* What Lithograph keeps in the slot.  Absent stands for no value and for  *)
(* null: the kernel tells them apart nowhere (nativeMergeValuePresent).    *)

Absent == <<>>
Kept(x) == IF x = 0 THEN Absent ELSE <<x>>
Member(x, set) == IF x \in set THEN <<"true">> ELSE Absent

ElementType(o) ==
  IF o.kind = "node type" THEN [labels |-> o.labels, signature |-> o.properties.type]
                          ELSE [from |-> o.from, to |-> o.to, signature |-> o.properties.type]

Structure(o) == [type |-> o.type, start |-> o.start, end |-> o.end]

\* The element type is kept without titles, a relationship without its
\* properties: an object can differ where its slot does not.
NativeOf(sl, s) ==
  LET o == s[1] IN
  CASE sl.in = "constraint" ->
         IF sl.tail = "named" /\ Places(s) # {}
         THEN LET p == CHOOSE p \in Places(s) : TRUE
              IN  <<IF p[2] = "own" THEN s[p[1]].constraints ELSE s[p[1]].properties.constraint>>
         ELSE IF sl.tail = "unique" /\ o # None THEN Kept(IF o.properties.unique THEN o.properties.type ELSE 0)
         ELSE Absent
    [] sl.in = "index" ->
         IF IndexesOf(s) = {} THEN Absent ELSE <<Min(IndexesOf(s))>>
    [] OTHER ->
         IF o = None THEN Absent
         ELSE CASE sl.in \in {"graph node", "graph relationship"} -> <<ElementType(o)>>
                [] sl.in = "knowledge relationship" /\ sl.tail = "" -> <<Structure(o)>>
                [] sl.tail = "property" -> Kept(o.properties["p"])
                [] sl.in = "knowledge node" /\ sl.tail = "label" -> Member("l", o.labels)
                [] sl.in = "membership" -> Member("x", o.includes)
                [] sl.tail = "name" -> <<o.name>>
                [] sl.tail = "title" -> Kept(IF sl.in = "binding" THEN o.properties.title ELSE o.title)
                [] OTHER -> <<o>>

Natives(sl, os) ==
  IF sl.in = "constraint" /\ sl.tail = "hidden"
  THEN [Sides -> {Absent, <<1>>, <<2>>}]
  ELSE {[side \in Sides |-> NativeOf(sl, os[side])]}

-----------------------------------------------------------------------------
(* The projection: the field a conflict is shown at, the value of the      *)
(* field on each side, and how values are mapped ("how").  A public value  *)
(* is a path and what stands there; the path "" is the whole object.       *)

Missing == <<"missing">>
Null    == <<"null">>
Unsafe  == [safe |-> FALSE]

\* What an object does not write: a title that is not set, and the labels of a
\* Definition that implies none (the labels of a node are always written).
NoField(o, path) ==
  \/ path = "title" /\ o.title = 0
  \/ path = "labels" /\ o.kind = "node type" /\ o.labels = {}

\* The object of a snapshot at a path (publicOntologyMergeValue,
\* publicKnowledgeMergeValue); what is not written is not found.
Public(o, path) ==
  IF o = None THEN Missing
  ELSE IF path = "" THEN <<"", o>>
  ELSE IF NoField(o, path) THEN Missing
  ELSE <<path, o[path]>>

\* populateMergeConflictSides: a side that has a native value must have a
\* public one, a side that has none shows none.
Show(path, how, ours, theirs) ==
  LET value == [side \in Sides |-> IF side = "ours" THEN ours ELSE theirs]
  IN  IF \E side \in Sides : native[side] # Absent /\ value[side] = Missing THEN Unsafe
      ELSE [safe |-> TRUE, path |-> path, how |-> how,
            value |-> [side \in Sides |-> IF native[side] = Absent THEN Missing ELSE value[side]]]

At(path, how) == Show(path, how, Public(objects["ours"][1], path), Public(objects["theirs"][1], path))

\* The fields the objects of both sides differ in, of those given.
Differing(o, t, fields) == {f \in fields : o[f] # t[f]}


\* A conflict has a path into the object if the sides differ in one place only.
OnePath(paths) == IF Cardinality(paths) = 1 THEN CHOOSE p \in paths : TRUE ELSE ""

\* nativeRelationshipPublicPath: type, start or end if only that one differs.
RelationshipPath ==
  IF \E side \in Sides : native[side] = Absent THEN ""
  ELSE OnePath(Differing(native["ours"][1], native["theirs"][1], {"type", "start", "end"}))

\* graphDefinitionConflictPath: the title of a property is not in its signature.
DefinitionPath(o, t) ==
  IF o = None \/ t = None THEN ""
  ELSE OnePath(Differing(o, t, IF o.kind = "node type" THEN {"labels"} ELSE {"from", "to"})
               \cup (IF o.properties.type # t.properties.type THEN {"properties"} ELSE {}))

\* The rest of a map or a set, without the member the slot is about.
Remainder(o) ==
  IF slot.tail = "label" THEN o.labels \ {"l"}
  ELSE [k \in DOMAIN o.properties \ {"p"} |-> o.properties[k]]

\* knowledgePropertyAggregateMappers, knowledgeLabelAggregateMappers: both
\* objects exist and the rest is the same on both sides.
ProjectMember ==
  LET o == objects["ours"][1]
      t == objects["theirs"][1]
      path == IF slot.tail = "label" THEN "labels" ELSE "properties"
  IN  IF o = None \/ t = None THEN Unsafe
      ELSE IF Remainder(o) # Remainder(t) THEN Unsafe
      ELSE At(path, slot.tail)

\* projectInternalNodeConflict
ProjectInternal ==
  CASE slot.tail = "unknown" -> Unsafe
    [] slot.in = "binding" -> At("properties", "sides")
    [] slot.tail \in {"name", "title"} -> At(slot.tail, "scalar")
    [] OTHER -> At("", "sides")

\* findPublicConstraintLocation: the first object that declares the name.
ConstraintLocation(s) ==
  LET at == IF slot.tail = "named" THEN Places(s)
            ELSE {<<1, "property">> : e \in {e \in {1} : slot.tail = "unique" /\ s[e] # None /\ s[e].properties.unique}}
  IN  {<<p[1], IF p[2] = "own" THEN "constraints" ELSE "properties">> : p \in at}

\* inferPropertyConflictLocation: the one object whose properties differ.
InferredLocation ==
  LET changed == {e \in {1, 2} : /\ objects["ours"][e] # None /\ objects["theirs"][e] # None
                                 /\ objects["ours"][e].properties # objects["theirs"][e].properties}
  IN  IF Cardinality(changed) = 1 THEN {<<e, "properties">> : e \in changed} ELSE {}

\* projectConstraintConflict
ProjectConstraint ==
  LET found == [side \in Sides |-> ConstraintLocation(objects[side])]
      none  == \A side \in Sides : found[side] = {}
      at    == IF none THEN [side \in Sides |-> InferredLocation] ELSE found
      any   == CHOOSE l \in at["ours"] \cup at["theirs"] : at["ours"] = {} \/ l \in at["ours"]
      Value(side) == IF at[side] = {} THEN Missing
                     ELSE Public(objects[side][(CHOOSE l \in at[side] : TRUE)[1]], any[2])
  IN  IF at["ours"] \cup at["theirs"] = {} THEN Unsafe
      ELSE IF \E l \in at["ours"], m \in at["theirs"] : l[2] # m[2] THEN Unsafe
      ELSE Show(any[2], "sides", Value("ours"), Value("theirs"))

\* projectIndexConflict: shown at the first object that lists the index.
ProjectIndex ==
  LET Lists(side) == {e \in {1, 2} : objects[side][e] # None /\ IndexesOf([objects[side] EXCEPT ![3 - e] = None]) # {}}
      anchor == Min(Lists("ours") \cup Lists("theirs"))
      Path(side) == LET o == objects[side][anchor] IN IF o.properties.index # 0 THEN "properties" ELSE "indexes"
      path == Path(IF anchor \in Lists("ours") THEN "ours" ELSE "theirs")
      Value(side) == IF Lists(side) = {} THEN Missing ELSE <<"index", Min(IndexesOf(objects[side]))>>
  IN  Show(path, "sides", Value("ours"), Value("theirs"))

\* projectMergeConflict and the functions it dispatches to.
Projection ==
  CASE slot.in \in {"graph node", "graph relationship"} ->
         At(DefinitionPath(objects["ours"][1], objects["theirs"][1]), "definition")
    [] slot.in = "constraint" -> ProjectConstraint
    [] slot.in = "index" -> ProjectIndex
    [] slot.in = "membership" -> At("includes", "membership")
    [] slot.in \in {"domain", "binding"} -> ProjectInternal
    [] slot.tail \in {"property", "label"} -> ProjectMember
    [] slot.in = "knowledge relationship" -> At(RelationshipPath, "relationship")
    [] OTHER -> At("", "sides")

-----------------------------------------------------------------------------
(* The maps between native and public values of a projection p.            *)

Refused == <<"refused", "">>
Settable == [definition |-> {"labels", "from", "to"}, relationship |-> {"type", "start", "end"}]

\* The native values of a side, as the caller sees them: ours first
\* (projectKnownNativeMergeSide, sideMatchingNativeToPublic).
SidesWith(test(_)) == {side \in Sides : test(side) /\ (test("ours") => side = "ours")}

\* One property has several spellings of one value (1 and 3); the canonical
\* one is stored (normalizeKnowledgePropertyRaw).
Canonical(x) == IF x = 3 THEN 1 ELSE x

\* togglePublicStringSet: the set with the member the slot is about, or without.
Toggle(set, member, n) == IF n = Absent THEN set \ {member} ELSE set \cup {member}

\* graphDefinitionNativeToPublic: what is no side's value, of the fields whose
\* native form is the public one.  Labels that were set to null are no field of
\* the native record, and are shown as null.
DefinitionValue(p, n) ==
  IF p.path \notin Settable.definition THEN Refused
  ELSE IF p.path \in DOMAIN n[1] THEN <<p.path, n[1][p.path]>> ELSE Null

\* relationshipNativeToPublic
RelationshipValue(p, n) ==
  IF p.path \in Settable.relationship THEN <<p.path, n[1][p.path]>> ELSE Refused

Common == objects["ours"][1]  \* its remainder is that of both sides

ToPublic(p, n) ==
  LET Known(side) == native[side] = n /\ p.value[side] # Missing IN
  CASE p.how = "scalar" -> IF n = Absent THEN Null ELSE <<p.path, n[1]>>
    [] p.how = "membership" ->
         LET set == IF p.value["ours"] # Missing THEN p.value["ours"][2] ELSE p.value["theirs"][2]
         IN  <<p.path, Toggle(set, "x", n)>>
    [] p.how = "label" -> <<p.path, Toggle(Remainder(Common), "l", n)>>
    [] p.how = "property" ->
         <<p.path, [Common.properties EXCEPT !["p"] = IF n = Absent THEN 0 ELSE Canonical(n[1])]>>
    [] OTHER ->
         IF n = Absent THEN Null
         ELSE IF SidesWith(Known) # {} THEN p.value[CHOOSE side \in SidesWith(Known) : TRUE]
         ELSE IF p.how = "definition" THEN DefinitionValue(p, n)
         ELSE IF p.how = "relationship" THEN RelationshipValue(p, n)
         ELSE Refused

\* matchPublicValueToNativeSides: null only where the whole slot may go.
Match(p, v, allowNull) ==
  LET Equal(side) == p.value[side] # Missing /\ p.value[side] = v /\ native[side] # Absent IN
  IF allowNull /\ v = Null THEN Absent
  ELSE IF SidesWith(Equal) # {} THEN native[CHOOSE side \in SidesWith(Equal) : TRUE]
  ELSE Refused

Template == IF native["ours"] # Absent THEN native["ours"][1] ELSE native["theirs"][1]

\* One field of what one side has is replaced.
Replaced(p, v) == <<[Template EXCEPT ![p.path] = v[2]]>>
Removed(p) == <<[f \in DOMAIN Template \ {p.path} |-> Template[f]]>>

\* graphDefinitionPublicToNative: a node type may not imply its own label.
\* Null is read as an array of no labels, and kept as null.
SetDefinition(p, v) ==
  IF Match(p, v, p.path = "") # Refused THEN Match(p, v, p.path = "")
  ELSE IF p.path = "labels" /\ v = Null THEN Removed(p)
  ELSE IF p.path \notin Settable.definition \/ v[1] # p.path THEN Refused
  ELSE IF p.path = "labels" /\ "own" \in v[2] THEN Refused
  ELSE Replaced(p, v)

\* relationshipPublicToNative
SetRelationship(p, v) ==
  IF Match(p, v, p.path = "") # Refused THEN Match(p, v, p.path = "")
  ELSE IF p.path \notin Settable.relationship \/ v[1] # p.path THEN Refused
  ELSE Replaced(p, v)


\* Aggregate mappers (toNative): the rest of the map or set must be as shown.
SetMember(p, v) ==
  IF v[1] # p.path THEN Refused
  ELSE IF p.how = "label" THEN IF v[2] \ {"l"} # Remainder(Common) THEN Refused ELSE Member("l", v[2])
  ELSE IF [k \in DOMAIN v[2] \ {"p"} |-> v[2][k]] # Remainder(Common) THEN Refused
  ELSE Kept(Canonical(v[2]["p"]))

\* The mapper of projectInternalNodeConflict: a name must be one, a title or
\* a description may go.
SetScalar(p, v) ==
  IF v = Null /\ p.path = "title" THEN Absent
  ELSE IF v[1] # p.path THEN Refused ELSE <<v[2]>>

\* The mapper of projectInternalRelationshipConflict takes the one member
\* from the set it is given and does not look at the rest.
SetMembership(p, v) ==
  IF v # Null /\ v[1] # p.path THEN Refused
  ELSE IF v = Null THEN Absent
  ELSE IF "x" \notin v[2] THEN Absent
  ELSE IF native["ours"] # Absent THEN native["ours"] ELSE native["theirs"]

ToNative(p, v) ==
  CASE p.how = "sides" -> Match(p, v, TRUE)
    [] p.how = "definition" -> SetDefinition(p, v)
    [] p.how = "relationship" -> SetRelationship(p, v)
    [] p.how \in {"label", "property"} -> SetMember(p, v)
    [] p.how = "scalar" -> SetScalar(p, v)
    [] p.how = "membership" -> SetMembership(p, v)

\* projectNativeMergeResolution: what the conflict shows as its resolution.
Shown ==
  IF resolution = <<>> THEN <<>>
  ELSE IF resolution[1] \in Sides THEN resolution
  ELSE <<"value", ToPublic(Projection, resolution[2])>>

-----------------------------------------------------------------------------
(* EvolutionMergeResolve.                                                  *)

Init ==
  /\ slot \in Slots
  /\ objects \in [Sides -> SnapshotsOf[slot]]
  /\ native \in Natives(slot, objects)
  /\ native["ours"] # native["theirs"]
  /\ resolution = <<>> /\ asked = <<>>

\* Values a caller may send for a path: "bad" is of no use anywhere.
FieldValues(path) ==
  CASE path = "labels" -> SUBSET (IF slot.in = "knowledge node" THEN {"l", "m", "k"} ELSE {"A", "B", "own"})
    [] path = "properties" ->
         IF slot.in \in {"knowledge node", "knowledge relationship"} THEN [{"p", "q"} -> 0..3] ELSE {}
    [] path \in {"from", "to"} -> {"A", "B", "null"}
    [] path = "type" -> {"t", "u", "v"}
    [] path \in {"start", "end"} -> {"a", "b", "c"}
    [] path = "name" -> {"n", "o", "r"}
    [] path = "title" -> 1..2
    [] path = "includes" -> SUBSET {"x", "y", "z"}
    [] OTHER -> {}

Values(p) ==
  {<<"bad">>} \cup {<<p.path, x>> : x \in FieldValues(p.path)}
    \cup ({p.value[side] : side \in Sides} \ {Missing})
    \cup (IF p.path \in {"from", "to"} THEN {} ELSE {Null})

\* choice ours or theirs
ResolveSide ==
  /\ Projection.safe
  /\ \E side \in Sides : resolution' = <<side>>
  /\ asked' = <<>>
  /\ UNCHANGED <<slot, objects, native>>

\* choice value: refused when the value cannot be mapped back.
ResolveValue ==
  /\ Projection.safe
  /\ \E v \in Values(Projection) :
       /\ ToNative(Projection, v) # Refused
       /\ resolution' = <<"value", ToNative(Projection, v)>>
       /\ asked' = v
  /\ UNCHANGED <<slot, objects, native>>

Next == ResolveSide \/ ResolveValue

Spec == Init /\ [][Next]_conflictVars

-----------------------------------------------------------------------------
\* The sides differ in the slot; a resolution is one of its native values.
TypeOK ==
  /\ slot \in Slots
  /\ objects \in [Sides -> SnapshotsOf[slot]]
  /\ native \in Natives(slot, objects)
  /\ resolution # <<>> => resolution[1] \in Sides \cup {"value"}
  /\ asked # <<>> => resolution[1] = "value"


\* A set of included objects that the code takes for a value is shown back as
\* it was given: what the conflict does not decide is not dropped in silence,
\* but refused.
WholeSetComesBack ==
  asked \notin {<<>>, Null} /\ Projection.how = "membership" => Shown[2] = asked

\* An object of a side with its slot set to a native value.
WithSlot(o, p, n) ==
  CASE p.how = "label" -> [o EXCEPT !.labels = IF n = Absent THEN @ \ {"l"} ELSE @ \cup {"l"}]
    [] p.how = "property" -> [o EXCEPT !.properties["p"] = IF n = Absent THEN 0 ELSE n[1]]
    [] p.how = "scalar" -> [o EXCEPT ![p.path] = IF n = Absent THEN 0 ELSE n[1]]
    [] p.path = "labels" /\ "labels" \notin DOMAIN n[1] -> [o EXCEPT !.labels = {}]
    [] OTHER -> [f \in DOMAIN o |-> IF f \in DOMAIN n[1] THEN n[1][f] ELSE o[f]]


=============================================================================
