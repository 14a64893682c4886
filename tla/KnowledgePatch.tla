--------------------------- MODULE KnowledgePatch ---------------------------
(***************************************************************************)
(* The data side of one object patch (internal/kernel/                     *)
(* patch_knowledge_plan.go, patch_knowledge_execute.go, compiler_data.go): *)
(* what happens to nodes and relationships when one patch renames, deletes *)
(* or changes Definitions and also edits the elements they cover.          *)
(*                                                                         *)
(* The planner has settled the Definitions (RenamePlan); here each base    *)
(* Definition is gone or has a new name and new names for its properties.  *)
(* The steps of patchObjects follow each other in one transaction that     *)
(* nobody else sees: any of them may refuse, and then nothing is changed.  *)
(*                                                                         *)
(* A patch concerns the Definitions of nodes or those of relationships; an *)
(* element has names, the labels of a node or the one type of a            *)
(* relationship.  Strings are ordered by Definitions and Properties.       *)
(***************************************************************************)
EXTENDS Naturals, FiniteSets, FiniteSetsExt, SequencesExt

CONSTANTS
  Chained   \* may a new name be the base name of another Definition or property?

VARIABLES
  family,   \* "node" or "relationship": what the Definitions cover
  base,     \* the elements of baseState
  plan,     \* what becomes of the base Definitions that survive
  entries,  \* the Knowledge entries of the patch, by target or alias
  target,   \* the planned targets of the entries that change something
  staged,   \* the elements the transaction sees
  refs,     \* FinalRefs and AliasRefs: where an entry's element is
  moves,    \* the transitions the answer reports
  stage     \* the next step of patchObjects

patchVars == <<family, base, plan, entries, target, staged, refs, moves, stage>>

Definitions == <<"A", "B">>
Properties  == <<"p", "q", "r">>
PropertiesOf == [A |-> {"p", "q"}, B |-> {"p"}]
Types == Range(Definitions)
Empty == [n \in {} |-> 0]

\* Two aliases; smaller numbers are the elements themselves.
x == 100
y == 101
IsAlias(key) == key >= x

Node(names, properties) == [kind |-> "node", names |-> names, start |-> 0, end |-> 0, properties |-> properties]
Relationship(type, start, end, properties) ==
  [kind |-> "relationship", names |-> {type}, start |-> start, end |-> end, properties |-> properties]

Survives(d) == d \in DOMAIN plan
Renamed(d)  == plan[d].name # d
Moved(to)   == {n \in DOMAIN to : to[n] # n}

-----------------------------------------------------------------------------
(* The inputs: a small graph, a plan for the Definitions, the entries.     *)

Injective(f) == \A a, b \in DOMAIN f : f[a] = f[b] => a = b
Maps(names) == UNION {{f \in [s -> Range(Properties)] : Injective(f)} : s \in SUBSET names}
Pairs(one, two) == {Empty, [n \in {"p"} |-> one], [n \in {"q"} |-> two],
                    [n \in {"p", "q"} |-> IF n = "p" THEN one ELSE two]}

\* What a Definition becomes: its name, whether it still requires the label
\* that was its name, and the new name of each property that continues.
Becomes(d) ==
  IF d = "A" THEN [name : {"A"}, keeps : {FALSE}, to : Maps(PropertiesOf.A)]
                    \cup [name : {"B", "C"}, keeps : BOOLEAN, to : Maps(PropertiesOf.A)]
  ELSE [name : {"B", "C"}, keeps : {FALSE}, to : {Empty, [n \in {"p"} |-> "p"]}]
Chains(pl) ==
  \E d \in DOMAIN pl : \/ pl[d].name \in Types \ {d}
                       \/ \E n \in Moved(pl[d].to) : pl[d].to[n] \in Moved(pl[d].to)
Plans == {pl \in UNION {{[d \in s |-> IF d = "A" THEN a ELSE b] : a \in Becomes("A"), b \in Becomes("B")} :
                          s \in SUBSET Types} :
            /\ \A c, d \in DOMAIN pl : pl[c].name = pl[d].name => c = d
            /\ Chained \/ ~Chains(pl)}

\* Nodes 1 and 2 and a relationship 3 from 1 to 2.
Graphs(f) ==
  IF f = "node"
  THEN {<<Node(n, v), Node({}, Empty), Relationship("T", 1, 2, Empty)>> : n \in SUBSET Types, v \in Pairs(1, 2)}
  ELSE {<<Node({}, Empty), Node({}, Empty), Relationship(t, 1, 2, v)>> : t \in Types, v \in Pairs(1, 2)}

Add(value)    == [op |-> "add", value |-> value]
Update(value) == [op |-> "update", value |-> value]
Delete        == [op |-> "delete", value |-> Node({}, Empty)]
Edits(f) ==
  LET Sides == Pairs(1, 2) \cup Pairs(2, 1) \cup {[n \in {"p", "q"} |-> 1]}
      On1   == IF f = "node" THEN {Update(Node(n, v)) : n \in SUBSET Types \cup {{"C"}}, v \in Sides} ELSE {}
      On3   == IF f = "relationship"
               THEN {Update(Relationship(t, s, 2, v)) : t \in Types, s \in {1, 2, x}, v \in Sides} ELSE {}
      New   == IF f = "node" THEN Node({"A"}, [n \in {"p"} |-> 1]) ELSE Node({}, Empty)
  IN {Empty} \cup {[k \in {1} |-> o] : o \in On1 \cup {Delete}}
       \cup {[k \in s |-> Delete] : s \in {{3}, {1, 3}}}
       \cup {[k \in {3} |-> o] : o \in On3}
       \cup {[k \in {1, 3} |-> IF k = 1 THEN Delete ELSE o] : o \in On3}
       \cup {[k \in {3, x} |-> IF k = 3 THEN o ELSE Add(New)] : o \in On3}
       \cup {[k \in {1, 3, x} |-> IF k = 1 THEN Delete ELSE IF k = 3 THEN o ELSE Add(New)] : o \in On3}
       \cup {[k \in {x, y} |-> IF k = x THEN Add(New) ELSE Add(Relationship("A", x, 2, [n \in {"p"} |-> 1]))]}
       \cup {[k \in {y} |-> Add(Relationship("A", 1, 2, Empty))]}

\* patchObjects: the plan of the Definitions is made, the entries are parsed.
Init ==
  /\ family \in {"node", "relationship"}
  /\ base \in Graphs(family)
  /\ plan \in {pl \in Plans : \A d \in DOMAIN pl : pl[d].keeps => family = "node"}
  /\ entries \in Edits(family)
  /\ target = Empty
  /\ staged = base
  /\ refs = Empty
  /\ moves = {}
  /\ stage = "plan"

-----------------------------------------------------------------------------
(* Planning.                                                               *)

\* An error anywhere rolls the transaction back.
Refuse ==
  /\ stage' = "refused"
  /\ staged' = base
  /\ UNCHANGED <<family, base, plan, entries, target, refs, moves>>

\* Ontology properties renamed one after the other in one planned target; a
\* new name already taken by another value is a conflict (value 0).
MoveProperty(properties, old, new) ==
  IF old \notin DOMAIN properties THEN properties
  ELSE IF new \in DOMAIN properties /\ properties[new] # properties[old]
  THEN [properties EXCEPT ![old] = 0]
  ELSE [n \in (DOMAIN properties \ {old}) \cup {new} |-> IF n = new THEN properties[old] ELSE properties[n]]
DeriveProperties(properties, to) ==
  FoldLeft(LAMBDA f, n : IF n \in Moved(to) THEN MoveProperty(f, n, to[n]) ELSE f, properties, Properties)

\* What the renames of the Definitions make of a planned target.
DeriveFrom(value, d) ==
  IF ~Survives(d) THEN value
  ELSE LET names == IF Renamed(d) /\ d \in value.names
                    THEN (IF plan[d].keeps THEN value.names ELSE value.names \ {d})
                           \cup {plan[d].name}
                    ELSE value.names
       IN [value EXCEPT !.names = names,
                        !.properties = IF plan[d].name \in names THEN DeriveProperties(@, plan[d].to) ELSE @]
DeriveNodes(value) ==
  IF value.kind = family /\ family = "node" THEN FoldLeft(DeriveFrom, value, Definitions) ELSE value
Derive(value) ==
  IF value.kind = family THEN FoldLeft(DeriveFrom, value, Definitions) ELSE value
Conflicts(value) == \E n \in DOMAIN value.properties : value.properties[n] = 0

\* Entries that change nothing are dropped; one with an alias is kept.
UsesAlias(value) == IsAlias(value.start) \/ IsAlias(value.end)
Effective == {k \in DOMAIN entries :
                entries[k].op = "update" => UsesAlias(entries[k].value) \/ entries[k].value # base[k]}
Deleted == {k \in Effective : entries[k].op = "delete"}

\* The endpoints of a planned relationship exist and are not deleted.
EndpointsKnown(value) ==
  value.kind = "relationship" =>
    \A e \in {value.start, value.end} :
      IF IsAlias(e) THEN e \in DOMAIN entries /\ entries[e].value.kind = "node" ELSE e \in DOMAIN base /\ e \notin Deleted

Plan ==
  /\ stage = "plan"
  /\ LET planned == [k \in Effective \ Deleted |-> Derive(entries[k].value)]
     IN IF \E k \in DOMAIN planned : ~EndpointsKnown(planned[k]) \/ Conflicts(planned[k])
        THEN Refuse
        ELSE /\ target' = planned
             /\ stage' = "clear"
             /\ UNCHANGED <<family, base, plan, entries, staged, refs, moves>>

-----------------------------------------------------------------------------
(* The steps of the transaction.                                           *)

Without(graph, ids) == [e \in DOMAIN graph \ ids |-> graph[e]]
Incident(graph, id) == {e \in DOMAIN graph : id \in {graph[e].start, graph[e].end}}
Updated == {k \in DOMAIN target : ~IsAlias(k)}

\* A relationship cannot change its type or its ends: it is replaced.
NeedsReplacement(k) ==
  /\ base[k].kind = "relationship"
  /\ \/ base[k].names # target[k].names
     \/ base[k].start # target[k].start \/ base[k].end # target[k].end

\* applyKnowledgePreSchema: what disappears, goes before the schema changes.
\* A node with relationships left is not deleted.
Clear ==
  /\ stage = "clear"
  /\ LET replaced == {k \in Updated : NeedsReplacement(k)}
         gone     == {k \in Deleted : base[k].kind = "relationship"} \cup replaced
         cut      == [e \in DOMAIN staged \ gone |->
                        IF e \notin Updated THEN staged[e]
                        ELSE [staged[e] EXCEPT
                                !.names = @ \cap target[e].names,
                                !.properties = [n \in DOMAIN @ \cap DOMAIN target[e].properties |-> @[n]]]]
         nodes    == {k \in Deleted : base[k].kind = "node"}
     IN IF \E k \in nodes : Incident(cut, k) # {}
        THEN Refuse
        ELSE /\ staged' = Without(cut, nodes)
             /\ stage' = "safety"
             /\ UNCHANGED <<family, base, plan, entries, target, refs, moves>>

Covered(name) == {e \in DOMAIN staged : staged[e].kind = family /\ name \in staged[e].names}
With(name, property) == {e \in Covered(name) : property \in DOMAIN staged[e].properties}

\* validateNodePropertyRenameOverlap: another Definition owns the property.
Overlaps(d, old) ==
  /\ family = "node"
  /\ \E c \in DOMAIN plan \ {d} :
       /\ old \in DOMAIN plan[c].to /\ plan[c].to[old] = old
       /\ With(d, old) \cap With(c, old) # {}

\* validateStagedDataSafety, for a Definition that survives.
SafeProperty(d, old) ==
  LET to == plan[d].to
  IN IF old \notin DOMAIN to THEN With(d, old) = {}
     ELSE to[old] = old \/ to[old] \in Moved(to) \/ (With(d, to[old]) = {} /\ ~Overlaps(d, old))
Safe ==
  \A d \in Types :
    IF Survives(d) THEN (Renamed(d) => Covered(plan[d].name) = {}) /\ \A n \in PropertiesOf[d] : SafeProperty(d, n)
    ELSE Covered(d) = {}

DataSafety ==
  /\ stage = "safety"
  /\ IF Safe THEN stage' = "rename" /\ UNCHANGED <<family, base, plan, entries, target, staged, refs, moves>>
     ELSE Refuse

\* All the old values are read before a new one is written; the null of a
\* missing one removes what is there.
Snapshot(properties, to) ==
  LET old(n) == CHOOSE o \in Moved(to) : to[o] = n
      new    == {to[o] : o \in Moved(to)}
  IN [n \in (DOMAIN properties \ new) \cup {to[o] : o \in Moved(to) \cap DOMAIN properties} |->
        IF n \in new THEN properties[old(n)] ELSE properties[n]]

\* A renamed type makes new relationships, with new ids.
Fresh(graph) == 1 + Max(DOMAIN graph \cup DOMAIN base)
RenameType(graph, d) ==
  LET old == {e \in DOMAIN graph : graph[e].kind = family /\ d \in graph[e].names}
      id  == Fresh(graph)
  IN IF old = {} THEN graph
     ELSE [e \in (DOMAIN graph \ old) \cup {id} |->
             IF e = id THEN [graph[CHOOSE o \in old : TRUE] EXCEPT !.names = {plan[d].name}] ELSE graph[e]]

\* The maintenance of one Definition: properties, then the name.
Maintain(graph, d) ==
  IF ~Survives(d) THEN graph
  ELSE LET Has(e) == graph[e].kind = family /\ d \in graph[e].names
           kept == [e \in DOMAIN graph |->
                      IF Has(e) THEN [graph[e] EXCEPT !.properties = Snapshot(@, plan[d].to)] ELSE graph[e]]
       IN IF ~Renamed(d) THEN kept
          ELSE IF family = "relationship" THEN RenameType(kept, d)
          ELSE [e \in DOMAIN kept |-> IF Has(e) THEN [kept[e] EXCEPT !.names = @ \cup {plan[d].name}] ELSE kept[e]]

\* applyKnowledgeRenameMaintenance: the base Definitions in their order.
RenameMaintenance ==
  /\ stage = "rename"
  /\ staged' = FoldLeft(Maintain, staged, Definitions)
  /\ stage' = "update"
  /\ UNCHANGED <<family, base, plan, entries, target, refs, moves>>

\* createKnowledgeRelationship, createKnowledgeNode: both ends are found.
Created(graph, value) == [e \in DOMAIN graph \cup {Fresh(graph)} |-> IF e = Fresh(graph) THEN value ELSE graph[e]]
EndsFound(graph, value) == value.kind = "relationship" => {value.start, value.end} \subseteq DOMAIN graph

\* Nothing is written where the element is no longer found.
UpdateNode(k) ==
  /\ staged' = [e \in DOMAIN staged |->
                  IF e = k THEN [staged[e] EXCEPT !.names = @ \cup (target[k].names \ base[k].names),
                                                  !.properties = target[k].properties]
                  ELSE staged[e]]
  /\ refs' = [e \in {k} |-> k]
  /\ UNCHANGED moves
Replace(k, value) ==
  /\ EndsFound(staged, value)
  /\ staged' = Created(staged, value)
  /\ refs' = [e \in {k} |-> Fresh(staged)]
  /\ moves' = {<<k, Fresh(staged)>>}
UpdateRelationship(k) ==
  /\ staged' = [e \in DOMAIN staged |-> IF e = k THEN [staged[e] EXCEPT !.properties = target[k].properties] ELSE staged[e]]
  /\ refs' = [e \in {k} |-> k]
  /\ UNCHANGED moves

\* applyKnowledgeExistingBeforeSchema: the elements that exist already.  An
\* end given by an alias waits for its node.
ExistingBeforeSchema ==
  /\ stage = "update"
  /\ LET now == {k \in Updated : ~UsesAlias(target[k])}
     IN IF \E k \in now : NeedsReplacement(k) /\ ~EndsFound(staged, target[k])
        THEN Refuse
        ELSE /\ IF now = {} THEN UNCHANGED <<staged, refs, moves>>
                ELSE \E k \in now : IF base[k].kind = "node" THEN UpdateNode(k)
                                    ELSE IF NeedsReplacement(k) THEN Replace(k, target[k])
                                    ELSE UpdateRelationship(k)
             /\ stage' = "contract"
             /\ UNCHANGED <<family, base, plan, entries, target>>

\* removeRenamedSourceDefinitionLabels
RemoveLabel(graph, d) ==
  IF family = "relationship" \/ ~Survives(d) \/ ~Renamed(d) \/ plan[d].keeps THEN graph
  ELSE [e \in DOMAIN graph |->
          IF plan[d].name \in graph[e].names THEN [graph[e] EXCEPT !.names = @ \ {d}] ELSE graph[e]]

\* removeRenamedSourceProperties; a mutant that looks for the old name.
RemoveOldProperties(graph, d) ==
  IF ~Survives(d) THEN graph
  ELSE [e \in DOMAIN graph |->
          IF graph[e].kind = family /\ d \in graph[e].names
          THEN [graph[e] EXCEPT !.properties = [n \in DOMAIN @ \ Moved(plan[d].to) |-> @[n]]]
          ELSE graph[e]]
RemoveProperties(graph, d) ==
  IF ~Survives(d) THEN graph
  ELSE LET to   == plan[d].to
           gone == Moved(to) \ {to[n] : n \in Moved(to)}
       IN [e \in DOMAIN graph |->
             IF graph[e].kind = family /\ plan[d].name \in graph[e].names
             THEN [graph[e] EXCEPT !.properties = [n \in DOMAIN @ \ gone |-> @[n]]]
             ELSE graph[e]]

\* The schema changes (Lithograph may refuse it), then the old names go.
Contract ==
  /\ stage = "contract"
  /\ staged' = FoldLeft(RemoveProperties, FoldLeft(RemoveLabel, staged, Definitions), Definitions)
  /\ stage' = "post"
  /\ UNCHANGED <<family, base, plan, entries, target, refs, moves>>
SchemaRefused == stage = "contract" /\ Refuse

-----------------------------------------------------------------------------
(* The new elements, the check of what was staged, the commit.             *)

\* resolveKnowledgeEndpoint
At(where, key) == IF IsAlias(key) /\ key \in DOMAIN where THEN where[key] ELSE key
Resolved(value, where) ==
  IF value.kind = "node" THEN value
  ELSE [value EXCEPT !.start = At(where, @), !.end = At(where, @)]

\* The transitions after the element of entry k was created; a mutant.
MovesUnreported(before, k, id) == before
MovesWith(before, k, id) == IF IsAlias(k) THEN before ELSE before \cup {<<k, id>>}

\* applyKnowledgePostSchema: new nodes, then the relationships that waited.
Put(s, k) ==
  LET value == Resolved(target[k], s.refs)
  IN IF ~s.found \/ ~EndsFound(s.graph, value) THEN [s EXCEPT !.found = FALSE]
     ELSE [graph |-> Created(s.graph, value),
           refs  |-> [e \in DOMAIN s.refs \cup {k} |-> IF e = k THEN Fresh(s.graph) ELSE s.refs[e]],
           moves |-> MovesWith(s.moves, k, Fresh(s.graph)),
           found |-> TRUE]
PostSchema ==
  /\ stage = "post"
  /\ LET nodes == {k \in DOMAIN target : IsAlias(k) /\ target[k].kind = "node"}
         rest  == {k \in DOMAIN target : target[k].kind = "relationship" /\ (IsAlias(k) \/ UsesAlias(target[k]))}
         done  == FoldLeft(Put, [graph |-> staged, refs |-> refs, moves |-> moves, found |-> TRUE],
                           SetToSortSeq(nodes, <) \o SetToSortSeq(rest, <))
     IN IF ~done.found THEN Refuse
        ELSE /\ staged' = done.graph
             /\ refs' = done.refs
             /\ moves' = done.moves
             /\ stage' = "check"
             /\ UNCHANGED <<family, base, plan, entries, target>>

\* validateStagedKnowledge: every planned target is where its entry led, and
\* what was to be deleted is not found.
AsPlanned ==
  /\ \A k \in Deleted : k \notin DOMAIN staged
  /\ \A k \in DOMAIN target :
       /\ k \in DOMAIN refs /\ refs[k] \in DOMAIN staged
       /\ staged[refs[k]] = Resolved(target[k], refs)
Validate ==
  /\ stage = "check"
  /\ stage' = IF AsPlanned THEN "commit" ELSE "mismatch"
  /\ UNCHANGED <<family, base, plan, entries, target, staged, refs, moves>>

Commit ==
  /\ stage = "commit"
  /\ stage' = "committed"
  /\ UNCHANGED <<family, base, plan, entries, target, staged, refs, moves>>

Next ==
  \/ Plan \/ Clear \/ DataSafety \/ RenameMaintenance \/ ExistingBeforeSchema
  \/ Contract \/ SchemaRefused \/ PostSchema \/ Validate \/ Commit

Spec == Init /\ [][Next]_patchVars

-----------------------------------------------------------------------------
(* Properties.                                                             *)

\* An element in the new names: the Definitions that cover it are those of the
\* base (or, in a target, new ones it names), and all renames happen at once.
NewNames(names) ==
  {IF Survives(n) THEN plan[n].name ELSE n : n \in names}
    \cup {n \in names : Survives(n) /\ plan[n].keeps}
NewProperty(names, n) ==
  {plan[d].to[n] : d \in {c \in DOMAIN plan : plan[c].name \in names /\ n \in Moved(plan[c].to)}}
NewProperties(names, properties) ==
  LET Of(n) == IF NewProperty(names, n) = {} THEN {n} ELSE NewProperty(names, n)
  IN [m \in UNION {Of(n) : n \in DOMAIN properties} |->
        properties[CHOOSE n \in DOMAIN properties : m \in Of(n)]]
InNewTerms(value) ==
  IF value.kind # family THEN value
  ELSE [value EXCEPT !.names = NewNames(@), !.properties = NewProperties(NewNames(value.names), @)]

Intended(k) == InNewTerms(IF k \in Effective THEN entries[k].value ELSE base[k])
Surviving   == (DOMAIN base \cup DOMAIN entries) \ Deleted
Now(k)      == IF k \in DOMAIN refs THEN refs[k] ELSE k
Anonymous   == {k \in Surviving : k \notin Effective /\ base[k].kind = "relationship"}

\* What no entry touches follows the renames of its Definitions, all at once
\* and each from the base (docs/design/ontology.md:685).
UntouchedFollows ==
  stage = "committed" =>
    \A k \in DOMAIN base \ DOMAIN entries :
      \E e \in DOMAIN staged : (base[k].kind = "node" => e = k) /\ staged[e] = InNewTerms(base[k])

\* A committed patch leaves exactly the elements it did not delete, each with
\* the names, ends and properties the patch gave it, or those it had, in the
\* terms of the new Definitions: data follows every rename, keeps every value
\* and nothing else changes (applyKnowledgeRenameMaintenance, docs/design/
\* ontology.md:685).
FollowsDefinitions ==
  stage = "committed" =>
    /\ Cardinality(DOMAIN staged) = Cardinality(Surviving)
    /\ \A k \in Surviving \ Anonymous : staged[Now(k)] = Resolved(Intended(k), refs)
    /\ \A k \in Anonymous : \E e \in DOMAIN staged : staged[e] = Intended(k)

\* The self-check of the transaction never refuses what the plan accepted
\* (validateStagedKnowledge).
ChecksNeverFire == stage # "mismatch"

\* An edited element that did not keep its id is reported with the id it has
\* now, and no other is (Transitions).
MovesAreReported ==
  stage = "committed" => moves = {<<k, refs[k]>> : k \in {j \in Updated : j \notin DOMAIN staged}}

=============================================================================
