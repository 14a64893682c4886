---------------------------- MODULE StateHistory ----------------------------
(***************************************************************************)
(* What changed between States: diff and history (internal/kernel/         *)
(* evolution_diff.go, evolution_history.go) and their pages.               *)
(*                                                                         *)
(* A diff compares two States object by object, by the identity of the     *)
(* object and never by its name, and reports an index once although several *)
(* Definitions declare it.  A history is the diff of each State of an      *)
(* ancestry with its first parent.  Both are read page by page: a cursor   *)
(* pins the States of the first page and names the last change it gave,    *)
(* while others go on committing to the branch.                            *)
(*                                                                         *)
(* A State has Definitions (an identity is for ever, a name is not), one   *)
(* index that covers some of them, and one Knowledge element.              *)
(***************************************************************************)
EXTENDS Naturals, FiniteSets, Sequences, SequencesExt

CONSTANTS
  Identities,     \* of Definitions: positive numbers
  DefinitionRefs, \* their names, in their order
  Moves,          \* may the index lie on either single property?
  Repositories,   \* what a reader may find
  MaxPage,        \* the most that a page may hold
  MinCommits,     \* bound: others commit while a reader is at it from here
  MaxCommits      \* bound: and up to here

VARIABLES
  commits,   \* the DAG: parents and contents, in the order of creation
  head,      \* the branch the requests name
  request,   \* what the reader asked for, with its States pinned
  cursor,    \* where the next page begins
  room,      \* places left on the page being filled
  seen,      \* the items of all pages so far
  phase      \* "idle", "between" pages, "reading", "done" or "refused"

historyVars == <<commits, head, request, cursor, room, seen, phase>>

-----------------------------------------------------------------------------
(* States.                                                                 *)

Element == 0
NoIndex == [owners |-> {}, on |-> "p"]
Invalid == [valid |-> FALSE, definitions |-> <<>>, index |-> NoIndex, element |-> 0]
State(definitions, index, element) ==
  [valid |-> TRUE, definitions |-> definitions, index |-> index, element |-> element]

\* The index lies on property p or q alone, or on both.
On == IF Moves THEN {"p", "q", "both"} ELSE {"p", "both"}

\* Definitions have a name each, and an index belongs to some of them.
Named(f) == \A i, j \in DOMAIN f : f[i].name = f[j].name => i = j
IsState(s) ==
  /\ s.valid \in BOOLEAN
  /\ s.valid =>
       /\ DOMAIN s.definitions \subseteq Identities /\ Named(s.definitions)
       /\ s.definitions \in [DOMAIN s.definitions -> [name : DefinitionRefs, labels : Nat]]
       /\ s.index \in [owners : SUBSET DOMAIN s.definitions, on : On]

\* A commit is made after its parents.
IsRepository(r) ==
  /\ r \in Seq(Range(r)) /\ r # <<>>
  /\ \A c \in DOMAIN r : r[c].parents \in Seq(1 .. c - 1) /\ IsState(r[c].state)

Commit(parents, state) == [parents |-> parents, state |-> state]
Idle == [op |-> "none", scope |-> "all", before |-> 0, root |-> 0, anchor |-> 0, name |-> 0]
Start == [state |-> 0, offset |-> 0, native |-> 0, last |-> {}]

Init ==
  /\ commits \in Repositories
  /\ head = Len(commits)
  /\ request = Idle
  /\ cursor = Start
  /\ room = 0
  /\ seen = <<>>
  /\ phase = "idle"

-----------------------------------------------------------------------------
(* Changes.                                                                *)

Change(change, path, identities, before, after, related) ==
  [change |-> change, path |-> path, identities |-> identities,
   before |-> before, after |-> after, related |-> related]
\* The name of an object before and after, if it has one.
NoRef == {}

\* projectOntologyChanges: by identity.  A renamed object is one change, that
\* shows it whole; otherwise each field that differs is one.
ObjectChanges(b, a, i) ==
  LET old == b.definitions  new == a.definitions
  IN CASE i \notin DOMAIN old /\ i \notin DOMAIN new -> {}
       [] i \in DOMAIN old /\ i \notin DOMAIN new -> {Change("delete", "", {i}, {old[i].name}, NoRef, {})}
       [] i \notin DOMAIN old /\ i \in DOMAIN new -> {Change("add", "", {i}, NoRef, {new[i].name}, {})}
       [] OTHER ->
            IF old[i].name # new[i].name THEN {Change("rename", "", {i}, {old[i].name}, {new[i].name}, {})}
            ELSE IF old[i].labels = new[i].labels THEN {}
            ELSE {Change("restructure", "/labels", {i}, {old[i].name}, {new[i].name}, {})}

\* An index is declared where it lies, and says there only what the place does
\* not: an index of one Definition on one property names neither.
Local(index) == Cardinality(index.owners) = 1 /\ index.on # "both"
Refs(s) == {s.definitions[i].name : i \in s.index.owners}
Raw(s)  == IF Local(s.index) THEN <<{}, "">>
           ELSE <<IF Cardinality(s.index.owners) = 1 THEN {} ELSE Refs(s), s.index.on>>
Path(s) == IF Local(s.index) THEN "/properties" ELSE "/indexes"

\* projectSharedIndexes: reported once, at the first of the Definitions that
\* declare it before or after.
First(refs) == Min(refs)
RefIn(s, ref) == {ref} \cap Refs(s)
IndexChanges(b, a) ==
  LET refs   == Refs(b) \cup Refs(a)
      anchor == First(refs)
      both   == anchor \in Refs(b) /\ anchor \in Refs(a)
  IN IF refs = {} \/ (Refs(b) = Refs(a) /\ Raw(b) = Raw(a)) THEN {}
     ELSE {Change(IF both /\ Path(b) # Path(a) THEN "restructure" ELSE "update",
                  IF anchor \in Refs(a) THEN Path(a) ELSE Path(b),
                  b.index.owners \cup a.index.owners,
                  RefIn(b, anchor), RefIn(a, anchor), refs \ {anchor})}

\* projectKnowledgeChanges: the element, absent where it is 0.
ElementChanges(b, a) ==
  IF b.element = a.element THEN {}
  ELSE {Change(IF b.element = 0 THEN "add" ELSE IF a.element = 0 THEN "delete" ELSE "update",
               IF 0 \in {b.element, a.element} THEN "" ELSE "/properties", {Element},
               IF b.element = 0 THEN NoRef ELSE {Element}, IF a.element = 0 THEN NoRef ELSE {Element}, {})}

Changes(b, a) ==
  (UNION {ObjectChanges(b, a, i) : i \in Identities}) \cup IndexChanges(b, a) \cup ElementChanges(b, a)

\* filterEvolutionChanges.  An index belongs to every Definition it covers.
InScope(change, scope, identity) ==
  CASE scope = "all" -> TRUE
    [] scope = "ontology" -> Element \notin change.identities
    [] scope = "knowledge" -> Element \in change.identities
    [] scope = "object" -> identity \in change.identities

\* A mutant that takes the first Definition for the owner.
FirstInScope(change, scope, identity) ==
  IF scope = "object" THEN change.related = {} /\ identity \in change.identities ELSE TRUE
Scoped(change, scope, identity) == InScope(change, scope, identity)

Filtered(b, a, scope, identity) == {c \in Changes(b, a) : Scoped(c, scope, identity)}

-----------------------------------------------------------------------------
(* Requests.                                                               *)

StateOf(c) == commits[c].state
Valid(c)   == StateOf(c).valid

\* Lithograph's log: a commit and all it comes from, newest first.
Ancestry(root) ==
  {c \in 1 .. root :
     \A S \in SUBSET (1 .. root) :
       root \in S /\ (\A d \in S : Range(commits[d].parents) \subseteq S) => c \in S}
Log(root) ==
  LET ancestry == Ancestry(root)
  IN FlattenSeq([n \in 1 .. root |-> IF root + 1 - n \in ancestry THEN <<root + 1 - n>> ELSE <<>>])

\* resolvePublicObjectIdentity: what has the name in the anchor State.
Identity(req) ==
  IF req.scope # "object" \/ ~Valid(req.anchor) THEN {}
  ELSE {i \in DOMAIN StateOf(req.anchor).definitions : StateOf(req.anchor).definitions[i].name = req.name}
IdentityOf(req) == IF Identity(req) = {} THEN 0 ELSE CHOOSE i \in Identity(req) : TRUE

\* The States are resolved once, and valid; the object exists in the anchor,
\* which is one of the two States, or in the ancestry.
Acceptable(req) ==
  /\ Valid(req.root)
  /\ req.op = "diff" => Valid(req.before)
  /\ req.scope = "object" =>
       /\ Identity(req) # {}
       /\ req.anchor \in IF req.op = "diff" THEN {req.before, req.root} ELSE Range(Log(req.root))

\* An anchor and a name are of a request for one object only.
Requests ==
  {req \in [op : {"diff", "history"}, scope : {"all", "ontology", "knowledge", "object"},
             before : 1 .. head, root : {head}, anchor : 1 .. head, name : DefinitionRefs] :
     /\ req.op = "history" => req.before = head
     /\ req.scope # "object" => req.anchor = head /\ req.name = First(DefinitionRefs)}

Ask ==
  /\ phase = "idle"
  /\ \E req \in Requests :
       /\ request' = req
       /\ phase' = IF Acceptable(req) THEN "between" ELSE "refused"
  /\ UNCHANGED <<commits, head, cursor, room, seen>>

\* EvolutionDiff: a page of the changes in their order.
Ordered(changes) == SetToSeq(changes)
DiffOf(req) == Ordered(Filtered(StateOf(req.before), StateOf(req.root), req.scope, IdentityOf(req)))
Least(m, n) == IF m < n THEN m ELSE n

\* validatedChangeOffset: the change the cursor names is where it was.
Matches(changes) ==
  /\ cursor.offset <= Len(changes)
  /\ cursor.last = {changes[n] : n \in {cursor.offset} \cap DOMAIN changes}

\* A mutant that resolves the branch again on every page.
DiffUnpinned(req) == DiffOf([req EXCEPT !.root = head])
DiffPinned(req) == DiffOf(req)
DiffPage(limit) ==
  LET changes == DiffPinned(request)
      end     == Least(cursor.offset + limit, Len(changes))
  IN IF ~Matches(changes) THEN phase' = "refused" /\ UNCHANGED <<cursor, seen>> ELSE
     /\ seen' = seen \o [n \in 1..(end - cursor.offset) |-> [state |-> 0, change |-> {changes[cursor.offset + n]}]]
     /\ cursor' = [cursor EXCEPT !.offset = end, !.last = {changes[n] : n \in {end} \cap DOMAIN changes}]
     /\ phase' = IF end < Len(changes) THEN "between" ELSE "done"

\* The reader asks for a page; the limit is free on each.
Turn ==
  /\ phase = "between"
  /\ \E limit \in 1..MaxPage :
       IF request.op = "diff" THEN DiffPage(limit) /\ UNCHANGED room
       ELSE phase' = "reading" /\ room' = limit /\ UNCHANGED <<cursor, seen>>
  /\ UNCHANGED <<commits, head, request>>

\* EvolutionHistory reads one more State: the one the cursor stopped in, or
\* the next of the log.
Current == IF cursor.state # 0 THEN cursor.state
           ELSE Log(request.root)[IF cursor.native = 0 THEN 1 ELSE cursor.native]
NextNative ==
  LET at == IF cursor.native = 0 THEN 1 ELSE cursor.native
  IN IF cursor.state # 0 THEN cursor.native ELSE IF at < Len(Log(request.root)) THEN at + 1 ELSE 0
Parents == commits[Current].parents

\* The State is behind, or the page is full.
Passed(items, boundary) ==
  /\ seen' = seen \o items
  /\ room' = room - Len(items)
  /\ cursor' = [Start EXCEPT !.native = NextNative]
  /\ phase' = IF boundary \/ NextNative = 0 THEN "done" ELSE IF room = Len(items) THEN "between" ELSE "reading"
Stopped(items, offset, change) ==
  /\ seen' = seen \o items
  /\ room' = 0
  /\ cursor' = [state |-> Current, offset |-> offset, native |-> NextNative, last |-> {change}]
  /\ phase' = "between"

Whole(c) == <<[state |-> c, change |-> {}]>>
VisitChanges ==
  LET changes == Ordered(Filtered(StateOf(Parents[1]), StateOf(Current), request.scope, IdentityOf(request)))
      start   == cursor.offset
      end     == Least(start + room, Len(changes))
      items   == [n \in 1..(end - start) |-> [state |-> Current, change |-> {changes[start + n]}]]
  IN IF ~Matches(changes) THEN phase' = "refused" /\ UNCHANGED <<cursor, room, seen>>
     ELSE IF changes = <<>> /\ request.scope = "all" THEN Passed(Whole(Current), FALSE)
     ELSE IF Len(items) = room /\ end < Len(changes) THEN Stopped(items, end, changes[end])
     ELSE Passed(items, FALSE)

\* The first State that is not valid, or whose parent is not, ends a history.
Visit ==
  /\ phase = "reading"
  /\ IF ~Valid(Current) THEN phase' = "done" /\ UNCHANGED <<cursor, room, seen>>
     ELSE IF Parents = <<>> THEN Passed(Whole(Current), FALSE)
     ELSE IF ~Valid(Parents[1]) THEN Passed(Whole(Current), TRUE)
     ELSE VisitChanges
  /\ UNCHANGED <<commits, head, request>>

\* Somebody else commits to the branch while the reader is at it.
Advance ==
  /\ phase \in {"between", "reading"}
  /\ Len(commits) \in MinCommits .. (MaxCommits - 1)
  /\ \E s \in {Invalid, State(<<>>, NoIndex, 0)} : commits' = Append(commits, Commit(<<head>>, s))
  /\ head' = Len(commits) + 1
  /\ UNCHANGED <<request, cursor, room, seen, phase>>

Next == Ask \/ Turn \/ Visit \/ Advance

Spec == Init /\ [][Next]_historyVars

-----------------------------------------------------------------------------
(* Properties.                                                             *)

\* What a read of a Definition shows, its indexes at their places included.
Shown(s, i) ==
  IF i \notin DOMAIN s.definitions THEN <<>>
  ELSE <<s.definitions[i],
         IF i \in s.index.owners THEN <<IF Local(s.index) THEN s.index.on ELSE "own", Raw(s)>> ELSE <<>>>>

\* A diff shows that a Definition changed exactly if what a read shows of it
\* did, in either State; an index that several Definitions share is found
\* through each of them (projectSharedIndexes, filterEvolutionChanges).
DiffTellsAll ==
  phase = "idle" => \A b, a \in {c \in DOMAIN commits : Valid(c)} : \A i \in Identities :
    Shown(StateOf(b), i) # Shown(StateOf(a), i)
      <=> Filtered(StateOf(b), StateOf(a), "object", i) # {}

\* The whole history, as if on one page.
Entries(req, c) ==
  LET parents == commits[c].parents
      changes == IF parents = <<>> \/ ~Valid(parents[1]) THEN {}
                 ELSE Filtered(StateOf(parents[1]), StateOf(c), req.scope, IdentityOf(req))
      genesis == parents = <<>> \/ ~Valid(parents[1])
  IN IF genesis \/ (changes = {} /\ req.scope = "all") THEN Whole(c)
     ELSE [n \in 1..Cardinality(changes) |-> [state |-> c, change |-> {Ordered(changes)[n]}]]
Readable(req) ==
  LET log  == Log(req.root)
      ends == {n \in DOMAIN log : ~Valid(log[n])}
      last == {n \in DOMAIN log : commits[log[n]].parents # <<>> /\ ~Valid(commits[log[n]].parents[1])}
  IN {n \in DOMAIN log : (\A e \in ends : n < e) /\ (\A e \in last : n <= e)}
HistoryOf(req) == FlattenSeq([n \in 1..Cardinality(Readable(req)) |-> Entries(req, Log(req.root)[n])])

\* The pages together are the one history, or the one diff, of the States the
\* first page pinned: nothing is missing or given twice and no page is refused,
\* whatever the limits and whatever is committed between the pages
\* (evolutionCursor, validatedChangeOffset).
PagesAreOneAnswer ==
  /\ phase = "refused" => cursor = Start
  /\ phase = "done" =>
       IF request.op = "history" THEN seen = HistoryOf(request)
       ELSE seen = [n \in 1..Len(DiffOf(request)) |-> [state |-> 0, change |-> {DiffOf(request)[n]}]]
  /\ phase = "between" /\ request.op = "history" => IsPrefix(seen, HistoryOf(request))

=============================================================================
