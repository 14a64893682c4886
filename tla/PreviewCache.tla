---------------------------- MODULE PreviewCache ----------------------------
(***************************************************************************)
(* The Ontology preview of the MCP server (internal/mcpserver/preview.go): *)
(* a call without a revision renders a view of every branch, outside the   *)
(* mutex and over branches that move meanwhile, and caches it under a new  *)
(* revision; a call with a revision reads a window of that view.           *)
(*                                                                         *)
(* A State is the number of a commit of its branch, and a view is the      *)
(* State of each branch it shows.  A cached view also names its caller's   *)
(* principal, which is the digest of the Instance credential whichever way *)
(* the caller was authenticated: all views belong to the same one.         *)
(***************************************************************************)
EXTENDS Naturals, Sequences, FiniteSets, SequencesExt

CONSTANTS
    Branches,
    Callers,       \* concurrent tool calls
    MaxEntries,    \* previewCacheEntries
    MaxRevisions,  \* bound: views rendered
    MaxCommits     \* bound: commits of a branch

VARIABLES
    head,      \* head of each branch, in the Kernel
    moments,   \* every set of heads there has been, for ViewIsOneMoment
    caller,    \* the state of each tool call
    entries,   \* the cache: the view of each revision, and whether it is in it
    order,     \* revisions from the oldest on
    revision   \* the last revision given out

vars == <<head, moments, caller, entries, order, revision>>

Revisions == 1 .. MaxRevisions
States == 0 .. MaxCommits
Views == [Branches -> States]

Unrendered == [b \in Branches |-> MaxCommits + 1]
Idle == [at |-> "idle", list |-> Unrendered, view |-> Unrendered, todo |-> {}]

Cached == {r \in Revisions : entries[r].cached}

TypeOK ==
    /\ head \in Views
    /\ moments \subseteq Views
    /\ \A c \in Callers : caller[c].at \in {"idle", "listing", "reading", "rendered"}
    /\ \A r \in Cached : entries[r].view \in Views
    /\ Cardinality(Cached) <= MaxEntries
    /\ revision \in 0 .. MaxRevisions

Init ==
    /\ head = [b \in Branches |-> 0]
    /\ moments = {head}
    /\ caller = [c \in Callers |-> Idle]
    /\ entries = [r \in Revisions |-> [cached |-> FALSE, view |-> Unrendered]]
    /\ order = <<>>
    /\ revision = 0

Commit(b) ==
    /\ head[b] < MaxCommits
    /\ head' = [head EXCEPT ![b] = @ + 1]
    /\ moments' = moments \cup {head'}
    /\ UNCHANGED <<caller, entries, order, revision>>

Uncache(rs) == entries' = [r \in Revisions |->
    IF r \in rs THEN [entries[r] EXCEPT !.cached = FALSE] ELSE entries[r]]

\* The places of s that hold one of rs.
Held(s, rs) ==
    LET held[i \in 0 .. Len(s)] ==
            IF i = 0 THEN <<>>
            ELSE IF s[i] \in rs THEN Append(held[i - 1], s[i]) ELSE held[i - 1]
    IN  held[Len(s)]

-----------------------------------------------------------------------------
\* Mutant: the order loses the entries that expired, the map keeps them.
PruneOrder(gone) ==
    /\ gone \subseteq Cached
    /\ order' = Held(order, Cached \ gone)
    /\ UNCHANGED entries

\* prune: the entries past their time leave the map and the order.
Prune(gone) ==
    /\ gone \subseteq Cached
    /\ order' = Held(order, Cached \ gone)
    /\ Uncache(gone)

\* A call that names a revision prunes, then answers with a window of the view
\* or VIEW_EXPIRED.
ReadWindow(gone) ==
    /\ gone # {}
    /\ Prune(gone)
    /\ UNCHANGED <<head, moments, caller, revision>>

Ask(c) ==
    /\ caller[c].at = "idle" /\ revision < MaxRevisions
    /\ caller' = [caller EXCEPT ![c] = [Idle EXCEPT !.at = "listing"]]
    /\ UNCHANGED <<head, moments, entries, order, revision>>

\* EvolutionBranchList: one read of the Kernel.
List(c) ==
    /\ caller[c].at = "listing"
    /\ caller' = [caller EXCEPT ![c].at = "reading", ![c].list = head, ![c].todo = Branches]
    /\ UNCHANGED <<head, moments, entries, order, revision>>

\* Mutant: the branch is read where it is now.
SnapshotAtHead(c, b) ==
    /\ caller[c].at = "reading" /\ b \in caller[c].todo
    /\ caller' = [caller EXCEPT ![c].view[b] = head[b], ![c].todo = @ \ {b}]
    /\ UNCHANGED <<head, moments, entries, order, revision>>

\* One branch at a time, every page at the State of the list; a page of another
\* State, or a list that does not add up, fails the call.
Snapshot(c, b) ==
    /\ caller[c].at = "reading" /\ b \in caller[c].todo
    /\ caller' = [caller EXCEPT ![c].view[b] = caller[c].list[b], ![c].todo = @ \ {b}]
    /\ UNCHANGED <<head, moments, entries, order, revision>>

Rendered(c) ==
    /\ caller[c].at = "reading" /\ caller[c].todo = {}
    /\ caller' = [caller EXCEPT ![c].at = "rendered"]
    /\ UNCHANGED <<head, moments, entries, order, revision>>

RenderFails(c) ==
    /\ caller[c].at \in {"listing", "reading"}
    /\ caller' = [caller EXCEPT ![c] = Idle]
    /\ UNCHANGED <<head, moments, entries, order, revision>>

\* The loop that makes room: it drops places of the order up to and with the
\* first one whose entry is there.
MakeRoom(o, cached) ==
    IF Cardinality(cached) < MaxEntries THEN o
    ELSE LET held == {i \in DOMAIN o : o[i] \in cached}
         IN  SubSeq(o, (CHOOSE i \in held : \A j \in held : i <= j) + 1, Len(o))

Store(c, gone) ==
    /\ caller[c].at = "rendered" /\ revision < MaxRevisions
    /\ gone \subseteq Cached
    /\ LET new == revision + 1
           room == MakeRoom(Held(order, Cached \ gone), Cached \ gone)
       IN  /\ revision' = new
           /\ order' = Append(room, new)
           /\ entries' = [r \in Revisions |->
                  IF r = new THEN [cached |-> TRUE, view |-> caller[c].view]
                  ELSE [entries[r] EXCEPT !.cached = r \in Cached \ gone /\ r \in ToSet(room)]]
    /\ caller' = [caller EXCEPT ![c] = Idle]
    /\ UNCHANGED <<head, moments>>

Next ==
    \/ \E b \in Branches : Commit(b)
    \/ \E gone \in SUBSET Cached : ReadWindow(gone)
    \/ \E c \in Callers :
           \/ Ask(c) \/ List(c) \/ Rendered(c) \/ RenderFails(c)
           \/ \E b \in Branches : Snapshot(c, b)
           \/ \E gone \in SUBSET Cached : Store(c, gone)

Spec == Init /\ [][Next]_vars

-----------------------------------------------------------------------------
\* Every cached view has its place in the order: the loop that makes room takes
\* order[0] as long as the cache is full, and would fail on an empty order.
OrderCovers == Cached \subseteq ToSet(order)

\* A view shows all branches at one moment, however long its rendering took and
\* whatever was committed meanwhile.
ViewIsOneMoment == \A r \in Cached : entries[r].view \in moments

=============================================================================
