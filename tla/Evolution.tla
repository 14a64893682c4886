------------------------------ MODULE Evolution ------------------------------
(***************************************************************************)
(* How the kernel moves a knowledge base forward (internal/kernel): Object *)
(* Patch, state creation, raw Graph execution, Merge Sessions, branches    *)
(* and tags, by callers that interleave between their reads and their      *)
(* writes.                                                                 *)
(*                                                                         *)
(* A State is an immutable commit of the Lithograph store.  Of its content *)
(* the kernel's decisions only see whether the Snapshot passes the KG OS   *)
(* consistency check ("valid").  Every operation reads first, on its own   *)
(* connection, pins what it read, and writes in a later step; the store    *)
(* compares the pin when it writes.  An operation can fail at any step.    *)
(*                                                                         *)
(* The store is external: commits, refs, sessions and their compare-and-   *)
(* set are modelled from the procedures the code calls and the results it  *)
(* decodes.                                                                *)
(***************************************************************************)
EXTENDS Integers, FiniteSets, Sequences

CONSTANTS
  Procs,       \* callers of the kernel service
  Branches, Main, Tags,
  Sessions,    \* Merge Session tokens
  None,        \* "no caller", "no commit", "no tag", "no session"
  MaxCommits,  \* bound on the number of commits
  MaxRevision  \* bound on the revision of a session

ASSUME BranchAssumption == Main \in Branches
ASSUME NoneAssumption == None \notin Procs \cup Branches \cup Tags \cup Sessions \cup Nat
ASSUME BoundAssumption == MaxCommits \in Nat \ {0} /\ MaxRevision \in Nat \ {0}

VARIABLES
  dag,      \* the commits, in the order they were created
  head,     \* the commit a branch points to, or None
  tag,      \* the commit a tag points to, or None
  session,  \* the Merge Sessions
  writer,   \* the caller whose Patch transaction owns the single writer
  pc, op    \* where each caller is, and what it pinned

store == <<dag, head, tag, session>>
vars  == <<store, writer, pc, op>>

Commits == DOMAIN dag
Ids == 1..MaxCommits

\* past: the commit and all its ancestors.  basis: the States its content was
\* computed from and validated against by whoever made it.  raw: the branch on
\* which raw Graph execution, which promises no check, made it, or None.
CommitRecord == [parents : SUBSET Ids, past : SUBSET Ids, basis : SUBSET Ids,
                 valid : BOOLEAN, raw : Branches \cup {None}]

\* left: unresolved conflicts, 0 or some.  good: the candidate of this
\* revision passes the consistency check.
SessionRecord == [status : {"unused", "open", "closed"}, branch : Branches,
                  ours : Ids, theirs : Ids, revision : 1..MaxRevision,
                  left : {0, 1}, good : BOOLEAN]

\* What an operation carries from its reads to its write.
Pin == [branch : Branches, base : Ids, other : Ids, tag : Tags \cup {None},
        session : Sessions \cup {None}, revision : 1..MaxRevision]

Steps == {"idle", "planned", "staging", "stamp", "source", "start", "resolve",
          "candidate", "finalize", "newbranch", "newtag", "movetag"}

TypeOK ==
  /\ dag \in Seq(CommitRecord) /\ Len(dag) \in 1..MaxCommits
  /\ head \in [Branches -> Commits \cup {None}]
  /\ tag \in [Tags -> Commits \cup {None}]
  /\ session \in [Sessions -> SessionRecord]
  /\ \A s \in Sessions : session[s].status # "unused" =>
       {session[s].ours, session[s].theirs} \subseteq Commits
  /\ writer \in Procs \cup {None}
  /\ pc \in [Procs -> Steps]
  /\ op \in [Procs -> Pin]

NoPin == [branch |-> Main, base |-> 1, other |-> 1, tag |-> None,
          session |-> None, revision |-> 1]

NoSession == [status |-> "unused", branch |-> Main, ours |-> 1, theirs |-> 1,
              revision |-> 1, left |-> 0, good |-> TRUE]

Root == [parents |-> {}, past |-> {1}, basis |-> {}, valid |-> TRUE,
         raw |-> None]

\* After bootstrap: one valid State, on main.
Init ==
  /\ dag = <<Root>>
  /\ head = [b \in Branches |-> IF b = Main THEN 1 ELSE None]
  /\ tag = [t \in Tags |-> None]
  /\ session = [s \in Sessions |-> NoSession]
  /\ writer = None
  /\ pc = [p \in Procs |-> "idle"]
  /\ op = [p \in Procs |-> NoPin]

-----------------------------------------------------------------------------
(* Helpers *)

Valid(c) == dag[c].valid
Exists(b) == head[b] # None

\* a is b or an ancestor of b.
Reaches(a, b) == a \in dag[b].past

\* Nobody else owns the writer of the store.
WriterFree == writer = None

Goto(p, l) == pc' = [pc EXCEPT ![p] = l]
Done(p) == Goto(p, "idle") /\ op' = [op EXCEPT ![p] = NoPin]

\* Create a commit on branch b and move the branch to it, in one transaction
\* of the store: its first parent is the head the branch has at that moment.
Grow(b, others, basis, valid, raw) ==
  LET new     == Len(dag) + 1
      parents == {head[b]} \cup others
  IN /\ Len(dag) < MaxCommits
     /\ dag' = Append(dag, [parents |-> parents,
                            past    |-> {new} \cup UNION {dag[q].past : q \in parents},
                            basis   |-> basis, valid |-> valid, raw |-> raw])
     /\ head' = [head EXCEPT ![b] = new]

\* Any operation that meets an error returns it; a Patch that has begun its
\* transaction closes it, which frees the writer.
Fail(p) ==
  /\ pc[p] # "idle"
  /\ Done(p)
  /\ writer' = IF writer = p THEN None ELSE writer
  /\ UNCHANGED store

-----------------------------------------------------------------------------
(* Object Patch *)

\* decodeSnapshot(baseState), head comparison, parse and plan: all against
\* baseState.  (A no-op plan returns baseState and is a Fail to the store.)
PatchPlan(p) ==
  /\ pc[p] = "idle"
  /\ \E b \in Branches :
       /\ Exists(b) /\ Valid(head[b])
       /\ op' = [op EXCEPT ![p] = [NoPin EXCEPT !.branch = b, !.base = head[b]]]
  /\ Goto(p, "planned")
  /\ UNCHANGED <<store, writer>>

\* Mutant of PatchBegin: Begin is not given the expectedHead.
PatchBeginAnyHead(p) ==
  /\ pc[p] = "planned" /\ WriterFree /\ Exists(op[p].branch)
  /\ writer' = p
  /\ Goto(p, "staging")
  /\ UNCHANGED <<store, op>>

\* lithograph_tx_begin with expectedHead: checked as the writer is taken.
PatchBegin(p) ==
  /\ pc[p] = "planned" /\ WriterFree
  /\ head[op[p].branch] = op[p].base
  /\ writer' = p
  /\ Goto(p, "staging")
  /\ UNCHANGED <<store, op>>

\* The staged steps ended in a Snapshot that passed validateStagedSnapshot.
PatchCommit(p) ==
  /\ pc[p] = "staging"
  /\ Grow(op[p].branch, {}, {op[p].base}, TRUE, None)
  /\ Done(p)
  /\ writer' = None
  /\ UNCHANGED <<tag, session>>

-----------------------------------------------------------------------------
(* State creation and raw Graph execution *)

\* Resolve the branch and check the State it points to.
StatePin(p) ==
  /\ pc[p] = "idle"
  /\ \E b \in Branches :
       /\ Exists(b) /\ Valid(head[b])
       /\ op' = [op EXCEPT ![p] = [NoPin EXCEPT !.branch = b, !.base = head[b]]]
  /\ Goto(p, "stamp")
  /\ UNCHANGED <<store, writer>>

\* Mutant of StateCreate: the branch is not resolved again under the lock.
StateCreateUnchecked(p) ==
  /\ pc[p] = "stamp" /\ WriterFree /\ Exists(op[p].branch)
  /\ Grow(op[p].branch, {}, {op[p].base}, Valid(head[op[p].branch]), None)
  /\ Done(p)
  /\ UNCHANGED <<tag, session, writer>>

\* CreateCommit: BEGIN IMMEDIATE, resolve the branch again, compare, create.
\* The Snapshot is the parent's.
StateCreate(p) ==
  /\ pc[p] = "stamp" /\ WriterFree
  /\ head[op[p].branch] = op[p].base
  /\ Grow(op[p].branch, {}, {op[p].base}, Valid(head[op[p].branch]), None)
  /\ Done(p)
  /\ UNCHANGED <<tag, session, writer>>

\* ExecuteGraph: one statement on the branch, with no consistency check.
GraphExecute(p) ==
  /\ pc[p] = "idle" /\ WriterFree
  /\ \E b \in Branches, v \in BOOLEAN :
       /\ Exists(b)
       /\ Grow(b, {}, {head[b]}, v, b)
  /\ UNCHANGED <<tag, session, writer, pc, op>>

-----------------------------------------------------------------------------
(* Merge Sessions *)

\* The candidate of a session that needs no merge is one of its pins.
Diverged(s) == ~Reaches(s.theirs, s.ours) /\ ~Reaches(s.ours, s.theirs)
Candidate(s) ==
  \/ Diverged(s)
  \/ s.left = 0 /\ s.good = Valid(IF Reaches(s.theirs, s.ours) THEN s.ours ELSE s.theirs)

OpenSession(b, ours, theirs) ==
  \E s \in Sessions, left \in {0, 1}, good \in BOOLEAN :
    LET new == [status |-> "open", branch |-> b, ours |-> ours, theirs |-> theirs,
                revision |-> 1, left |-> left, good |-> good]
    IN /\ session[s].status = "unused"
       /\ Candidate(new)
       /\ session' = [session EXCEPT ![s] = new]

\* Resolve and check the target branch.
MergePinTarget(p) ==
  /\ pc[p] = "idle"
  /\ \E b \in Branches :
       /\ Exists(b) /\ Valid(head[b])
       /\ op' = [op EXCEPT ![p] = [NoPin EXCEPT !.branch = b, !.base = head[b]]]
  /\ Goto(p, "source")
  /\ UNCHANGED <<store, writer>>

\* Resolve and check the source; a StateRef can name any commit.
MergePinSource(p) ==
  /\ pc[p] = "source"
  /\ \E c \in Commits : Valid(c) /\ op' = [op EXCEPT ![p].other = c]
  /\ Goto(p, "start")
  /\ UNCHANGED <<store, writer>>

\* merge.start(source, expectedHead): the store compares the head.
MergeStart(p) ==
  /\ pc[p] = "start" /\ WriterFree
  /\ head[op[p].branch] = op[p].base
  /\ OpenSession(op[p].branch, op[p].base, op[p].other)
  /\ Done(p)
  /\ UNCHANGED <<dag, head, tag, writer>>

\* A maintenance tool with direct access to the store opens a session on any
\* two States, valid or not.
DirectMergeStart ==
  /\ WriterFree
  /\ \E b \in Branches, c \in Commits : Exists(b) /\ OpenSession(b, head[b], c)
  /\ UNCHANGED <<dag, head, tag, writer, pc, op>>

\* validateMergePinnedStates, after GetMerge and the revision comparison: the
\* caller's expectedRevision is the one the session has.
PinSession(p, s) ==
  /\ session[s].status = "open"
  /\ Valid(session[s].ours) /\ Valid(session[s].theirs)
  /\ op' = [op EXCEPT ![p] = [NoPin EXCEPT !.session = s,
                                           !.revision = session[s].revision]]

\* The store's own comparison when it changes or reads a session.
SameRevision(p) ==
  LET s == session[op[p].session]
  IN s.status = "open" /\ s.revision = op[p].revision

ResolvePin(p) ==
  /\ pc[p] = "idle"
  /\ \E s \in Sessions : PinSession(p, s)
  /\ Goto(p, "resolve")
  /\ UNCHANGED <<store, writer>>

\* merge.resolve: sets or replaces choices, a new revision and candidate.
ResolveApply(p) ==
  LET s == op[p].session
  IN /\ pc[p] = "resolve" /\ WriterFree
     /\ SameRevision(p) /\ Diverged(session[s])
     /\ session[s].revision < MaxRevision
     /\ \E left \in {0, 1}, good \in BOOLEAN :
          session' = [session EXCEPT ![s].revision = @ + 1, ![s].left = left,
                                     ![s].good = good]
     /\ Done(p)
     /\ UNCHANGED <<dag, head, tag, writer>>

\* EvolutionMergeFinalize up to its test of unresolved conflicts.
FinalizePin(p) ==
  /\ pc[p] = "idle"
  /\ \E s \in Sessions : PinSession(p, s) /\ session[s].left = 0
  /\ Goto(p, "candidate")
  /\ UNCHANGED <<store, writer>>

\* decodeMergeCandidateSnapshot: reads the candidate of exactly this revision.
CandidateCheck(p) ==
  /\ pc[p] = "candidate"
  /\ SameRevision(p) /\ session[op[p].session].good
  /\ Goto(p, "finalize")
  /\ UNCHANGED <<store, writer, op>>

\* Mutants of FinalizeApply.  The head is not compared, the revision is not
\* compared, and diverged pins are treated as a fast-forward.
FinalizeStep(p, s) ==
  /\ pc[p] = "finalize" /\ WriterFree /\ s.status = "open" /\ Exists(s.branch)
  /\ \/ Reaches(s.theirs, s.ours) /\ UNCHANGED <<dag, head>>
     \/ /\ ~Reaches(s.theirs, s.ours) /\ Reaches(s.ours, s.theirs)
        /\ head' = [head EXCEPT ![s.branch] = s.theirs]
        /\ UNCHANGED dag
     \/ /\ Diverged(s)
        /\ Grow(s.branch, {s.theirs}, {s.ours, s.theirs}, s.good, None)
  /\ session' = [session EXCEPT ![op[p].session].status = "closed"]
  /\ Done(p)
  /\ UNCHANGED <<tag, writer>>
FinalizeAnyHead(p) ==
  pc[p] = "finalize" /\ SameRevision(p) /\ FinalizeStep(p, session[op[p].session])
FinalizeAnyRevision(p) ==
  LET s == session[op[p].session]
  IN pc[p] = "finalize" /\ head[s.branch] = s.ours /\ FinalizeStep(p, s)

\* merge.finalize compares the revision and the head; what it does to the
\* branch depends on how the pins are related.
FinalizeApply(p) ==
  LET s == session[op[p].session]
  IN /\ pc[p] = "finalize" /\ WriterFree
     /\ SameRevision(p)
     /\ head[s.branch] = s.ours
     /\ \/ Reaches(s.theirs, s.ours) /\ UNCHANGED <<dag, head>>
        \/ /\ ~Reaches(s.theirs, s.ours) /\ Reaches(s.ours, s.theirs)
           /\ head' = [head EXCEPT ![s.branch] = s.theirs]
           /\ UNCHANGED dag
        \/ /\ Diverged(s)
           /\ Grow(s.branch, {s.theirs}, {s.ours, s.theirs}, s.good, None)
     /\ session' = [session EXCEPT ![op[p].session].status = "closed"]
     /\ Done(p)
     /\ UNCHANGED <<tag, writer>>

\* merge.abort with the revision the session has; any other is refused.
MergeAbort(p) ==
  /\ pc[p] = "idle" /\ WriterFree
  /\ \E s \in Sessions :
       /\ session[s].status = "open"
       /\ session' = [session EXCEPT ![s].status = "closed"]
  /\ UNCHANGED <<dag, head, tag, writer, pc, op>>

-----------------------------------------------------------------------------
(* Branches and tags *)

\* Mutant of RefPin: the State is resolved but not checked.
RefPinUnchecked(p) ==
  /\ pc[p] = "idle"
  /\ \E c \in Commits, b \in Branches :
       op' = [op EXCEPT ![p] = [NoPin EXCEPT !.branch = b, !.base = c]]
  /\ Goto(p, "newbranch")
  /\ UNCHANGED <<store, writer>>

\* resolveValidEvolutionState, for branch.create, tag.create and tag.move.
RefPin(p) ==
  /\ pc[p] = "idle"
  /\ \E c \in Commits :
       /\ Valid(c)
       /\ \/ \E b \in Branches :
               /\ op' = [op EXCEPT ![p] = [NoPin EXCEPT !.branch = b, !.base = c]]
               /\ Goto(p, "newbranch")
          \/ \E t \in Tags, l \in {"newtag", "movetag"} :
               /\ op' = [op EXCEPT ![p] = [NoPin EXCEPT !.tag = t, !.base = c]]
               /\ Goto(p, l)
  /\ UNCHANGED <<store, writer>>

BranchCreate(p) ==
  /\ pc[p] = "newbranch" /\ WriterFree
  /\ ~Exists(op[p].branch)
  /\ head' = [head EXCEPT ![op[p].branch] = op[p].base]
  /\ Done(p)
  /\ UNCHANGED <<dag, tag, session, writer>>

\* main is the branch every connection falls back to; it stays.
BranchDelete(p) ==
  /\ pc[p] = "idle" /\ WriterFree
  /\ \E b \in Branches \ {Main} : Exists(b) /\ head' = [head EXCEPT ![b] = None]
  /\ UNCHANGED <<dag, tag, session, writer, pc, op>>

TagCreate(p) ==
  /\ pc[p] = "newtag" /\ WriterFree
  /\ tag[op[p].tag] = None
  /\ tag' = [tag EXCEPT ![op[p].tag] = op[p].base]
  /\ Done(p)
  /\ UNCHANGED <<dag, head, session, writer>>

TagMove(p) ==
  /\ pc[p] = "movetag" /\ WriterFree
  /\ tag[op[p].tag] # None
  /\ tag' = [tag EXCEPT ![op[p].tag] = op[p].base]
  /\ Done(p)
  /\ UNCHANGED <<dag, head, session, writer>>

TagDelete(p) ==
  /\ pc[p] = "idle" /\ WriterFree
  /\ \E t \in Tags : tag[t] # None /\ tag' = [tag EXCEPT ![t] = None]
  /\ UNCHANGED <<dag, head, session, writer, pc, op>>

-----------------------------------------------------------------------------

Step(p) ==
  \/ Fail(p)
  \/ PatchPlan(p) \/ PatchBegin(p) \/ PatchCommit(p)
  \/ StatePin(p) \/ StateCreate(p) \/ GraphExecute(p)
  \/ MergePinTarget(p) \/ MergePinSource(p) \/ MergeStart(p)
  \/ ResolvePin(p) \/ ResolveApply(p)
  \/ FinalizePin(p) \/ CandidateCheck(p) \/ FinalizeApply(p) \/ MergeAbort(p)
  \/ RefPin(p) \/ BranchCreate(p) \/ BranchDelete(p)
  \/ TagCreate(p) \/ TagMove(p) \/ TagDelete(p)

Next == DirectMergeStart \/ \E p \in Procs : Step(p)

Spec == Init /\ [][Next]_vars

-----------------------------------------------------------------------------
(* Properties *)

\* Whatever the callers interleave between their reads and their writes, a
\* commit's parents are exactly the States its content was computed from and
\* checked against: no update is lost, no patch lands on another base.
NothingOutdated == \A c \in Commits : dag[c].basis = dag[c].parents

\* Only raw Graph execution, which promises no check, can make an invalid
\* State; patch, state creation and merge make valid States of valid States.
KernelKeepsValid ==
  \A c \in Commits : dag[c].raw = None =>
    Valid(c) /\ \A q \in dag[c].parents : Valid(q)

\* A ref is invalid only where raw execution on that very branch left it: no
\* tag, new branch, fast-forward or merge ever adopts an invalid State.
RefsStayValid ==
  /\ \A t \in Tags : tag[t] # None => Valid(tag[t])
  /\ \A b \in Branches : Exists(b) /\ ~Valid(head[b]) => dag[head[b]].raw = b

\* An open transaction's branch cannot move under it (nor can it be deleted):
\* what was staged is still relative to the head.
StagedOnHead ==
  \A p \in Procs : pc[p] = "staging" => writer = p /\ head[op[p].branch] = op[p].base

\* A branch that exists before and after a step only moves to a descendant:
\* no operation, merge finalisation included, rewrites history.
HeadsOnlyAdvance ==
  [][\A b \in Branches : Exists(b) /\ head'[b] # None =>
       head[b] \in dag'[head'[b]].past]_vars

\* The kernel implements the branch history of BranchHistory: its many steps
\* amount to atomic moves of refs over an append-only graph of States.
History == INSTANCE BranchHistory WITH NoCommit <- None
KeepsHistory == History!Spec
=============================================================================
