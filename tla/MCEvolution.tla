----------------------------- MODULE MCEvolution -----------------------------
(***************************************************************************)
(* Evolution for TLC, in two parts: everything that moves refs, over few   *)
(* States, and everything that can meet a Merge Session, from where two    *)
(* branches have moved on.  Callers are interchangeable.                   *)
(***************************************************************************)
EXTENDS Evolution, TLC

CONSTANT MaxRefCommits  \* bound on the number of commits in the part of the refs

VARIABLE part           \* "refs", or "prepare" and then "merge"

mcVars == <<vars, part>>

Callers == Permutations(Procs)

\* What moves refs and needs no Merge Session.
RefStep(p) ==
  \/ Fail(p)
  \/ PatchPlan(p) \/ PatchBegin(p) \/ PatchCommit(p)
  \/ StatePin(p) \/ StateCreate(p) \/ GraphExecute(p)
  \/ RefPin(p) \/ BranchCreate(p) \/ BranchDelete(p)
  \/ TagCreate(p) \/ TagMove(p) \/ TagDelete(p)

\* What can meet a Merge Session: everything that moves a branch.
MergeStep(p) ==
  \/ Fail(p)
  \/ PatchPlan(p) \/ PatchBegin(p) \/ PatchCommit(p) \/ GraphExecute(p)
  \/ MergePinTarget(p) \/ MergePinSource(p) \/ MergeStart(p)
  \/ ResolvePin(p) \/ ResolveApply(p)
  \/ FinalizePin(p) \/ CandidateCheck(p) \/ FinalizeApply(p) \/ MergeAbort(p)

\* One caller at a time makes two branches and lets each of them grow.
PrepareStep(p) ==
  /\ \A q \in Procs \ {p} : pc[q] = "idle"
  /\ \/ PatchPlan(p) \/ PatchBegin(p) \/ PatchCommit(p) \/ GraphExecute(p)
     \/ RefPin(p) /\ pc'[p] = "newbranch"
     \/ BranchCreate(p)

\* Two branches that both moved on from the first State.  Either they have
\* diverged: main grew by a Patch, the other by a Patch or by a raw execution
\* that broke consistency.  Or the other is ahead: made at main's head, it grew
\* by a Patch, so that a merge of it into main is a fast-forward.
Branched ==
  /\ Len(dag) = 3
  /\ head[Main] = 2 /\ dag[2].raw = None
  /\ \E b \in Branches \ {Main} :
       /\ head[b] = 3
       /\ \/ dag[3].raw = None
          \/ dag[3].raw = b /\ ~dag[3].valid /\ dag[3].parents = {1}
  /\ \A p \in Procs : pc[p] = "idle"

MCInit == Init /\ part \in {"refs", "prepare"}

MCNext ==
  \/ /\ part = "refs" /\ UNCHANGED part
     /\ \E p \in Procs : RefStep(p)
     /\ Len(dag') <= MaxRefCommits
  \/ /\ part = "prepare" /\ Len(dag) < 3 /\ UNCHANGED part
     /\ \E p \in Procs : PrepareStep(p)
  \/ part = "prepare" /\ Branched /\ part' = "merge" /\ UNCHANGED vars
  \/ part = "merge" /\ UNCHANGED part /\ (DirectMergeStart \/ \E p \in Procs : MergeStep(p))

MCSpec == MCInit /\ [][MCNext]_mcVars
=============================================================================
