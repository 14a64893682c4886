---------------------------- MODULE BranchHistory ----------------------------
(***************************************************************************)
(* What the versioned store looks like to someone who only watches it: an  *)
(* append-only graph of States and refs that move over it, one at a time.  *)
(* No reads, pins, sessions or transactions.                               *)
(***************************************************************************)
EXTENDS Integers, Sequences

CONSTANTS Branches, Main, Tags, NoCommit

VARIABLES dag, head, tag

vars == <<dag, head, tag>>

Init ==
  /\ Len(dag) = 1 /\ dag[1].parents = {} /\ dag[1].past = {1} /\ dag[1].valid
  /\ head = [b \in Branches |-> IF b = Main THEN 1 ELSE NoCommit]
  /\ tag = [t \in Tags |-> NoCommit]

\* A branch grows by one State, made of its head and of at most one other
\* State; only raw execution makes invalid States or starts from one.
Grow(b) ==
  /\ head[b] # NoCommit
  /\ \E others \in {{}} \cup {{c} : c \in DOMAIN dag} :
       LET new     == dag'[Len(dag')]
           parents == {head[b]} \cup others
       IN /\ Len(dag') = Len(dag) + 1 /\ SubSeq(dag', 1, Len(dag)) = dag
          /\ new.parents = parents /\ new.basis = parents
          /\ new.past = {Len(dag')} \cup UNION {dag[c].past : c \in parents}
          /\ \/ new.raw # NoCommit /\ others = {}
             \/ new.valid /\ \A c \in parents : dag[c].valid
  /\ head' = [head EXCEPT ![b] = Len(dag')]
  /\ UNCHANGED tag

\* A branch catches up with a valid State that already contains it.
FastForward(b) ==
  /\ head[b] # NoCommit
  /\ \E c \in DOMAIN dag :
       /\ head[b] \in dag[c].past /\ dag[c].valid
       /\ head' = [head EXCEPT ![b] = c]
  /\ UNCHANGED <<dag, tag>>

CreateBranch(b) ==
  /\ head[b] = NoCommit
  /\ \E c \in DOMAIN dag : dag[c].valid /\ head' = [head EXCEPT ![b] = c]
  /\ UNCHANGED <<dag, tag>>

DeleteBranch(b) ==
  /\ b # Main
  /\ head' = [head EXCEPT ![b] = NoCommit]
  /\ UNCHANGED <<dag, tag>>

SetTag(t) ==
  /\ \E c \in DOMAIN dag : dag[c].valid /\ tag' = [tag EXCEPT ![t] = c]
  /\ UNCHANGED <<dag, head>>

DeleteTag(t) ==
  /\ tag' = [tag EXCEPT ![t] = NoCommit]
  /\ UNCHANGED <<dag, head>>

Next ==
  \/ \E b \in Branches : Grow(b) \/ FastForward(b) \/ CreateBranch(b) \/ DeleteBranch(b)
  \/ \E t \in Tags : SetTag(t) \/ DeleteTag(t)

Spec == Init /\ [][Next]_vars
=============================================================================
