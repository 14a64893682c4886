---------------------------- MODULE MCStateHistory ----------------------------
(***************************************************************************)
(* Small repositories: two States to tell apart, of all that the           *)
(* Definitions 1 and 2 with the names 1 and 2 can be; and lines of four    *)
(* commits, of which the last may merge.                                   *)
(***************************************************************************)
EXTENDS StateHistory

Definitions ==
  {f \in UNION {[s -> [name : DefinitionRefs, labels : 0..1]] : s \in SUBSET Identities} :
     Named(f) /\ (2 \in DOMAIN f => f[2].labels = 0)}
States ==
  UNION {{State(f, i, 0) : i \in {NoIndex} \cup [owners : SUBSET DOMAIN f \ {{}}, on : On]} :
           f \in Definitions}

One(i, name) == [j \in {i} |-> [name |-> name, labels |-> 0]]
Few == {Invalid, State(One(1, 1), NoIndex, 1),
        State(One(1, 2), [owners |-> {1}, on |-> "both"], 2), State(One(2, 1), NoIndex, 0)}

Pairs == {<<Commit(<<>>, a), Commit(<<1>>, b)>> : a, b \in States}
Lines == {<<Commit(<<>>, a), Commit(<<1>>, b), Commit(<<1>>, c), Commit(p, d)>> :
            a, b, c, d \in Few, p \in {<<3>>, <<3, 2>>}}
Small == Pairs \cup Lines

===============================================================================
