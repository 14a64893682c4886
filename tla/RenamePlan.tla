----------------------------- MODULE RenamePlan -----------------------------
(***************************************************************************)
(* The planner of an Ontology Patch (internal/kernel/patch_plan.go): how   *)
(* entries that add, delete, update and rename Definitions change the set  *)
(* of planned Objects, and how the references of a Domain or Relationship  *)
(* to those Definitions are carried along.                                 *)
(*                                                                         *)
(* An Object is identified by the name it has in baseState or by the alias *)
(* of the entry that adds it; a reference is written with a name or with   *)
(* an alias.  The entries of a patch come in whatever order its author     *)
(* wrote them; renames are then applied to the references in the iteration *)
(* order of a Go map, which is arbitrary.  One referrer stands for all:    *)
(* the planner treats each by itself.                                      *)
(***************************************************************************)
EXTENDS Integers, FiniteSets, Functions

CONSTANTS
  Names,       \* names a Definition can have
  Base,        \* the Definitions of baseState, each named by itself: some Names
  Aliases,     \* request-local aliases of added Definitions, no Names
  None,        \* "no object", "no name": neither a name nor an alias
  MaxEntries,  \* bound on the entries of a patch
  MaxRefs      \* bound on the members of a Domain

VARIABLES
  patch,     \* the entries of the patch
  left,      \* those not applied yet
  used,      \* usedBaseTargets
  objects,   \* plan.Objects: the Object planned under each name
  made,      \* plan.Aliases: the name of each added Object
  renamed,   \* plan.Transitions
  referrer,  \* the Domain or Relationship whose references are resolved
  refs,      \* its references as resolved so far
  todo,      \* renames not yet applied to it
  pc

planVars == <<left, used, objects, made, renamed>>
vars     == <<patch, planVars, referrer, refs, todo, pc>>

Refs == Names \cup Aliases

Entry ==
  [op : {"add"}, alias : Aliases, name : Names, old : {None}]
    \cup [op : {"delete", "update"}, alias : {None}, name : {None}, old : Base]
    \cup {e \in [op : {"rename"}, alias : {None}, name : Names, old : Base] :
            e.name # e.old}

\* At most n references.
RefSeq(S, n) == UNION {[1..k -> S] : k \in 0..n}

\* kind: a Domain of baseState, an endpoint of a Relationship of baseState, or
\* a place with no base (an endpoint of an added Relationship, an Index
\* target).  base: its references in baseState.  raw: as the patch has them.
\* edited: an entry of the patch changes the referrer itself.
Referrer ==
  [kind : {"domain"}, base : RefSeq(Base, MaxRefs), raw : RefSeq(Refs, MaxRefs), edited : BOOLEAN]
    \cup [kind : {"endpoint"}, base : RefSeq(Base, 1), raw : RefSeq(Refs, 1), edited : BOOLEAN]
    \cup [kind : {"new"}, base : {<<>>}, raw : RefSeq(Refs, 1), edited : {TRUE}]

NoReferrer == [kind |-> "new", base |-> <<>>, raw |-> <<>>, edited |-> TRUE]

TypeOK ==
  /\ patch \subseteq Entry /\ left \subseteq patch
  /\ used \subseteq Base
  /\ objects \in [Names -> Base \cup Aliases \cup {None}]
  /\ made \in [Aliases -> Names \cup {None}]
  /\ renamed \in [Base -> Names \cup {None}]
  /\ referrer \in Referrer
  /\ refs \in RefSeq(Names, MaxRefs)
  /\ todo \subseteq Base
  /\ pc \in {"entries", "maintain", "done", "refused"}

-----------------------------------------------------------------------------
(* Helpers *)

\* The renames of the patch, and the names they give.
Moved == {o \in Base : renamed[o] # None}
Targets == {renamed[o] : o \in Moved}

\* resolveAlias: a name of baseState or of a rename's target stands for
\* itself, an alias for the name of the Object it adds.
Resolvable(r) == IF r \in Aliases THEN made[r] # None ELSE r \in Base \cup Targets

Resolve(r) == IF r \in Aliases THEN made[r] ELSE r

\* Every reference to the name o becomes one to its new name.
Rewrite(s, o) == [i \in DOMAIN s |-> IF s[i] = o THEN renamed[o] ELSE s[i]]

Refuse == pc' = "refused" /\ UNCHANGED <<patch, planVars, referrer, refs, todo>>

-----------------------------------------------------------------------------
(* applyEntry, for each entry in the order of the patch *)

Init ==
  /\ patch \in {P \in SUBSET Entry : Cardinality(P) \in 1..MaxEntries}
  /\ left = patch /\ used = {}
  /\ objects = [n \in Names |-> IF n \in Base THEN n ELSE None]
  /\ made = [a \in Aliases |-> None]
  /\ renamed = [o \in Base |-> None]
  /\ referrer = NoReferrer /\ refs = <<>> /\ todo = {}
  /\ pc = "entries"

\* An Add is refused when its alias was used or its name is taken.
Add(e) ==
  /\ e.op = "add"
  /\ \/ (made[e.alias] # None \/ objects[e.name] # None) /\ Refuse
     \/ /\ made[e.alias] = None /\ objects[e.name] = None
        /\ objects' = [objects EXCEPT ![e.name] = e.alias]
        /\ made' = [made EXCEPT ![e.alias] = e.name]
        /\ left' = left \ {e}
        /\ UNCHANGED <<patch, used, renamed, referrer, refs, todo, pc>>

Delete(e) ==
  /\ e.op = "delete"
  /\ \/ e.old \in used /\ Refuse
     \/ /\ e.old \notin used
        /\ used' = used \cup {e.old}
        /\ objects' = [objects EXCEPT ![e.old] = None]
        /\ left' = left \ {e}
        /\ UNCHANGED <<patch, made, renamed, referrer, refs, todo, pc>>

\* An Update changes the body of a Definition and keeps its name.
Update(e) ==
  /\ e.op = "update"
  /\ \/ e.old \in used /\ Refuse
     \/ /\ e.old \notin used
        /\ used' = used \cup {e.old}
        /\ left' = left \ {e}
        /\ UNCHANGED <<patch, objects, made, renamed, referrer, refs, todo, pc>>

\* The planned Object moves to its new name.
Move(e) ==
  /\ used' = used \cup {e.old}
  /\ objects' = [objects EXCEPT ![e.name] = objects[e.old], ![e.old] = None]
  /\ renamed' = [renamed EXCEPT ![e.old] = e.name]
  /\ left' = left \ {e}
  /\ UNCHANGED <<patch, made, referrer, refs, todo, pc>>

\* Mutant of Rename: the target is not looked at.
RenameOver(e) ==
  /\ e.op = "rename"
  /\ \/ e.old \in used /\ Refuse
     \/ e.old \notin used /\ Move(e)

\* A Rename is refused when another Object of baseState has its target name.
Rename(e) ==
  /\ e.op = "rename"
  /\ \/ (e.old \in used \/ objects[e.name] \in Base) /\ Refuse
     \/ e.old \notin used /\ objects[e.name] \notin Base /\ Move(e)

-----------------------------------------------------------------------------
(* resolveDerivedReferences, for one referrer *)

\* All entries are applied.  The body of a referrer no entry edits is the one
\* of baseState; an unknown alias or name refuses the patch.
Open ==
  /\ pc = "entries" /\ left = {}
  /\ \E r \in Referrer :
       /\ IsInjective(r.base)
       /\ ~r.edited => r.raw = r.base
       /\ referrer' = r
       /\ \/ /\ \A i \in DOMAIN r.raw : Resolvable(r.raw[i])
             /\ refs' = [i \in DOMAIN r.raw |-> Resolve(r.raw[i])]
             /\ todo' = Moved
             /\ pc' = "maintain"
          \/ /\ \E i \in DOMAIN r.raw : ~Resolvable(r.raw[i])
             /\ pc' = "refused"
             /\ UNCHANGED <<refs, todo>>
  /\ UNCHANGED <<patch, planVars>>

Rewritten(o) ==
  /\ refs' = Rewrite(refs, o)
  /\ todo' = todo \ {o}
  /\ UNCHANGED <<patch, planVars, referrer, pc>>

Skipped(o) == todo' = todo \ {o} /\ UNCHANGED <<patch, planVars, referrer, refs, pc>>

\* Mutant of Domain: an explicit removal is not compared with the rename.
DomainRemoved(o) ==
  /\ referrer.kind = "domain"
  /\ Rewritten(o)

\* One rename applied to the includes of a Domain: an explicit edit that took
\* the renamed member out conflicts with the rename.
Domain(o) ==
  LET dropped == /\ referrer.edited /\ o \in Range(referrer.base)
                 /\ {o, renamed[o]} \cap Range(refs) = {}
  IN /\ referrer.kind = "domain"
     /\ \/ dropped /\ Refuse
        \/ ~dropped /\ Rewritten(o)

\* applyEndpointTransitions, one rename of a Relationship's endpoint.
Endpoint(o) ==
  LET own == referrer.base = <<o>>
  IN /\ referrer.kind = "endpoint"
     /\ \/ refs = <<o>> /\ Rewritten(o)
        \/ refs # <<o>> /\ (own /\ referrer.edited => refs = <<renamed[o]>>) /\ Skipped(o)
        \/ own /\ referrer.edited /\ refs \notin {<<o>>, <<renamed[o]>>} /\ Refuse

Maintain ==
  /\ pc = "maintain" /\ referrer.kind # "new"
  /\ \E o \in todo : Domain(o) \/ Endpoint(o)

\* Mutant of Lookup: a name that is itself a rename's target is looked up again.
LookupTwice ==
  LET Once(n) == IF n \in Moved THEN renamed[n] ELSE n
  IN /\ pc = "maintain" /\ referrer.kind = "new" /\ todo # {}
     /\ refs' = [i \in DOMAIN refs |-> Once(Once(refs[i]))]
     /\ todo' = {}
     /\ UNCHANGED <<patch, planVars, referrer, pc>>

\* Without a base every reference is looked up once among the renames.
Lookup ==
  /\ pc = "maintain" /\ referrer.kind = "new" /\ todo # {}
  /\ refs' = [i \in DOMAIN refs |->
                IF refs[i] \in Moved THEN renamed[refs[i]] ELSE refs[i]]
  /\ todo' = {}
  /\ UNCHANGED <<patch, planVars, referrer, pc>>

\* Mutant of Validate: a member that no planned Object has is let through.
ValidateUnplanned ==
  /\ pc = "maintain" /\ todo = {}
  /\ \/ IsInjective(refs) /\ pc' = "done"
     \/ ~IsInjective(refs) /\ pc' = "refused"
  /\ UNCHANGED <<patch, planVars, referrer, refs, todo>>

\* normalizeObject refuses a member named twice, validateReferences one that
\* no planned Object has.
Validate ==
  LET sound == /\ IsInjective(refs)
               /\ \A i \in DOMAIN refs : objects[refs[i]] # None
  IN /\ pc = "maintain" /\ todo = {}
     /\ \/ sound /\ pc' = "done"
        \/ ~sound /\ pc' = "refused"
     /\ UNCHANGED <<patch, planVars, referrer, refs, todo>>

-----------------------------------------------------------------------------

ApplyEntry ==
  /\ pc = "entries"
  /\ \E e \in left : Add(e) \/ Delete(e) \/ Update(e) \/ Rename(e)

Next == ApplyEntry \/ Open \/ Maintain \/ Lookup \/ Validate

Spec == Init /\ [][Next]_vars

-----------------------------------------------------------------------------
(* Properties *)

Accepted == pc = "done"

\* What the patch does to the Objects, whatever the order of its entries.
Deleted == {e.old : e \in {x \in patch : x.op = "delete"}}
Added   == {e.name : e \in {x \in patch : x.op = "add"}}

\* The patch takes over no name of baseState, and gives none twice.
Fresh == (Targets \cup Added) \cap Base = {} /\ Targets \cap Added = {}

\* The Object a reference of the patch stands for: names are read in baseState,
\* only a name baseState does not have can be the target of a rename.
Denotes(r) ==
  IF r \in Aliases \cup Base THEN r ELSE CHOOSE o \in Moved : renamed[o] = r

\* Every reference of the accepted plan is to the Object it stood for.
Follows ==
  \A i \in DOMAIN refs : objects[refs[i]] = Denotes(referrer.raw[i])

\* When the patch only gives fresh names, references follow their Objects
\* through every rename, in any order of entries and of map iteration.
FollowsWhenFresh == Accepted /\ Fresh => Follows

\* Places without a base, which look names up once, follow chained renames too.
LookupFollows ==
  /\ Accepted /\ referrer.kind = "new"
  /\ Added \cap (Base \cup Targets) = {} /\ Targets \cap Deleted = {}
  => Follows

\* An explicit edit never silently undoes a rename: what baseState refers to
\* and the patch renames is still referred to, or the patch is refused.
RenamedStayReferenced ==
  Accepted /\ Fresh =>
    \A o \in Range(referrer.base) \cap Moved : \E i \in DOMAIN refs : objects[refs[i]] = o

\* A Definition of baseState the patch does not delete is planned under exactly
\* one name, and a deleted one under none: no entry overwrites a base Object.
KeepsBaseObjects ==
  Accepted =>
    \A o \in Base : Cardinality({n \in Names : objects[n] = o}) = (IF o \in Deleted THEN 0 ELSE 1)

\* References follow a chain of renames (A to B while B moves to C): the patch
\* "refers to existing Objects by their baseState Ref" (object.md).
FollowsThroughChains ==
  Accepted /\ Deleted \cup Added = {} => Follows

\* Two entries that give one name to two Objects are never both accepted: Add
\* "has no upsert semantics", a duplicate name is a conflict (object.md).
NoDuplicateAccepted ==
  Accepted => \A a \in Aliases : made[a] # None => objects[made[a]] = a
=============================================================================
