------------------------- MODULE MCKernelData_proofs -------------------------
(***************************************************************************)
(* The Ontology planner as one of the three data parts: what is proved of  *)
(* it in RenamePlan_proofs holds of the composition.                       *)
(***************************************************************************)
EXTENDS MCKernelData, TLAPS

RP == INSTANCE RenamePlan_proofs WITH objects <- planned, refs <- resolved, None <- NoName

IInv == part = "rename" => RP!IInv

LEMMA NamesBounds == RP!Bounds
  BY NamesAssumption DEF RP!Bounds

-----------------------------------------------------------------------------
(* The two instances of the planner are one.                               *)

LEMMA SameHelpers ==
  /\ R!Refs = RP!Refs /\ R!Entry = RP!Entry /\ \A s, n : R!RefSeq(s, n) = RP!RefSeq(s, n)
  /\ R!Moved = RP!Moved /\ R!Targets = RP!Targets
  /\ \A r : R!Resolvable(r) = RP!Resolvable(r) /\ R!Resolve(r) = RP!Resolve(r)
  /\ \A s, o : R!Rewrite(s, o) = RP!Rewrite(s, o)
  /\ R!Deleted = RP!Deleted /\ R!Added = RP!Added
  /\ \A S : R!Cardinality(S) = RP!Cardinality(S)
  /\ \A f : R!Range(f) = RP!Range(f) /\ R!IsInjective(f) = RP!IsInjective(f)
<1>1. R!Refs = RP!Refs /\ R!Entry = RP!Entry
  BY DEF R!Refs, RP!Refs, R!Entry, RP!Entry
<1>2. \A s, n : R!RefSeq(s, n) = RP!RefSeq(s, n)
  BY DEF R!RefSeq, RP!RefSeq
<1>3. R!Moved = RP!Moved
  BY DEF R!Moved, RP!Moved
<1>4. R!Targets = RP!Targets
  BY <1>3 DEF R!Targets, RP!Targets
<1>5. \A r : R!Resolvable(r) = RP!Resolvable(r) /\ R!Resolve(r) = RP!Resolve(r)
  BY <1>4 DEF R!Resolvable, RP!Resolvable, R!Resolve, RP!Resolve
<1>6. \A s, o : R!Rewrite(s, o) = RP!Rewrite(s, o)
  BY DEF R!Rewrite, RP!Rewrite
<1>7. R!Deleted = RP!Deleted /\ R!Added = RP!Added
  BY DEF R!Deleted, RP!Deleted, R!Added, RP!Added
<1>8. \A S : R!Cardinality(S) = RP!Cardinality(S)
  BY DEF R!Cardinality, RP!Cardinality
<1>9. \A f : R!Range(f) = RP!Range(f) /\ R!IsInjective(f) = RP!IsInjective(f)
  BY DEF R!Range, RP!Range, R!IsInjective, RP!IsInjective
<1> QED
  BY <1>1, <1>2, <1>3, <1>4, <1>5, <1>6, <1>7, <1>8, <1>9

LEMMA SameInit == R!Init <=> RP!Init
<1>1. R!NoReferrer = RP!NoReferrer
  BY DEF R!NoReferrer, RP!NoReferrer
<1> QED
  BY <1>1, SameHelpers DEF R!Init, RP!Init

LEMMA SameEntries ==
  /\ R!Refuse <=> RP!Refuse
  /\ R!ApplyEntry <=> RP!ApplyEntry
<1>1. R!Refuse <=> RP!Refuse
  BY DEF R!Refuse, RP!Refuse, R!planVars, RP!planVars
<1>2. \A e : (R!Add(e) <=> RP!Add(e)) /\ (R!Delete(e) <=> RP!Delete(e)) /\ (R!Update(e) <=> RP!Update(e))
  BY <1>1 DEF R!Add, RP!Add, R!Delete, RP!Delete, R!Update, RP!Update
<1>3. \A e : R!Rename(e) <=> RP!Rename(e)
  BY <1>1 DEF R!Rename, RP!Rename, R!Move, RP!Move
<1> QED
  BY <1>1, <1>2, <1>3 DEF R!ApplyEntry, RP!ApplyEntry

LEMMA SameReferences ==
  /\ R!Open <=> RP!Open
  /\ R!Maintain <=> RP!Maintain
  /\ R!Lookup <=> RP!Lookup
  /\ R!Validate <=> RP!Validate
<1>1. R!planVars = RP!planVars /\ R!planVars' = RP!planVars'
  BY DEF R!planVars, RP!planVars
<1>2. R!Referrer = RP!Referrer
  BY SameHelpers DEF R!Referrer, RP!Referrer
<1>3. R!Open <=> RP!Open
  BY <1>1, <1>2, SameHelpers DEF R!Open, RP!Open
<1>4. \A o : R!Domain(o) <=> RP!Domain(o)
  BY <1>1, SameHelpers, SameEntries DEF R!Domain, RP!Domain, R!Rewritten, RP!Rewritten
<1>5. \A o : R!Endpoint(o) <=> RP!Endpoint(o)
  BY <1>1, SameHelpers, SameEntries
  DEF R!Endpoint, RP!Endpoint, R!Rewritten, RP!Rewritten, R!Skipped, RP!Skipped
<1>6. R!Maintain <=> RP!Maintain
  BY <1>4, <1>5 DEF R!Maintain, RP!Maintain
<1>7. R!Lookup <=> RP!Lookup
  BY <1>1, SameHelpers DEF R!Lookup, RP!Lookup
<1>8. R!Validate <=> RP!Validate
  BY <1>1, SameHelpers DEF R!Validate, RP!Validate
<1> QED
  BY <1>3, <1>6, <1>7, <1>8

LEMMA SameNext == R!Next <=> RP!Next
  BY SameEntries, SameReferences DEF R!Next, RP!Next

LEMMA SameProperties ==
  /\ R!KeepsBaseObjects <=> RP!KeepsBaseObjects
  /\ R!FollowsWhenFresh <=> RP!FollowsWhenFresh
  /\ R!LookupFollows <=> RP!LookupFollows
  /\ R!RenamedStayReferenced <=> RP!RenamedStayReferenced
<1>1. (R!Accepted <=> RP!Accepted) /\ (R!Fresh <=> RP!Fresh)
  BY SameHelpers DEF R!Accepted, RP!Accepted, R!Fresh, RP!Fresh
<1>2. \A r : R!Denotes(r) = RP!Denotes(r)
  BY SameHelpers DEF R!Denotes, RP!Denotes
<1>3. R!Follows <=> RP!Follows
  BY <1>2 DEF R!Follows, RP!Follows
<1>4. R!KeepsBaseObjects <=> RP!KeepsBaseObjects
  BY <1>1, SameHelpers DEF R!KeepsBaseObjects, RP!KeepsBaseObjects
<1>5. R!FollowsWhenFresh <=> RP!FollowsWhenFresh
  BY <1>1, <1>3 DEF R!FollowsWhenFresh, RP!FollowsWhenFresh
<1>6. R!LookupFollows <=> RP!LookupFollows
  BY <1>1, <1>3, SameHelpers DEF R!LookupFollows, RP!LookupFollows
<1>7. R!RenamedStayReferenced <=> RP!RenamedStayReferenced
  BY <1>1, SameHelpers DEF R!RenamedStayReferenced, RP!RenamedStayReferenced
<1> QED
  BY <1>4, <1>5, <1>6, <1>7

-----------------------------------------------------------------------------
(* The composition                                                         *)

\* The planner's invariant holds while the planner is the part explored
\* (planPatch).
THEOREM Invariance == Spec => []IInv
<1>1. Init => IInv
  <2> SUFFICES ASSUME Init, part = "rename" PROVE RP!IInv
    BY DEF IInv
  <2>1. R!Init
    BY DEF Init
  <2> QED
    BY <2>1, NamesBounds, SameInit, RP!Initially
<1>2. IInv /\ [Next]_<<conflictVars, patchVars, renameVars, part>> => IInv'
  <2> SUFFICES ASSUME IInv, [Next]_<<conflictVars, patchVars, renameVars, part>>, part' = "rename"
               PROVE  RP!IInv'
    BY DEF IInv
  <2>1. part = "rename" /\ (R!Next \/ UNCHANGED renameVars)
    BY DEF Next, conflictVars, patchVars
  <2>2. [RP!Next]_(RP!vars)
    BY <2>1, SameNext DEF renameVars, RP!vars, RP!planVars
  <2> QED
    BY <2>1, <2>2, NamesBounds, RP!Inductive DEF IInv
<1> QED
  BY <1>1, <1>2, PTL DEF Spec

\* Each entry of an accepted patch leaves the Definitions of baseState it does
\* not delete planned under exactly one name: none is overwritten (applyEntry).
THEOREM BaseObjectsKept == Spec => []KeepsBaseObjects
<1>1. IInv => KeepsBaseObjects
  BY NamesBounds, SameProperties, RP!BaseKept DEF IInv, KeepsBaseObjects
<1> QED
  BY <1>1, Invariance, PTL

\* References follow renamed Definitions, in whatever order the entries come
\* and the renames are applied, if names given are fresh
\* (resolveDerivedReferences).
THEOREM FreshNamesFollow == Spec => []FollowsWhenFresh
<1>1. IInv => FollowsWhenFresh
  BY NamesBounds, SameProperties, RP!FreshFollows DEF IInv, FollowsWhenFresh
<1> QED
  BY <1>1, Invariance, PTL

\* Places without a base, which look a name up once, follow chains of renames
\* too (endpointRefs).
THEOREM PlacesFollow == Spec => []LookupFollows
<1>1. IInv => LookupFollows
  BY NamesBounds, SameProperties, RP!NewFollows DEF IInv, LookupFollows
<1> QED
  BY <1>1, Invariance, PTL

\* No explicit edit of a referrer undoes a rename unseen
\* (resolveDerivedReferences, applyEndpointTransitions).
THEOREM EditsKeepRenames == Spec => []RenamedStayReferenced
<1>1. IInv => RenamedStayReferenced
  BY NamesBounds, SameProperties, RP!RenamedStay DEF IInv, RenamedStayReferenced
<1> QED
  BY <1>1, Invariance, PTL

=============================================================================
