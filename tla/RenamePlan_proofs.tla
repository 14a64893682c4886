--------------------------- MODULE RenamePlan_proofs ---------------------------
(***************************************************************************)
(* The planner of an Ontology Patch, for every number of Definitions,      *)
(* entries and references and every order of both: no Definition of        *)
(* baseState is overwritten, and references follow the Definitions they    *)
(* were written for.                                                       *)
(***************************************************************************)
EXTENDS RenamePlan, FiniteSetTheorems, TLAPS

\* baseState has names of its own; names, aliases and "none" are told apart,
\* and a Relationship has room for an endpoint.
Bounds ==
  /\ Base \subseteq Names /\ Names \cap Aliases = {}
  /\ None \notin Names \cup Aliases
  /\ MaxEntries \in Nat /\ MaxRefs \in Nat \ {0}

\* Base Definitions an entry applied so far deleted, and the name of another.
Gone == {o \in Base : \E e \in patch \ left : e.op = "delete" /\ e.old = o}
NewName(o) == IF renamed[o] # None THEN renamed[o] ELSE o

\* An entry claims its base Definition, so that no second one gets it.
Claimed == Moved \cup Gone \subseteq used /\ Moved \cap Gone = {}

\* Each base Definition is planned under its name of the moment, only there,
\* and under none once deleted.
Placed == \A o \in Base, n \in Names : objects[n] = o <=> (o \notin Gone /\ n = NewName(o))

\* Only a rename takes the name of an added Definition away.
AddedStay ==
  \A a \in Aliases : made[a] # None =>
    /\ made[a] \in Added
    /\ made[a] \notin Targets => objects[made[a]] = a
AliasNamed == \A n \in Names : objects[n] \in Aliases => made[objects[n]] = n

PlanInv == Claimed /\ Placed /\ AddedStay /\ AliasNamed

\* What a reference has become, with the renames of todo still to come.
Carried(r) ==
  LET n == Resolve(r) IN IF n \in Moved \ todo THEN renamed[n] ELSE n

Referring == pc \in {"maintain", "done"}

Resolving ==
  Referring =>
    /\ left = {} /\ todo \subseteq Moved
    /\ \A i \in DOMAIN referrer.raw : Resolvable(referrer.raw[i])
    /\ ~referrer.edited => referrer.raw = referrer.base
    /\ referrer.kind = "new" => todo \in {Moved, {}}
    /\ DOMAIN refs = DOMAIN referrer.raw
    /\ refs \in RefSeq(Names, IF referrer.kind = "domain" THEN MaxRefs ELSE 1)

Carries ==
  Referring /\ (Fresh \/ referrer.kind = "new") =>
    \A i \in DOMAIN refs : refs[i] = Carried(referrer.raw[i])

\* What was referred to and has been renamed is in the references by its new
\* name: the members an explicit edit removed made the patch be refused.
KeptMembers ==
  Referring /\ Fresh =>
    \A o \in Range(referrer.base) \cap (Moved \ todo) : renamed[o] \in Range(refs)

Final == pc = "done" => todo = {} /\ \A i \in DOMAIN refs : objects[refs[i]] # None

RefInv == Resolving /\ Carries /\ KeptMembers /\ Final

IInv == TypeOK /\ PlanInv /\ RefInv

-----------------------------------------------------------------------------
(* Lemmas on the operators                                                 *)

LEMMA SeqMember ==
  ASSUME NEW S, NEW n \in Nat
  PROVE  /\ \A s \in RefSeq(S, n) : \E k \in 0..n : s \in [1..k -> S]
         /\ \A k \in 0..n : \A s \in [1..k -> S] : s \in RefSeq(S, n)
  BY DEF RefSeq

LEMMA SeqGrow ==
  ASSUME NEW S, NEW n \in Nat \ {0}, NEW s \in RefSeq(S, 1)
  PROVE  s \in RefSeq(S, n)
<1>1. PICK k \in 0..1 : s \in [1..k -> S]
  BY SeqMember
<1>2. k \in 0..n
  OBVIOUS
<1> QED
  BY <1>1, <1>2, SeqMember

LEMMA EntryFields ==
  ASSUME NEW e \in Entry
  PROVE  /\ e.op \in {"add", "delete", "update", "rename"}
         /\ e.op = "add" => e.alias \in Aliases /\ e.name \in Names
         /\ e.op # "add" => e.old \in Base
         /\ e.op = "rename" => e.name \in Names /\ e.name # e.old
  BY DEF Entry

LEMMA ReferrerFields ==
  ASSUME NEW r \in Referrer, Bounds
  PROVE  /\ r.kind \in {"domain", "endpoint", "new"} /\ r.edited \in BOOLEAN
         /\ r.raw \in RefSeq(Refs, IF r.kind = "domain" THEN MaxRefs ELSE 1)
         /\ r.base \in RefSeq(Base, IF r.kind = "domain" THEN MaxRefs ELSE 1)
         /\ r.kind = "new" => r.base = <<>>
<1>1. <<>> \in RefSeq(Base, 1)
  <2>1. <<>> \in [1..0 -> Base] /\ 0 \in 0..1
    OBVIOUS
  <2> QED
    BY <2>1, SeqMember
<1> QED
  BY <1>1 DEF Referrer, Bounds

\* Two base Definitions are never moved to one name.
LEMMA TargetsDiffer ==
  ASSUME Bounds, TypeOK, PlanInv, NEW o \in Moved, NEW q \in Moved, renamed[o] = renamed[q]
  PROVE  o = q
  BY DEF Bounds, TypeOK, PlanInv, Claimed, Placed, NewName, Moved

\* A moved Definition is planned under its target.
LEMMA MovedPlaced ==
  ASSUME Bounds, TypeOK, PlanInv, NEW o \in Moved
  PROVE  renamed[o] \in Names \cap Targets /\ objects[renamed[o]] = o
  BY DEF Bounds, TypeOK, PlanInv, Claimed, Placed, NewName, Moved, Targets

\* A resolvable reference resolves to a name.
LEMMA ResolvesToName ==
  ASSUME Bounds, TypeOK, NEW r \in Refs, Resolvable(r)
  PROVE  Resolve(r) \in Names
  BY DEF Bounds, TypeOK, Resolvable, Resolve, Refs, Targets, Moved

-----------------------------------------------------------------------------
(* Invariance                                                              *)

LEMMA Initially ==
  ASSUME Bounds, Init
  PROVE  IInv
<1> USE DEF Bounds, Init
<1>1. /\ Moved = {} /\ Targets = {} /\ Gone = {}
  BY DEF Moved, Targets, Gone
<1>2. TypeOK
  <2>1. <<>> \in RefSeq(Base, 1) /\ <<>> \in RefSeq(Refs, 1) /\ <<>> \in RefSeq(Names, MaxRefs)
    <3>1. <<>> \in [1..0 -> Base] /\ <<>> \in [1..0 -> Refs] /\ <<>> \in [1..0 -> Names]
      OBVIOUS
    <3>2. 0 \in 0..1 /\ 0 \in 0..MaxRefs /\ 1 \in Nat /\ MaxRefs \in Nat
      OBVIOUS
    <3>3. \A S : \A n \in Nat : 0 \in 0..n /\ <<>> \in [1..0 -> S] => <<>> \in RefSeq(S, n)
      BY SeqMember
    <3> QED
      BY <3>1, <3>2, <3>3
  <2>2. NoReferrer \in Referrer
    BY <2>1 DEF NoReferrer, Referrer
  <2> QED
    BY <2>1, <2>2 DEF TypeOK
<1>3. PlanInv
  <2>1. \A o \in Base : NewName(o) = o
    BY DEF NewName
  <2> QED
    BY <1>1, <2>1 DEF PlanInv, Claimed, Placed, AddedStay, AliasNamed
<1>4. RefInv
  BY DEF RefInv, Resolving, Carries, KeptMembers, Final, Referring
<1> QED
  BY <1>2, <1>3, <1>4 DEF IInv

\* While references are resolved the plan rests.
LEMMA PlanRests ==
  ASSUME UNCHANGED <<patch, planVars>>
  PROVE  /\ PlanInv => PlanInv'
         /\ Moved' = Moved /\ Targets' = Targets /\ (Fresh' <=> Fresh)
  BY DEF planVars, PlanInv, Claimed, Placed, AddedStay, AliasNamed, Gone, NewName, Added,
         Moved, Targets, Fresh

LEMMA Refused ==
  ASSUME Bounds, IInv, Refuse
  PROVE  IInv'
<1>1. PlanInv'
  BY PlanRests DEF Refuse, IInv
<1>2. TypeOK'
  BY DEF Refuse, IInv, TypeOK, planVars
<1>3. RefInv'
  BY DEF Refuse, RefInv, Resolving, Carries, KeptMembers, Final, Referring
<1> QED
  BY <1>1, <1>2, <1>3 DEF IInv

\* Nothing is said of references while entries are applied.
LEMMA EntriesOnly ==
  ASSUME pc' = "entries"
  PROVE  RefInv'
  BY DEF RefInv, Resolving, Carries, KeptMembers, Final, Referring

\* An added Definition takes a name no Object has, under an alias of its own.
LEMMA AddStep ==
  ASSUME Bounds, IInv, pc = "entries", NEW e \in left, Add(e)
  PROVE  IInv'
<1>1. /\ e \in patch /\ e \in Entry /\ e.op = "add" /\ e.alias \in Aliases /\ e.name \in Names
  BY EntryFields DEF IInv, TypeOK, Add
<1>2. CASE Refuse
  BY <1>2, Refused
<1>3. CASE /\ made[e.alias] = None /\ objects[e.name] = None
           /\ objects' = [objects EXCEPT ![e.name] = e.alias]
           /\ made' = [made EXCEPT ![e.alias] = e.name]
           /\ left' = left \ {e}
           /\ UNCHANGED <<patch, used, renamed, referrer, refs, todo, pc>>
  <2> USE <1>1, <1>3
  <2>1. TypeOK'
    BY DEF Bounds, IInv, TypeOK
  <2>2. /\ Moved' = Moved /\ Targets' = Targets /\ Added' = Added /\ Gone' = Gone
        /\ e.name \in Added
    BY DEF Moved, Targets, Added, Gone
  <2>3. Claimed' /\ Placed'
    BY <2>2 DEF Bounds, IInv, TypeOK, PlanInv, Claimed, Placed, NewName
  <2>4. AddedStay'
    <3>1. ASSUME NEW a \in Aliases, made'[a] # None
          PROVE  made'[a] \in Added /\ (made'[a] \notin Targets => objects'[made'[a]] = a)
      <4>1. CASE a = e.alias
        BY <2>2, <4>1 DEF IInv, TypeOK
      <4>2. CASE a # e.alias
        <5>1. made'[a] = made[a] /\ made[a] \in Names
          BY <3>1, <4>2 DEF IInv, TypeOK
        <5>2. made[a] \in Added /\ (made[a] \notin Targets => objects[made[a]] = a)
          BY <3>1, <5>1 DEF IInv, PlanInv, AddedStay
        <5>3. made[a] \notin Targets => made[a] # e.name
          BY <5>2 DEF Bounds
        <5> QED
          BY <5>1, <5>2, <5>3 DEF IInv, TypeOK
      <4> QED
        BY <4>1, <4>2
    <3> QED
      BY <2>2, <3>1 DEF AddedStay
  <2>5. AliasNamed'
    <3>1. ASSUME NEW n \in Names, objects'[n] \in Aliases
          PROVE  made'[objects'[n]] = n
      <4>1. CASE n = e.name
        BY <4>1 DEF IInv, TypeOK
      <4>2. CASE n # e.name
        <5>1. objects'[n] = objects[n]
          BY <4>2 DEF IInv, TypeOK
        <5>2. made[objects[n]] = n
          BY <3>1, <5>1 DEF IInv, PlanInv, AliasNamed
        <5>3. objects[n] # e.alias
          BY <5>2 DEF Bounds
        <5> QED
          BY <3>1, <5>1, <5>2, <5>3 DEF IInv, TypeOK
      <4> QED
        BY <4>1, <4>2
    <3> QED
      BY <3>1 DEF AliasNamed
  <2> QED
    BY <2>1, <2>3, <2>4, <2>5, EntriesOnly DEF IInv, PlanInv
<1> QED
  BY <1>2, <1>3 DEF Add

\* Only the name of the deleted Definition itself becomes free.
LEMMA DeleteStep ==
  ASSUME Bounds, IInv, pc = "entries", NEW e \in left, Delete(e)
  PROVE  IInv'
<1>1. e \in patch /\ e \in Entry /\ e.op = "delete" /\ e.old \in Base
  BY EntryFields DEF IInv, TypeOK, Delete
<1>2. CASE Refuse
  BY <1>2, Refused
<1>3. CASE /\ e.old \notin used
           /\ used' = used \cup {e.old}
           /\ objects' = [objects EXCEPT ![e.old] = None]
           /\ left' = left \ {e}
           /\ UNCHANGED <<patch, made, renamed, referrer, refs, todo, pc>>
  <2> USE <1>1, <1>3
  <2>1. TypeOK'
    BY DEF Bounds, IInv, TypeOK
  <2>2. /\ Moved' = Moved /\ Targets' = Targets /\ Added' = Added
        /\ Gone' = Gone \cup {e.old}
    BY DEF Moved, Targets, Added, Gone
  <2>3. e.old \in Names /\ e.old \notin Moved /\ e.old \notin Gone /\ objects[e.old] = e.old
    BY DEF Bounds, IInv, TypeOK, PlanInv, Claimed, Placed, NewName, Moved
  <2>4. Claimed'
    BY <2>2, <2>3 DEF IInv, PlanInv, Claimed
  <2>5. Placed'
    BY <2>2, <2>3 DEF Bounds, IInv, TypeOK, PlanInv, Placed, NewName
  <2>6. AddedStay'
    BY <2>2, <2>3 DEF Bounds, IInv, TypeOK, PlanInv, AddedStay
  <2>7. AliasNamed'
    BY DEF Bounds, IInv, TypeOK, PlanInv, AliasNamed
  <2> QED
    BY <2>1, <2>4, <2>5, <2>6, <2>7, EntriesOnly DEF IInv, PlanInv
<1> QED
  BY <1>2, <1>3 DEF Delete

LEMMA UpdateStep ==
  ASSUME Bounds, IInv, pc = "entries", NEW e \in left, Update(e)
  PROVE  IInv'
<1>1. e \in patch /\ e \in Entry /\ e.op = "update" /\ e.old \in Base
  BY EntryFields DEF IInv, TypeOK, Update
<1>2. CASE Refuse
  BY <1>2, Refused
<1>3. CASE /\ used' = used \cup {e.old}
           /\ left' = left \ {e}
           /\ UNCHANGED <<patch, objects, made, renamed, referrer, refs, todo, pc>>
  <2> USE <1>1, <1>3
  <2>1. TypeOK'
    BY DEF IInv, TypeOK
  <2>2. Moved' = Moved /\ Targets' = Targets /\ Added' = Added /\ Gone' = Gone
    BY DEF Moved, Targets, Added, Gone
  <2>3. PlanInv'
    BY <2>2 DEF IInv, PlanInv, Claimed, Placed, NewName, AddedStay, AliasNamed
  <2> QED
    BY <2>1, <2>3, EntriesOnly DEF IInv
<1> QED
  BY <1>2, <1>3 DEF Update

\* A rename takes over a name no Definition of baseState is planned under.
LEMMA RenameStep ==
  ASSUME Bounds, IInv, pc = "entries", NEW e \in left, Rename(e)
  PROVE  IInv'
<1>1. /\ e \in patch /\ e \in Entry /\ e.op = "rename"
      /\ e.old \in Base /\ e.name \in Names /\ e.name # e.old
  BY EntryFields DEF IInv, TypeOK, Rename
<1>2. CASE Refuse
  BY <1>2, Refused
<1>3. CASE e.old \notin used /\ objects[e.name] \notin Base /\ Move(e)
  <2> USE <1>1, <1>3
  <2>1. e.old \in Names /\ e.old \notin Moved /\ e.old \notin Gone /\ objects[e.old] = e.old
    BY DEF Bounds, IInv, TypeOK, PlanInv, Claimed, Placed, NewName, Moved
  <2>2. /\ objects' = [objects EXCEPT ![e.name] = e.old, ![e.old] = None]
        /\ renamed' = [renamed EXCEPT ![e.old] = e.name]
        /\ used' = used \cup {e.old} /\ left' = left \ {e}
        /\ UNCHANGED <<patch, made, referrer, refs, todo, pc>>
    BY <2>1 DEF Move
  <2>3. TypeOK'
    BY <2>2 DEF Bounds, IInv, TypeOK
  <2>4. /\ e.name # None /\ Moved' = Moved \cup {e.old} /\ Added' = Added /\ Gone' = Gone
        /\ Targets' = Targets \cup {e.name}
    <3>1. e.name # None /\ Added' = Added /\ Gone' = Gone
      BY <2>2 DEF Bounds, Added, Gone
    <3>2. Moved' = Moved \cup {e.old}
      BY <2>2, <3>1 DEF Moved, IInv, TypeOK
    <3>3. Targets' = Targets \cup {e.name}
      BY <2>1, <2>2, <3>2 DEF Targets, Moved, IInv, TypeOK
    <3> QED
      BY <3>1, <3>2, <3>3
  <2>5. Claimed'
    BY <2>1, <2>2, <2>4 DEF IInv, PlanInv, Claimed
  <2>6. Placed'
    <3>1. ASSUME NEW o \in Base, NEW n \in Names
          PROVE  objects'[n] = o <=> (o \notin Gone /\ n = NewName(o)')
      <4>1. objects[n] = o <=> (o \notin Gone /\ n = NewName(o))
        BY DEF IInv, PlanInv, Placed
      <4>2. CASE o = e.old
        <5>1. NewName(o)' = e.name
          BY <2>2, <2>4, <4>2 DEF NewName, IInv, TypeOK
        <5>2. objects'[n] = o <=> n = e.name
          <6>1. n # e.name /\ n # e.old => objects'[n] = objects[n]
            BY <2>2 DEF IInv, TypeOK
          <6>2. objects[n] = o => n = e.old
            BY <2>1, <4>1, <4>2 DEF NewName, Moved
          <6>3. objects'[e.name] = e.old /\ objects'[e.old] = None /\ None # e.old
            BY <2>1, <2>2 DEF IInv, TypeOK, Bounds
          <6> QED
            BY <4>2, <6>1, <6>2, <6>3
        <5> QED
          BY <2>1, <4>2, <5>1, <5>2
      <4>3. CASE o # e.old
        <5>1. NewName(o)' = NewName(o)
          BY <2>2, <4>3 DEF NewName, IInv, TypeOK
        <5>2. objects'[n] = o <=> objects[n] = o
          <6>1. n # e.name /\ n # e.old => objects'[n] = objects[n]
            BY <2>2 DEF IInv, TypeOK
          <6>2. objects'[e.name] = e.old /\ objects'[e.old] = None /\ None # o
            BY <2>1, <2>2 DEF IInv, TypeOK, Bounds
          <6> QED
            BY <2>1, <4>3, <6>1, <6>2
        <5> QED
          BY <4>1, <5>1, <5>2
      <4> QED
        BY <4>2, <4>3
    <3> QED
      BY <2>4, <3>1 DEF Placed
  <2>7. AddedStay'
    <3>1. ASSUME NEW a \in Aliases, made[a] # None
          PROVE  made[a] \in Added /\ (made[a] \notin Targets' => objects'[made[a]] = a)
      <4>1. made[a] \in Names /\ made[a] \in Added /\ (made[a] \notin Targets => objects[made[a]] = a)
        BY <3>1 DEF IInv, TypeOK, PlanInv, AddedStay
      <4>2. made[a] \notin Targets' => made[a] # e.name /\ made[a] # e.old
        BY <2>1, <2>4, <4>1 DEF Bounds
      <4> QED
        BY <2>2, <2>4, <4>1, <4>2 DEF IInv, TypeOK
    <3> QED
      BY <2>2, <2>4, <3>1 DEF AddedStay
  <2>8. AliasNamed'
    BY <2>2 DEF Bounds, IInv, TypeOK, PlanInv, AliasNamed
  <2> QED
    BY <2>2, <2>3, <2>5, <2>6, <2>7, <2>8, EntriesOnly DEF IInv, PlanInv
<1> QED
  BY <1>2, <1>3 DEF Rename

\* References are resolved when all entries are applied.
LEMMA OpenStep ==
  ASSUME Bounds, IInv, Open
  PROVE  IInv'
<1>1. PICK r \in Referrer :
        /\ ~r.edited => r.raw = r.base
        /\ referrer' = r
        /\ \/ /\ \A i \in DOMAIN r.raw : Resolvable(r.raw[i])
              /\ refs' = [i \in DOMAIN r.raw |-> Resolve(r.raw[i])]
              /\ todo' = Moved
              /\ pc' = "maintain"
           \/ pc' = "refused" /\ UNCHANGED <<refs, todo>>
  BY DEF Open
<1>2. left = {} /\ UNCHANGED <<patch, planVars>>
  BY DEF Open
<1>3. /\ PlanInv' /\ Moved' = Moved /\ Targets' = Targets /\ (Fresh' <=> Fresh)
  BY <1>2, PlanRests DEF IInv
<1>4. UNCHANGED <<patch, left, used, objects, made, renamed>>
  BY <1>2 DEF planVars
<1>5. CASE pc' = "refused" /\ UNCHANGED <<refs, todo>>
  <2>1. TypeOK'
    BY <1>1, <1>4, <1>5 DEF IInv, TypeOK
  <2>2. RefInv'
    BY <1>5 DEF RefInv, Resolving, Carries, KeptMembers, Final, Referring
  <2> QED
    BY <1>3, <2>1, <2>2 DEF IInv
<1>6. CASE /\ \A i \in DOMAIN r.raw : Resolvable(r.raw[i])
           /\ refs' = [i \in DOMAIN r.raw |-> Resolve(r.raw[i])]
           /\ todo' = Moved
           /\ pc' = "maintain"
  <2> DEFINE most == IF r.kind = "domain" THEN MaxRefs ELSE 1
  <2>1. /\ r.kind \in {"domain", "endpoint", "new"} /\ r.edited \in BOOLEAN
        /\ r.raw \in RefSeq(Refs, most) /\ most \in Nat \ {0}
    BY ReferrerFields DEF Bounds
  <2>2. refs' \in RefSeq(Names, most)
    <3>1. PICK k \in 0..most : r.raw \in [1..k -> Refs]
      BY <2>1, SeqMember
    <3>2. \A i \in 1..k : Resolve(r.raw[i]) \in Names
      BY <1>6, <3>1, ResolvesToName DEF IInv
    <3>3. refs' \in [1..k -> Names]
      BY <1>6, <3>1, <3>2
    <3> QED
      BY <2>1, <3>1, <3>3, SeqMember
  <2>3. refs' \in RefSeq(Names, MaxRefs)
    BY <2>1, <2>2, SeqGrow DEF Bounds
  <2>4. TypeOK'
    BY <1>1, <1>4, <1>6, <2>3 DEF IInv, TypeOK, Moved
  <2>5. Resolving'
    <3>1. \A i \in DOMAIN r.raw : Resolvable(r.raw[i])'
      BY <1>3, <1>4, <1>6 DEF Resolvable
    <3> QED
      BY <1>1, <1>2, <1>3, <1>4, <1>6, <2>2, <3>1 DEF Resolving
  <2>6. Carries'
    <3>1. \A i \in DOMAIN r.raw : Carried(r.raw[i])' = Resolve(r.raw[i])
      BY <1>3, <1>4, <1>6 DEF Carried, Resolve
    <3> QED
      BY <1>1, <1>6, <3>1 DEF Carries
  <2>7. KeptMembers' /\ Final'
    BY <1>3, <1>6 DEF KeptMembers, Final
  <2> QED
    BY <1>3, <2>4, <2>5, <2>6, <2>7 DEF IInv, RefInv
<1> QED
  BY <1>1, <1>5, <1>6

\* One rename is carried into the references, as far as they name what it
\* renames; if they name neither that nor its target, baseState did not
\* refer to it.
LEMMA RewriteStep ==
  ASSUME Bounds, IInv, pc = "maintain", NEW o \in todo, referrer.kind # "new",
         refs' = Rewrite(refs, o), todo' = todo \ {o},
         Fresh /\ o \in Range(referrer.base) => {o, renamed[o]} \cap Range(refs) # {},
         UNCHANGED <<patch, planVars, referrer, pc>>
  PROVE  IInv'
<1>1. /\ PlanInv' /\ Moved' = Moved /\ Targets' = Targets /\ (Fresh' <=> Fresh)
  BY PlanRests DEF IInv
<1>2. UNCHANGED <<patch, left, used, objects, made, renamed>>
  BY DEF planVars
<1>3. /\ o \in Moved /\ renamed[o] \in Names \cap Targets /\ o \in Base
  BY MovedPlaced DEF IInv, RefInv, Resolving, Referring, TypeOK
<1>4. Resolving
  BY DEF IInv, RefInv
<1> DEFINE most == IF referrer.kind = "domain" THEN MaxRefs ELSE 1
<1>5. PICK k \in 0..most : refs \in [1..k -> Names]
  <2>1. refs \in RefSeq(Names, most) /\ most \in Nat
    BY <1>4 DEF Resolving, Referring, Bounds
  <2> QED
    BY <2>1, SeqMember
<1>6. /\ refs' \in [1..k -> Names] /\ DOMAIN refs = 1..k /\ DOMAIN refs' = 1..k
      /\ \A i \in 1..k : refs'[i] = IF refs[i] = o THEN renamed[o] ELSE refs[i]
  BY <1>3, <1>5 DEF Rewrite
<1>7. refs' \in RefSeq(Names, most) /\ most \in Nat \ {0}
  BY <1>6, SeqMember DEF Bounds
<1>8. TypeOK'
  <2>1. refs' \in RefSeq(Names, MaxRefs)
    BY <1>7, SeqGrow DEF Bounds
  <2> QED
    BY <1>2, <2>1 DEF IInv, TypeOK
<1>9. Resolving'
  <2>1. \A i \in DOMAIN referrer.raw : Resolvable(referrer.raw[i])'
    BY <1>1, <1>2, <1>4 DEF Resolving, Referring, Resolvable
  <2> QED
    BY <1>1, <1>2, <1>4, <1>6, <1>7, <2>1 DEF Resolving, Referring
<1>10. Carries'
  <2>1. ASSUME Fresh, NEW i \in 1..k
        PROVE  refs'[i] = Carried(referrer.raw[i])'
    <3> DEFINE n == Resolve(referrer.raw[i])
    <3>1. refs[i] = IF n \in Moved \ todo THEN renamed[n] ELSE n
      BY <1>6, <2>1 DEF IInv, RefInv, Carries, Referring, Carried
    <3>2. Carried(referrer.raw[i])' = IF n \in Moved \ (todo \ {o}) THEN renamed[n] ELSE n
      BY <1>1, <1>2 DEF Carried, Resolve
    <3>3. n \in Moved => renamed[n] \in Targets
      BY DEF Targets
    <3>4. o \notin Targets
      BY <1>3, <2>1 DEF Fresh
    <3>5. refs'[i] = IF refs[i] = o THEN renamed[o] ELSE refs[i]
      BY <1>6
    <3> HIDE DEF n
    <3> QED
      BY <1>3, <3>1, <3>2, <3>3, <3>4, <3>5
  <2> QED
    BY <1>1, <1>6, <2>1 DEF Carries
<1>11. KeptMembers'
  <2>1. ASSUME Fresh, NEW q \in Range(referrer.base) \cap (Moved \ (todo \ {o}))
        PROVE  renamed[q] \in Range(refs')
    <3>1. renamed[q] \in Targets /\ renamed[q] # o
      BY <1>3, <2>1 DEF Targets, Fresh
    <3>2. CASE q = o
      <4>1. PICK i \in 1..k : refs[i] = o \/ refs[i] = renamed[o]
        BY <1>6, <2>1, <3>2 DEF Range
      <4>2. refs'[i] = renamed[o]
        BY <1>6, <4>1
      <4> QED
        BY <1>6, <3>2, <4>2 DEF Range
    <3>3. CASE q # o
      <4>1. PICK i \in 1..k : refs[i] = renamed[q]
        BY <1>6, <2>1, <3>3 DEF IInv, RefInv, KeptMembers, Referring, Range
      <4>2. refs'[i] = renamed[q]
        BY <1>6, <3>1, <4>1
      <4> QED
        BY <1>6, <4>2 DEF Range
    <3> QED
      BY <3>2, <3>3
  <2> QED
    BY <1>1, <1>2, <2>1 DEF KeptMembers
<1>12. Final'
  BY DEF Final
<1> QED
  BY <1>1, <1>8, <1>9, <1>10, <1>11, <1>12 DEF IInv, RefInv

\* What an unedited referrer refers to, and is yet to be renamed, is in its
\* references by its base name.
LEMMA Unedited ==
  ASSUME Bounds, IInv, pc = "maintain", NEW o \in todo, Fresh,
         ~referrer.edited, o \in Range(referrer.base)
  PROVE  o \in Range(refs)
<1>1. /\ o \in Base /\ referrer.raw = referrer.base /\ DOMAIN refs = DOMAIN referrer.raw
      /\ \A i \in DOMAIN refs : refs[i] = Carried(referrer.raw[i])
  BY DEF IInv, TypeOK, RefInv, Resolving, Carries, Referring
<1>2. PICK i \in DOMAIN refs : referrer.raw[i] = o
  BY <1>1 DEF Range
<1>3. Carried(o) = o
  BY <1>1 DEF Carried, Resolve, Bounds
<1> QED
  BY <1>1, <1>2, <1>3 DEF Range

LEMMA DomainStep ==
  ASSUME Bounds, IInv, pc = "maintain", NEW o \in todo, Domain(o)
  PROVE  IInv'
<1>1. CASE Refuse
  BY <1>1, Refused
<1>2. CASE ~Refuse
  <2>1. /\ referrer.kind = "domain" /\ Rewritten(o)
        /\ referrer.edited /\ o \in Range(referrer.base) => {o, renamed[o]} \cap Range(refs) # {}
    BY <1>2 DEF Domain
  <2>2. Fresh /\ ~referrer.edited /\ o \in Range(referrer.base) => o \in Range(refs)
    BY Unedited
  <2> QED
    BY <2>1, <2>2, RewriteStep DEF Rewritten
<1> QED
  BY <1>1, <1>2

LEMMA EndpointStep ==
  ASSUME Bounds, IInv, pc = "maintain", NEW o \in todo, Endpoint(o)
  PROVE  IInv'
<1>1. CASE Refuse
  BY <1>1, Refused
<1>2. CASE ~Refuse
  <2>1. /\ referrer.kind = "endpoint" /\ o \in Base
        /\ \/ refs = <<o>> /\ Rewritten(o)
           \/ /\ refs # <<o>> /\ Skipped(o)
              /\ referrer.base = <<o>> /\ referrer.edited => refs = <<renamed[o]>>
    BY <1>2 DEF Endpoint, IInv, TypeOK
  <2>2. PICK k \in 0..1 : refs \in [1..k -> Names]
    BY <2>1, SeqMember DEF IInv, RefInv, Resolving, Referring
  <2>3. o \in Range(refs) <=> refs = <<o>>
    <3>1. CASE k = 0
      BY <2>2, <3>1 DEF Range
    <3>2. CASE k = 1
      <4>1. refs = <<refs[1]>> /\ Range(refs) = {refs[1]}
        BY <2>2, <3>2 DEF Range
      <4> QED
        BY <4>1
    <3> QED
      BY <3>1, <3>2
  <2>4. o \in Range(referrer.base) => referrer.base = <<o>>
    <3>1. referrer \in Referrer
      BY DEF IInv, TypeOK
    <3>2. PICK j \in 0..1 : referrer.base \in [1..j -> Base]
      BY <2>1, <3>1, ReferrerFields, SeqMember
    <3>3. CASE j = 0
      BY <3>2, <3>3 DEF Range
    <3>4. CASE j = 1
      <4>1. referrer.base = <<referrer.base[1]>> /\ Range(referrer.base) = {referrer.base[1]}
        BY <3>2, <3>4 DEF Range
      <4> QED
        BY <4>1
    <3> QED
      BY <3>3, <3>4
  <2>5. CASE refs = <<o>> /\ Rewritten(o)
    BY <2>1, <2>3, <2>5, RewriteStep DEF Rewritten
  <2>6. CASE /\ refs # <<o>> /\ Skipped(o)
             /\ referrer.base = <<o>> /\ referrer.edited => refs = <<renamed[o]>>
    <3>1. refs = Rewrite(refs, o)
      BY <2>2, <2>3, <2>6 DEF Rewrite, Range
    <3>2. Fresh /\ ~referrer.edited /\ o \in Range(referrer.base) => o \in Range(refs)
      BY Unedited
    <3>3. refs = <<renamed[o]>> => renamed[o] \in Range(refs)
      BY DEF Range
    <3>4. Fresh /\ o \in Range(referrer.base) => {o, renamed[o]} \cap Range(refs) # {}
      BY <2>3, <2>4, <2>6, <3>2, <3>3
    <3> QED
      BY <2>1, <2>6, <3>1, <3>4, RewriteStep DEF Skipped
  <2> QED
    BY <2>1, <2>5, <2>6
<1> QED
  BY <1>1, <1>2

\* Without a base all renames are carried in at once, and none twice.
LEMMA LookupStep ==
  ASSUME Bounds, IInv, Lookup
  PROVE  IInv'
<1>1. /\ pc = "maintain" /\ referrer.kind = "new" /\ todo' = {} /\ todo # {}
      /\ refs' = [i \in DOMAIN refs |-> IF refs[i] \in Moved THEN renamed[refs[i]] ELSE refs[i]]
      /\ UNCHANGED <<patch, planVars, referrer, pc>>
  BY DEF Lookup
<1>2. /\ PlanInv' /\ Moved' = Moved /\ Targets' = Targets /\ (Fresh' <=> Fresh)
  BY <1>1, PlanRests DEF IInv
<1>3. UNCHANGED <<patch, left, used, objects, made, renamed>>
  BY <1>1 DEF planVars
<1>4. Resolving /\ todo = Moved
  BY <1>1 DEF IInv, RefInv, Resolving, Referring
<1>5. PICK k \in 0..1 : refs \in [1..k -> Names]
  BY <1>1, <1>4, SeqMember DEF Resolving, Referring
<1>6. refs' \in [1..k -> Names] /\ DOMAIN refs = 1..k /\ DOMAIN refs' = 1..k
  <2>1. \A o \in Moved : renamed[o] \in Names
    BY MovedPlaced DEF IInv
  <2> QED
    BY <1>1, <1>5, <2>1
<1>7. refs' \in RefSeq(Names, 1)
  BY <1>6, SeqMember
<1>8. TypeOK'
  <2>1. refs' \in RefSeq(Names, MaxRefs)
    BY <1>7, SeqGrow DEF Bounds
  <2> QED
    BY <1>1, <1>3, <2>1 DEF IInv, TypeOK
<1>9. Resolving'
  <2>1. \A i \in DOMAIN referrer.raw : Resolvable(referrer.raw[i])'
    BY <1>1, <1>2, <1>3, <1>4 DEF Resolving, Referring, Resolvable
  <2> QED
    BY <1>1, <1>2, <1>3, <1>4, <1>6, <1>7, <2>1 DEF Resolving, Referring
<1>10. Carries'
  <2>1. ASSUME NEW i \in 1..k
        PROVE  refs'[i] = Carried(referrer.raw[i])'
    <3>1. refs[i] = Resolve(referrer.raw[i])
      BY <1>1, <1>4, <1>6 DEF IInv, RefInv, Carries, Referring, Carried
    <3>2. refs'[i] = IF refs[i] \in Moved THEN renamed[refs[i]] ELSE refs[i]
      BY <1>1, <1>6
    <3> QED
      BY <1>1, <1>2, <1>3, <3>1, <3>2 DEF Carried, Resolve
  <2> QED
    BY <1>1, <1>6, <2>1 DEF Carries
<1>11. KeptMembers'
  <2>1. Range(referrer.base) = {}
    BY <1>1, ReferrerFields DEF IInv, TypeOK, Range
  <2> QED
    BY <1>1, <2>1 DEF KeptMembers
<1>12. Final'
  BY <1>1 DEF Final
<1> QED
  BY <1>2, <1>8, <1>9, <1>10, <1>11, <1>12 DEF IInv, RefInv

\* A plan is accepted when every reference is to a planned Object.
LEMMA ValidateStep ==
  ASSUME Bounds, IInv, Validate
  PROVE  IInv'
<1>1. /\ pc = "maintain" /\ todo = {} /\ pc' \in {"done", "refused"}
      /\ pc' = "done" => \A i \in DOMAIN refs : objects[refs[i]] # None
      /\ UNCHANGED <<patch, planVars, referrer, refs, todo>>
  BY DEF Validate
<1>2. /\ PlanInv' /\ Moved' = Moved /\ Targets' = Targets /\ (Fresh' <=> Fresh)
  BY <1>1, PlanRests DEF IInv
<1>3. UNCHANGED <<patch, left, used, objects, made, renamed>>
  BY <1>1 DEF planVars
<1>4. TypeOK'
  BY <1>1, <1>3 DEF IInv, TypeOK
<1>5. Resolving'
  <2>1. \A r : Resolvable(r)' <=> Resolvable(r)
    BY <1>2, <1>3 DEF Resolvable
  <2> QED
    BY <1>1, <1>2, <1>3, <2>1 DEF IInv, RefInv, Resolving, Referring
<1>6. Carries'
  <2>1. \A r : Carried(r)' = Carried(r)
    BY <1>1, <1>2, <1>3 DEF Carried, Resolve
  <2> QED
    BY <1>1, <1>2, <2>1 DEF IInv, RefInv, Carries, Referring
<1>7. KeptMembers' /\ Final'
  BY <1>1, <1>2, <1>3 DEF IInv, RefInv, KeptMembers, Final, Referring
<1> QED
  BY <1>2, <1>4, <1>5, <1>6, <1>7 DEF IInv, RefInv

\* Every step of the planner keeps the invariant.
LEMMA Inductive ==
  ASSUME Bounds, IInv, [Next]_vars
  PROVE  IInv'
<1>1. CASE ApplyEntry
  BY <1>1, AddStep, DeleteStep, UpdateStep, RenameStep DEF ApplyEntry
<1>2. CASE Open
  BY <1>2, OpenStep
<1>3. CASE Maintain
  BY <1>3, DomainStep, EndpointStep DEF Maintain
<1>4. CASE Lookup
  BY <1>4, LookupStep
<1>5. CASE Validate
  BY <1>5, ValidateStep
<1>6. CASE UNCHANGED vars
  <2>1. UNCHANGED <<patch, planVars, left, used, objects, made, renamed, referrer, refs, todo, pc>>
    BY <1>6 DEF vars, planVars
  <2>2. PlanInv' /\ Moved' = Moved /\ Targets' = Targets /\ (Fresh' <=> Fresh)
    BY <2>1, PlanRests DEF IInv
  <2>3. (\A r : Resolvable(r)' <=> Resolvable(r)) /\ (\A r : Carried(r)' = Carried(r))
    BY <2>1, <2>2 DEF Resolvable, Carried, Resolve
  <2> QED
    BY <2>1, <2>2, <2>3 DEF IInv, TypeOK, RefInv, Resolving, Carries, KeptMembers, Final, Referring
<1> QED
  BY <1>1, <1>2, <1>3, <1>4, <1>5, <1>6 DEF Next

-----------------------------------------------------------------------------
(* What the invariant gives.                                               *)

\* An entry that deletes is the only one that makes a base Definition go.
LEMMA BaseKept ==
  ASSUME Bounds, IInv
  PROVE  KeepsBaseObjects
<1> SUFFICES ASSUME pc = "done", NEW o \in Base
             PROVE  Cardinality({n \in Names : objects[n] = o}) = (IF o \in Deleted THEN 0 ELSE 1)
  BY DEF KeepsBaseObjects, Accepted
<1>1. o \in Deleted <=> o \in Gone
  <2>1. left = {}
    BY DEF IInv, RefInv, Resolving, Referring
  <2> QED
    BY <2>1 DEF Deleted, Gone
<1>2. CASE o \in Deleted
  <2>1. {n \in Names : objects[n] = o} = {}
    BY <1>1, <1>2 DEF IInv, PlanInv, Placed
  <2> QED
    BY <1>2, <2>1, FS_EmptySet
<1>3. CASE o \notin Deleted
  <2>1. NewName(o) \in Names
    BY DEF NewName, IInv, TypeOK, Bounds
  <2>2. {n \in Names : objects[n] = o} = {NewName(o)}
    BY <1>1, <1>3, <2>1 DEF IInv, PlanInv, Placed
  <2> QED
    BY <1>3, <2>2, FS_Singleton
<1> QED
  BY <1>2, <1>3

\* What a name of baseState or of a rename denotes.
LEMMA TargetDenotes ==
  ASSUME Bounds, IInv, NEW o \in Moved, renamed[o] \notin Base
  PROVE  Denotes(renamed[o]) = o
<1>1. renamed[o] \notin Aliases \cup Base
  BY MovedPlaced DEF IInv, Bounds
<1>2. \A q \in Moved : renamed[q] = renamed[o] => q = o
  BY TargetsDiffer DEF IInv
<1> QED
  BY <1>1, <1>2 DEF Denotes

\* An accepted reference is to the Object it denotes if the added name it
\* stands for was not taken over, and a name of baseState that no rename
\* gave away was not given to another Object.
LEMMA ReferenceFollows ==
  ASSUME Bounds, IInv, pc = "done", NEW i \in DOMAIN refs,
         Fresh \/ referrer.kind = "new",
         Added \cap (Base \cup Targets) = {}, Targets \cap (Base \ Moved) \subseteq Base \ Deleted
  PROVE  objects[refs[i]] = Denotes(referrer.raw[i])
<1> DEFINE r == referrer.raw[i]
<1>1. /\ todo = {} /\ left = {} /\ objects[refs[i]] # None /\ i \in DOMAIN referrer.raw
      /\ Resolvable(r) /\ refs[i] = Carried(r)
  BY DEF IInv, RefInv, Resolving, Carries, Final, Referring
<1>2. Carried(r) = IF Resolve(r) \in Moved THEN renamed[Resolve(r)] ELSE Resolve(r)
  BY <1>1 DEF Carried
<1>3. CASE r \in Aliases
  <2>1. Resolve(r) = made[r] /\ made[r] # None
    BY <1>1, <1>3 DEF Resolve, Resolvable
  <2>2. made[r] \notin Base /\ made[r] \notin Targets /\ objects[made[r]] = r
    BY <1>3, <2>1 DEF IInv, PlanInv, AddedStay
  <2> QED
    BY <1>1, <1>2, <1>3, <2>1, <2>2 DEF Denotes, Moved
<1>4. CASE r \notin Aliases /\ r \in Moved
  <2>1. Resolve(r) = r /\ r \in Base
    BY <1>4 DEF Resolve, Moved
  <2> QED
    BY <1>1, <1>2, <1>4, <2>1, MovedPlaced DEF Denotes, IInv
<1>5. CASE r \notin Aliases /\ r \in Base \ Moved
  <2>1. refs[i] = r /\ Denotes(r) = r /\ r \in Names
    BY <1>1, <1>2, <1>5 DEF Resolve, Denotes, Bounds
  <2>2. objects[r] \in Base
    <3>1. objects[r] \in Aliases => r \in Added
      BY <2>1 DEF IInv, PlanInv, AliasNamed, AddedStay, Bounds
    <3> QED
      BY <1>1, <1>5, <2>1, <3>1 DEF IInv, TypeOK
  <2>3. r = NewName(objects[r]) /\ objects[r] \notin Gone
    BY <2>1, <2>2 DEF IInv, PlanInv, Placed
  <2>4. CASE objects[r] \in Moved
    <3>1. r \in Targets
      BY <2>3, <2>4 DEF NewName, Targets, Moved
    <3>2. r \notin Gone
      BY <1>1, <1>5, <3>1 DEF Gone, Deleted
    <3>3. NewName(r) = r
      BY <1>5 DEF NewName, Moved
    <3> QED
      BY <1>5, <2>1, <3>2, <3>3 DEF IInv, PlanInv, Placed
  <2>5. CASE objects[r] \notin Moved
    BY <2>1, <2>2, <2>3, <2>5 DEF NewName, Moved
  <2> QED
    BY <2>4, <2>5
<1>6. CASE r \notin Aliases /\ r \notin Base
  <2>1. r \in Targets
    BY <1>1, <1>6 DEF Resolvable
  <2>2. PICK o \in Moved : renamed[o] = r
    BY <2>1 DEF Targets
  <2>3. Resolve(r) = r /\ r \notin Moved
    BY <1>6 DEF Resolve, Moved
  <2> QED
    BY <1>1, <1>2, <1>6, <2>2, <2>3, MovedPlaced, TargetDenotes DEF IInv
<1> QED
  BY <1>3, <1>4, <1>5, <1>6

LEMMA FreshFollows ==
  ASSUME Bounds, IInv
  PROVE  FollowsWhenFresh
  BY ReferenceFollows DEF FollowsWhenFresh, Follows, Fresh, Accepted

LEMMA NewFollows ==
  ASSUME Bounds, IInv
  PROVE  LookupFollows
  BY ReferenceFollows DEF LookupFollows, Follows, Accepted

LEMMA RenamedStay ==
  ASSUME Bounds, IInv
  PROVE  RenamedStayReferenced
<1> SUFFICES ASSUME pc = "done", Fresh, NEW o \in Range(referrer.base) \cap Moved
             PROVE  \E i \in DOMAIN refs : objects[refs[i]] = o
  BY DEF RenamedStayReferenced, Accepted
<1>1. renamed[o] \in Range(refs)
  BY DEF IInv, RefInv, KeptMembers, Final, Referring
<1> QED
  BY <1>1, MovedPlaced DEF Range, IInv

\* The invariant of the planner (applyEntry, resolveDerivedReferences).
THEOREM Invariance ==
  ASSUME Bounds
  PROVE  Spec => []IInv
<1>1. Init => IInv
  BY Initially
<1>2. IInv /\ [Next]_vars => IInv'
  BY Inductive
<1> QED
  BY <1>1, <1>2, PTL DEF Spec

\* The planner of an Ontology Patch overwrites no Definition of baseState, and
\* references follow theirs (planPatch).
THEOREM PlannerKeeps ==
  ASSUME Bounds
  PROVE  Spec => [](KeepsBaseObjects /\ FollowsWhenFresh /\ LookupFollows /\ RenamedStayReferenced)
<1>1. IInv => KeepsBaseObjects /\ FollowsWhenFresh /\ LookupFollows /\ RenamedStayReferenced
  BY BaseKept, FreshFollows, NewFollows, RenamedStay
<1> QED
  BY <1>1, Invariance, PTL

=============================================================================
