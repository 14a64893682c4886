--------------------------- MODULE Evolution_proofs ---------------------------
(***************************************************************************)
(* The kernel loses no update, lets no operation but raw execution make or *)
(* adopt an inconsistent State, and moves its branches like an atomic      *)
(* history, for every number of callers, branches, tags and sessions.      *)
(*                                                                         *)
(* The argument: what an operation pinned stays true of the immutable      *)
(* States it names; the store compares the pin when it writes; and while a *)
(* Patch stages, the single writer keeps every other write away.           *)
(***************************************************************************)
EXTENDS Evolution, SequenceTheorems, TLAPS

\* A State is its own ancestor, in the sense of Reaches, and its parents exist.
Ancestry == \A c \in Commits : c \in dag[c].past /\ dag[c].parents \subseteq Commits

\* TypeOK in two parts: the store's and the callers'.
StoreTypes ==
  /\ dag \in Seq(CommitRecord) /\ Len(dag) \in 1..MaxCommits
  /\ head \in [Branches -> Commits \cup {None}]
  /\ tag \in [Tags -> Commits \cup {None}]
  /\ session \in [Sessions -> SessionRecord]
  /\ \A s \in Sessions : session[s].status # "unused" =>
       {session[s].ours, session[s].theirs} \subseteq Commits
ControlTypes ==
  /\ writer \in Procs \cup {None}
  /\ pc \in [Procs -> Steps]
  /\ op \in [Procs -> Pin]

Store == StoreTypes /\ Ancestry /\ NothingOutdated /\ KernelKeepsValid /\ RefsStayValid

\* What a caller carries exists.
PinsExist(p) ==
  /\ {op[p].base, op[p].other} \subseteq Commits
  /\ pc[p] \in {"newtag", "movetag"} => op[p].tag \in Tags
  /\ pc[p] \in {"resolve", "candidate", "finalize"} => op[p].session \in Sessions

\* What was checked before the write: the States that were pinned ...
PinsValid(p) ==
  /\ pc[p] \in {"planned", "staging", "stamp", "source", "start", "newbranch", "newtag", "movetag"} =>
       Valid(op[p].base)
  /\ pc[p] = "start" => Valid(op[p].other)

\* ... and a session: its two States, and its candidate as long as the session
\* has the revision that was checked.  Revisions only grow, so that a revision
\* once passed is never compared equal again.
SessionPinned(p) ==
  pc[p] \in {"resolve", "candidate", "finalize"} =>
    LET s == session[op[p].session]
    IN /\ s.status # "unused" /\ Valid(s.ours) /\ Valid(s.theirs)
       /\ op[p].revision <= s.revision
       /\ pc[p] = "finalize" /\ op[p].revision = s.revision => s.good

\* The caller that stages owns the writer, and nobody else does.
WriterStages(p) == writer = p <=> pc[p] = "staging"

\* What it stages is relative to the head.
OnHead(p) == pc[p] = "staging" => head[op[p].branch] = op[p].base

Caller(p) ==
  PinsExist(p) /\ PinsValid(p) /\ SessionPinned(p) /\ WriterStages(p) /\ OnHead(p)

IInv == Store /\ ControlTypes /\ \A p \in Procs : Caller(p)

-----------------------------------------------------------------------------
(* What steps have in common.                                              *)

\* States are immutable and are never removed.
Kept == \A c \in Commits : c \in Commits' /\ dag'[c] = dag[c]

\* A session keeps its States, and its candidate changes with its revision.
SessionsKept ==
  \A s \in Sessions :
    session[s].status # "unused" =>
      /\ session'[s].status # "unused"
      /\ session'[s].ours = session[s].ours /\ session'[s].theirs = session[s].theirs
      /\ \/ session'[s].revision = session[s].revision /\ session'[s].good = session[s].good
         \/ session'[s].revision = session[s].revision + 1

\* The step is somebody else's, and moves no branch while q stages.
Apart(q) ==
  /\ op'[q] = op[q] /\ pc'[q] = pc[q]
  /\ writer' = q <=> writer = q
  /\ writer = q => UNCHANGED head

\* A step that creates no State keeps them, and likewise sessions.
LEMMA Same ==
  /\ UNCHANGED dag => Kept
  /\ StoreTypes /\ UNCHANGED session => SessionsKept
  /\ Store /\ UNCHANGED store => Store'
<1>1. UNCHANGED dag => Kept
  BY DEF Kept, Commits
<1>2. StoreTypes /\ UNCHANGED session => SessionsKept
  BY BoundAssumption DEF SessionsKept, StoreTypes, SessionRecord
<1>3. Store /\ UNCHANGED store => Store'
  BY DEF Store, store, StoreTypes, Ancestry, NothingOutdated, KernelKeepsValid, RefsStayValid,
    Commits, Valid, Exists
<1> QED
  BY <1>1, <1>2, <1>3

\* What a caller that the step is not about carries, stays what it was.
LEMMA ApartKeeps ==
  ASSUME IInv, NEW q \in Procs, Apart(q), Kept, SessionsKept
  PROVE  Caller(q)'
<1> USE DEF IInv, Apart, Kept
<1>1. PinsExist(q)'
  BY DEF Caller, PinsExist
<1>2. PinsValid(q)'
  BY DEF Caller, PinsExist, PinsValid, Valid
<1>3. SessionPinned(q)'
  <2> SUFFICES ASSUME pc[q] \in {"resolve", "candidate", "finalize"}
               PROVE  SessionPinned(q)'
    BY DEF SessionPinned
  <2> DEFINE s == op[q].session
  <2>1. s \in Sessions /\ session[s].status # "unused" /\ Valid(session[s].ours) /\ Valid(session[s].theirs)
        /\ op[q].revision <= session[s].revision
        /\ (pc[q] = "finalize" /\ op[q].revision = session[s].revision => session[s].good)
    BY DEF Caller, PinsExist, SessionPinned
  <2>2. session[s].ours \in Commits /\ session[s].theirs \in Commits
    BY <2>1 DEF Store, StoreTypes
  <2>3. /\ session'[s].status # "unused"
        /\ session'[s].ours = session[s].ours /\ session'[s].theirs = session[s].theirs
        /\ \/ session'[s].revision = session[s].revision /\ session'[s].good = session[s].good
           \/ session'[s].revision = session[s].revision + 1
    BY <2>1 DEF SessionsKept
  <2>4. op[q].revision \in Nat /\ session[s].revision \in Nat
    BY <2>1, BoundAssumption DEF Store, StoreTypes, SessionRecord, ControlTypes, Pin
  <2> QED
    BY <2>1, <2>2, <2>3, <2>4 DEF SessionPinned, Valid
<1>4. WriterStages(q)' /\ OnHead(q)'
  BY DEF Caller, WriterStages, OnHead
<1> QED
  BY <1>1, <1>2, <1>3, <1>4 DEF Caller

\* A caller that is done carries nothing that could go stale.
LEMMA IdleKeeps ==
  ASSUME IInv, NEW p \in Procs, Kept, pc'[p] = "idle", op'[p] = NoPin, writer' # p
  PROVE  Caller(p)'
<1>1. 1 \in Commits'
  BY DEF IInv, Store, StoreTypes, Commits, Kept
<1> QED
  BY <1>1 DEF Caller, PinsExist, PinsValid, SessionPinned, WriterStages, OnHead, NoPin

-----------------------------------------------------------------------------
(* Steps that read.                                                        *)

Reads(p) ==
  \/ PatchPlan(p) \/ StatePin(p) \/ MergePinTarget(p) \/ MergePinSource(p)
  \/ ResolvePin(p) \/ FinalizePin(p) \/ CandidateCheck(p) \/ RefPin(p)

\* What is pinned is a pin, names what exists and was checked.
LEMMA ReadPins ==
  ASSUME IInv, NEW p \in Procs, Reads(p)
  PROVE  /\ UNCHANGED <<store, writer>> /\ pc[p] # "staging"
         /\ \E l \in Steps \ {"staging"}, pin \in Pin :
              pc' = [pc EXCEPT ![p] = l] /\ op' = [op EXCEPT ![p] = pin]
         /\ PinsExist(p)' /\ PinsValid(p)' /\ SessionPinned(p)'
<1> USE DEF IInv, Goto, store
<1>1. /\ NoPin \in Pin /\ op[p] \in Pin
      /\ 1 \in Commits /\ Commits \subseteq Ids
  BY BranchAssumption, BoundAssumption DEF NoPin, Pin, Ids, Store, StoreTypes, Commits, ControlTypes
<1>2. \A b \in Branches : Exists(b) => head[b] \in Commits
  BY DEF Store, StoreTypes, Exists
<1>3. CASE PatchPlan(p) \/ StatePin(p) \/ MergePinTarget(p)
  <2>1. PICK b \in Branches, l \in {"planned", "stamp", "source"} :
          /\ Exists(b) /\ Valid(head[b]) /\ pc[p] = "idle"
          /\ pc' = [pc EXCEPT ![p] = l]
          /\ op' = [op EXCEPT ![p] = [NoPin EXCEPT !.branch = b, !.base = head[b]]]
          /\ UNCHANGED <<store, writer>>
    BY <1>3 DEF PatchPlan, StatePin, MergePinTarget
  <2> DEFINE pin == [NoPin EXCEPT !.branch = b, !.base = head[b]]
  <2>2. /\ pin \in Pin /\ pin.base = head[b] /\ pin.other = 1
    BY <1>1, <1>2, <2>1 DEF NoPin, Pin
  <2>3. pc'[p] = l /\ op'[p] = pin /\ l \in Steps \ {"staging"}
    BY <2>1 DEF ControlTypes, Steps
  <2> HIDE DEF pin
  <2>4. PinsExist(p)' /\ PinsValid(p)' /\ SessionPinned(p)'
    BY <1>1, <1>2, <2>1, <2>2, <2>3 DEF PinsExist, PinsValid, SessionPinned, Valid, Commits
  <2> QED
    BY <2>1, <2>2, <2>3, <2>4 DEF pin
<1>4. CASE MergePinSource(p)
  <2>1. PICK c \in Commits :
          /\ Valid(c) /\ pc[p] = "source"
          /\ pc' = [pc EXCEPT ![p] = "start"]
          /\ op' = [op EXCEPT ![p].other = c]
          /\ UNCHANGED <<store, writer>>
    BY <1>4 DEF MergePinSource
  <2> DEFINE pin == [op[p] EXCEPT !.other = c]
  <2>2. /\ pin \in Pin /\ pin.base = op[p].base /\ pin.other = c
    BY <1>1, <2>1 DEF Pin
  <2>3. pc'[p] = "start" /\ op' = [op EXCEPT ![p] = pin] /\ op'[p] = pin
    BY <2>1 DEF ControlTypes
  <2> HIDE DEF pin
  <2>4. PinsExist(p)' /\ PinsValid(p)' /\ SessionPinned(p)'
    BY <1>1, <2>1, <2>2, <2>3 DEF Caller, PinsExist, PinsValid, SessionPinned, Valid, Commits
  <2> QED
    BY <2>1, <2>2, <2>3, <2>4 DEF Steps
<1>5. CASE ResolvePin(p) \/ FinalizePin(p)
  <2>1. PICK s \in Sessions, l \in {"resolve", "candidate"} :
          /\ PinSession(p, s) /\ pc[p] = "idle"
          /\ pc' = [pc EXCEPT ![p] = l]
          /\ UNCHANGED <<store, writer>>
    BY <1>5 DEF ResolvePin, FinalizePin
  <2>2. PICK r \in 1..MaxRevision : r = session[s].revision
    BY DEF Store, StoreTypes, SessionRecord
  <2> DEFINE pin == [NoPin EXCEPT !.session = s, !.revision = r]
  <2>3. /\ op' = [op EXCEPT ![p] = pin] /\ pin \in Pin /\ r \in Nat
        /\ pin.base = 1 /\ pin.other = 1 /\ pin.session = s /\ pin.revision = r
    <3>1. op' = [op EXCEPT ![p] = pin]
      BY <2>1, <2>2 DEF PinSession
    <3>2. pin \in Pin /\ pin.base = 1 /\ pin.other = 1 /\ pin.session = s /\ pin.revision = r
      BY <1>1 DEF Pin, NoPin
    <3> QED
      BY <3>1, <3>2, BoundAssumption
  <2> HIDE DEF pin
  <2>4. pc'[p] = l /\ op'[p] = pin
    BY <2>1, <2>3 DEF ControlTypes
  <2>5. PinsExist(p)' /\ PinsValid(p)'
    BY <1>1, <2>1, <2>3, <2>4 DEF PinsExist, PinsValid, Commits
  <2>6. SessionPinned(p)'
    BY <2>1, <2>2, <2>3, <2>4 DEF SessionPinned, PinSession, Valid
  <2> QED
    BY <2>1, <2>3, <2>5, <2>6 DEF Steps
<1>6. CASE CandidateCheck(p)
  <2>1. /\ pc[p] = "candidate" /\ pc' = [pc EXCEPT ![p] = "finalize"]
        /\ pc'[p] = "finalize"
        /\ UNCHANGED <<store, writer, op>> /\ session[op[p].session].good
    BY <1>6 DEF CandidateCheck, ControlTypes
  <2>2. op' = [op EXCEPT ![p] = op[p]]
    BY <2>1 DEF ControlTypes
  <2>3. PinsExist(p)' /\ PinsValid(p)' /\ SessionPinned(p)'
    BY <2>1 DEF Caller, PinsExist, PinsValid, SessionPinned, Valid, Commits
  <2> QED
    BY <1>1, <2>1, <2>2, <2>3 DEF Steps
<1>7. CASE RefPin(p)
  <2>1. PICK c \in Commits, l \in {"newbranch", "newtag", "movetag"}, pin \in Pin :
          /\ Valid(c) /\ pc[p] = "idle"
          /\ pc' = [pc EXCEPT ![p] = l] /\ op' = [op EXCEPT ![p] = pin]
          /\ pin.base = c /\ pin.other = 1 /\ (l \in {"newtag", "movetag"} => pin.tag \in Tags)
          /\ UNCHANGED <<store, writer>>
    <3>1. PICK c \in Commits :
            /\ Valid(c) /\ pc[p] = "idle" /\ UNCHANGED <<store, writer>>
            /\ \/ \E b \in Branches :
                    /\ op' = [op EXCEPT ![p] = [NoPin EXCEPT !.branch = b, !.base = c]]
                    /\ pc' = [pc EXCEPT ![p] = "newbranch"]
               \/ \E t \in Tags, l \in {"newtag", "movetag"} :
                    /\ op' = [op EXCEPT ![p] = [NoPin EXCEPT !.tag = t, !.base = c]]
                    /\ pc' = [pc EXCEPT ![p] = l]
      BY <1>7 DEF RefPin
    <3>2. CASE \E b \in Branches :
                 /\ op' = [op EXCEPT ![p] = [NoPin EXCEPT !.branch = b, !.base = c]]
                 /\ pc' = [pc EXCEPT ![p] = "newbranch"]
      <4>1. PICK b \in Branches :
              /\ op' = [op EXCEPT ![p] = [NoPin EXCEPT !.branch = b, !.base = c]]
              /\ pc' = [pc EXCEPT ![p] = "newbranch"]
        BY <3>2
      <4> DEFINE pin == [NoPin EXCEPT !.branch = b, !.base = c]
      <4>2. pin \in Pin /\ pin.base = c /\ pin.other = 1
        BY <1>1 DEF Pin, NoPin
      <4> HIDE DEF pin
      <4> QED
        BY <3>1, <4>1, <4>2 DEF pin
    <3>3. CASE \E t \in Tags, l \in {"newtag", "movetag"} :
                 /\ op' = [op EXCEPT ![p] = [NoPin EXCEPT !.tag = t, !.base = c]]
                 /\ pc' = [pc EXCEPT ![p] = l]
      <4>1. PICK t \in Tags, l \in {"newtag", "movetag"} :
              /\ op' = [op EXCEPT ![p] = [NoPin EXCEPT !.tag = t, !.base = c]]
              /\ pc' = [pc EXCEPT ![p] = l]
        BY <3>3
      <4> DEFINE pin == [NoPin EXCEPT !.tag = t, !.base = c]
      <4>2. pin \in Pin /\ pin.base = c /\ pin.other = 1 /\ pin.tag = t
        BY <1>1 DEF Pin, NoPin
      <4> HIDE DEF pin
      <4> QED
        BY <3>1, <4>1, <4>2 DEF pin
    <3> QED
      BY <3>1, <3>2, <3>3
  <2>2. pc'[p] = l /\ op'[p] = pin /\ l \in Steps \ {"staging"}
    BY <2>1 DEF ControlTypes, Steps
  <2>3. PinsExist(p)' /\ PinsValid(p)' /\ SessionPinned(p)'
    BY <1>1, <2>1, <2>2 DEF PinsExist, PinsValid, SessionPinned, Valid, Commits
  <2> QED
    BY <2>1, <2>2, <2>3
<1> QED
  BY <1>3, <1>4, <1>5, <1>6, <1>7 DEF Reads

LEMMA ReadsKeep ==
  ASSUME IInv, NEW p \in Procs, Reads(p)
  PROVE  IInv'
<1>1. /\ UNCHANGED <<store, writer>> /\ pc[p] # "staging"
      /\ PinsExist(p)' /\ PinsValid(p)' /\ SessionPinned(p)'
  BY ReadPins
<1>2. PICK l \in Steps \ {"staging"}, pin \in Pin :
        pc' = [pc EXCEPT ![p] = l] /\ op' = [op EXCEPT ![p] = pin]
  BY ReadPins
<1>3. Store' /\ Kept /\ SessionsKept
  BY <1>1, Same DEF IInv, store, Store
<1>4. ControlTypes'
  BY <1>1, <1>2 DEF IInv, ControlTypes
<1>5. Caller(p)'
  BY <1>1, <1>2 DEF IInv, Caller, WriterStages, OnHead, ControlTypes
<1>6. \A q \in Procs \ {p} : Caller(q)'
  <2>1. \A q \in Procs \ {p} : Apart(q)
    BY <1>1, <1>2 DEF Apart, IInv, ControlTypes, store
  <2> QED
    BY <1>3, <2>1, ApartKeeps
<1> QED
  BY <1>3, <1>4, <1>5, <1>6 DEF IInv

-----------------------------------------------------------------------------
(* Steps that write.                                                       *)

\* What Grow does: one State more, on the head of b, and b moves to it.
Grows(b, others, basis, valid, raw) ==
  LET new == Len(dag) + 1
  IN  /\ dag' \in Seq(CommitRecord) /\ Len(dag') = new /\ new \in 1..MaxCommits
      /\ Commits' = Commits \cup {new} /\ new \notin Commits
      /\ Kept
      /\ dag'[new].parents = {head[b]} \cup others
      /\ dag'[new].past = {new} \cup UNION {dag[q].past : q \in {head[b]} \cup others}
      /\ dag'[new].basis = basis /\ dag'[new].valid = valid /\ dag'[new].raw = raw
      /\ head' = [head EXCEPT ![b] = new]
      /\ SubSeq(dag', 1, Len(dag)) = dag
      /\ head[b] \in Commits

LEMMA Grown ==
  ASSUME Store, NEW b \in Branches, Exists(b), NEW others \in SUBSET Commits,
         NEW basis \in SUBSET Commits, NEW valid \in BOOLEAN,
         NEW raw \in Branches \cup {None}, Grow(b, others, basis, valid, raw)
  PROVE  Grows(b, others, basis, valid, raw)
<1> DEFINE parents == {head[b]} \cup others
           new == Len(dag) + 1
           past == {new} \cup UNION {dag[q].past : q \in parents}
           record == [parents |-> parents, past |-> past, basis |-> basis,
                      valid |-> valid, raw |-> raw]
<1>1. /\ dag \in Seq(CommitRecord) /\ Len(dag) < MaxCommits /\ Len(dag) \in Nat
      /\ Commits = 1..Len(dag) /\ MaxCommits \in Nat
      /\ dag' = Append(dag, record) /\ head' = [head EXCEPT ![b] = new]
  BY BoundAssumption DEF Store, StoreTypes, Grow, Commits
<1>2. head[b] \in Commits
  BY DEF Store, StoreTypes, Exists
<1>3. Commits \subseteq Ids /\ new \in Ids
  BY <1>1 DEF Ids
<1>4. past \subseteq Ids
  <2>1. \A c \in Commits : dag[c].past \subseteq Ids
    <3>1. \A c \in Commits : dag[c] \in CommitRecord
      BY <1>1, ElementOfSeq
    <3> QED
      BY <3>1 DEF CommitRecord
  <2> QED
    BY <1>2, <1>3, <2>1
<1>5. record \in CommitRecord
  BY <1>2, <1>3, <1>4 DEF CommitRecord
<1> HIDE DEF record
<1>6. /\ dag' \in Seq(CommitRecord) /\ Len(dag') = new
      /\ \A c \in 1..Len(dag) : dag'[c] = dag[c]
      /\ dag'[new] = record
  BY <1>1, <1>5, AppendProperties
<1>7. Commits' = Commits \cup {new} /\ new \notin Commits /\ new \in 1..MaxCommits
  BY <1>1, <1>6 DEF Commits
<1>8. Kept
  BY <1>1, <1>6, <1>7 DEF Kept
<1>9. SubSeq(dag', 1, Len(dag)) = dag
  <2>1. dag' = dag \o <<record>>
    BY <1>1, <1>5, AppendIsConcat
  <2>2. SubSeq(dag \o <<record>>, 1, Len(dag)) = SubSeq(dag, 1, Len(dag))
    BY <1>1, <1>5, SubSeqOfConcat1
  <2> QED
    BY <1>1, <2>1, <2>2, SubSeqFull
<1> QED
  BY <1>1, <1>2, <1>6, <1>7, <1>8, <1>9 DEF record, Grows

\* Growing keeps the store consistent when the State is made of what it was
\* checked against, and is valid of valid States unless raw execution made it.
LEMMA GrowKeepsStore ==
  ASSUME Store, NEW b \in Branches, Exists(b), NEW others \in SUBSET Commits,
         NEW valid \in BOOLEAN, NEW raw \in {b, None},
         Grow(b, others, {head[b]} \cup others, valid, raw),
         raw = None => valid /\ \A q \in {head[b]} \cup others : Valid(q),
         UNCHANGED tag, session' \in [Sessions -> SessionRecord], SessionsKept,
         \A s \in Sessions : session'[s].status # "unused" => session[s].status # "unused"
  PROVE  Store' /\ Kept
<1> DEFINE new == Len(dag) + 1
<1>0. /\ head[b] \in Commits /\ {head[b]} \cup others \in SUBSET Commits
      /\ raw \in Branches \cup {None}
  BY DEF Store, StoreTypes, Exists
<1>1. /\ dag' \in Seq(CommitRecord) /\ Len(dag') = new /\ new \in 1..MaxCommits
      /\ Commits' = Commits \cup {new} /\ new \notin Commits
      /\ Kept
      /\ dag'[new].parents = {head[b]} \cup others
      /\ new \in dag'[new].past
      /\ dag'[new].basis = {head[b]} \cup others /\ dag'[new].valid = valid /\ dag'[new].raw = raw
      /\ head' = [head EXCEPT ![b] = new]
  <2>1. Grows(b, others, {head[b]} \cup others, valid, raw)
    BY <1>0, Grown
  <2> QED
    BY <2>1 DEF Grows
<1> HIDE DEF new
<1>2. StoreTypes'
  BY <1>1 DEF Store, StoreTypes, SessionsKept
<1>3. Ancestry' /\ NothingOutdated'
  BY <1>0, <1>1 DEF Store, Ancestry, NothingOutdated, Kept
<1>4. KernelKeepsValid'
  <2>1. \A c \in Commits : dag'[c].raw = None => dag'[c].valid /\ \A q \in dag'[c].parents : dag'[q].valid
    BY <1>1 DEF Store, Ancestry, KernelKeepsValid, Kept, Valid
  <2>2. dag'[new].raw = None => dag'[new].valid /\ \A q \in dag'[new].parents : dag'[q].valid
    BY <1>0, <1>1 DEF Kept, Valid
  <2> QED
    BY <1>1, <2>1, <2>2 DEF KernelKeepsValid, Valid
<1>5. RefsStayValid'
  <2>1. \A t \in Tags : tag'[t] # None => dag'[tag'[t]].valid
    BY <1>1 DEF Store, StoreTypes, RefsStayValid, Kept, Valid
  <2>2. ASSUME NEW a \in Branches, head'[a] # None, ~dag'[head'[a]].valid
        PROVE  dag'[head'[a]].raw = a
    <3>1. CASE a = b
      BY <1>1, <2>2, <3>1 DEF Store, StoreTypes, Valid
    <3>2. CASE a # b
      <4>1. head'[a] = head[a] /\ Exists(a) /\ head[a] \in Commits
        BY <1>1, <2>2, <3>2 DEF Store, StoreTypes, Exists
      <4> QED
        BY <1>1, <2>2, <4>1 DEF Store, RefsStayValid, Valid, Kept
    <3> QED
      BY <3>1, <3>2
  <2> QED
    BY <2>1, <2>2 DEF RefsStayValid, Valid, Exists
<1> QED
  BY <1>1, <1>2, <1>3, <1>4, <1>5 DEF Store

\* A ref moves to a valid State, or goes.
RefsMove ==
  /\ UNCHANGED <<dag, session>>
  /\ head' \in [Branches -> Commits \cup {None}] /\ tag' \in [Tags -> Commits \cup {None}]
  /\ \A b \in Branches : head'[b] \in {head[b], None} \/ Valid(head'[b])
  /\ \A t \in Tags : tag'[t] \in {tag[t], None} \/ Valid(tag'[t])

LEMMA RefsKeepStore ==
  ASSUME Store, RefsMove
  PROVE  Store' /\ Kept
<1>1. StoreTypes'
  BY DEF Store, StoreTypes, RefsMove, Commits
<1>2. Ancestry' /\ NothingOutdated' /\ KernelKeepsValid'
  BY DEF Store, Ancestry, NothingOutdated, KernelKeepsValid, RefsMove, Commits, Valid
<1>3. RefsStayValid'
  BY DEF Store, RefsStayValid, RefsMove, Valid, Exists
<1> QED
  BY <1>1, <1>2, <1>3 DEF Store, Kept, RefsMove, Commits

\* Sessions change and nothing else of the store does.
LEMMA SessionsKeepStore ==
  ASSUME Store, UNCHANGED <<dag, head, tag>>, session' \in [Sessions -> SessionRecord],
         \A s \in Sessions : session'[s].status # "unused" =>
           {session'[s].ours, session'[s].theirs} \subseteq Commits
  PROVE  Store' /\ Kept
BY DEF Store, StoreTypes, Ancestry, NothingOutdated, KernelKeepsValid, RefsStayValid,
  Commits, Valid, Exists, Kept

LEMMA OpenKeepsStore ==
  ASSUME Store, NEW b \in Branches, NEW ours \in Commits, NEW theirs \in Commits,
         OpenSession(b, ours, theirs), UNCHANGED <<dag, head, tag>>
  PROVE  Store' /\ Kept /\ SessionsKept
<1>1. PICK s \in Sessions, left \in {0, 1}, good \in BOOLEAN :
        /\ session[s].status = "unused"
        /\ session' = [session EXCEPT ![s] =
             [status |-> "open", branch |-> b, ours |-> ours, theirs |-> theirs,
              revision |-> 1, left |-> left, good |-> good]]
  BY DEF OpenSession
<1>2. ours \in Ids /\ theirs \in Ids /\ 1 \in 1..MaxRevision
  BY BoundAssumption DEF Store, StoreTypes, Commits, Ids
<1>3. session' \in [Sessions -> SessionRecord]
  BY <1>1, <1>2 DEF Store, StoreTypes, SessionRecord
<1>4. \A r \in Sessions : session'[r].status # "unused" =>
        {session'[r].ours, session'[r].theirs} \subseteq Commits
  BY <1>1 DEF Store, StoreTypes
<1>5. SessionsKept
  BY <1>1, Same DEF Store, StoreTypes, SessionsKept
<1> QED
  BY <1>3, <1>4, <1>5, SessionsKeepStore

\* What MergeAbort, ResolveApply and FinalizeApply do to a session.
LEMMA SessionMoves ==
  ASSUME Store, NEW s \in Sessions, session[s].status = "open",
         \/ session' = [session EXCEPT ![s].status = "closed"]
         \/ \E left \in {0, 1}, good \in BOOLEAN :
              /\ session[s].revision < MaxRevision
              /\ session' = [session EXCEPT ![s].revision = @ + 1, ![s].left = left,
                                            ![s].good = good]
  PROVE  /\ session' \in [Sessions -> SessionRecord] /\ SessionsKept
         /\ \A r \in Sessions : session'[r].status # "unused" => session[r].status # "unused"
         /\ \A r \in Sessions : session'[r].status # "unused" =>
              {session'[r].ours, session'[r].theirs} \subseteq Commits
<1>1. /\ session \in [Sessions -> SessionRecord] /\ MaxRevision \in Nat
      /\ session[s] \in SessionRecord
  BY BoundAssumption DEF Store, StoreTypes
<1>2. PICK new \in SessionRecord :
        /\ session' = [session EXCEPT ![s] = new]
        /\ new.status # "unused"
        /\ new.ours = session[s].ours /\ new.theirs = session[s].theirs
        /\ \/ new.revision = session[s].revision /\ new.good = session[s].good
           \/ new.revision = session[s].revision + 1
  <2>1. CASE session' = [session EXCEPT ![s].status = "closed"]
    <3> DEFINE new == [session[s] EXCEPT !.status = "closed"]
    <3>1. /\ new \in SessionRecord /\ new.status # "unused"
          /\ new.ours = session[s].ours /\ new.theirs = session[s].theirs
          /\ new.revision = session[s].revision /\ new.good = session[s].good
      BY <1>1 DEF SessionRecord
    <3>2. session' = [session EXCEPT ![s] = new]
      BY <2>1
    <3> HIDE DEF new
    <3> QED
      BY <3>1, <3>2
  <2>2. CASE \E left \in {0, 1}, good \in BOOLEAN :
               /\ session[s].revision < MaxRevision
               /\ session' = [session EXCEPT ![s].revision = @ + 1, ![s].left = left,
                                             ![s].good = good]
    <3>1. PICK left \in {0, 1}, good \in BOOLEAN :
            /\ session[s].revision < MaxRevision
            /\ session' = [session EXCEPT ![s].revision = @ + 1, ![s].left = left,
                                          ![s].good = good]
      BY <2>2
    <3> DEFINE new == [session[s] EXCEPT !.revision = @ + 1, !.left = left, !.good = good]
    <3>2. session[s].revision + 1 \in 1..MaxRevision
      <4>1. session[s].revision \in 1..MaxRevision
        BY <1>1 DEF SessionRecord
      <4>2. session[s].revision < MaxRevision /\ MaxRevision \in Nat
        BY <1>1, <3>1
      <4> QED
        BY <4>1, <4>2
    <3>3. /\ new \in SessionRecord /\ new.status = session[s].status
          /\ new.ours = session[s].ours /\ new.theirs = session[s].theirs
          /\ new.revision = session[s].revision + 1
      BY <1>1, <3>2 DEF SessionRecord
    <3>4. session' = [session EXCEPT ![s] = new]
      BY <1>1, <3>1
    <3> HIDE DEF new
    <3> QED
      BY <3>3, <3>4
  <2> QED
    BY <2>1, <2>2
<1>3. /\ session'[s] = new /\ \A r \in Sessions \ {s} : session'[r] = session[r]
      /\ session' \in [Sessions -> SessionRecord]
  BY <1>1, <1>2
<1>4. SessionsKept
  BY <1>2, <1>3, Same DEF SessionsKept, SessionRecord
<1>5. \A r \in Sessions : session'[r].status # "unused" =>
        /\ session[r].status # "unused"
        /\ session'[r].ours = session[r].ours /\ session'[r].theirs = session[r].theirs
  BY <1>2, <1>3
<1>6. \A r \in Sessions : session[r].status # "unused" =>
        {session[r].ours, session[r].theirs} \subseteq Commits
  BY DEF Store, StoreTypes
<1> QED
  BY <1>3, <1>4, <1>5, <1>6

-----------------------------------------------------------------------------
(* Each step.                                                              *)

\* A step that writes while the writer is free, and ends its operation.
LEMMA WriteKeeps ==
  ASSUME IInv, Store', Kept, SessionsKept, WriterFree, UNCHANGED writer,
         UNCHANGED <<pc, op>> \/ \E p \in Procs : Done(p)
  PROVE  IInv'
<1>1. None \notin Procs /\ NoPin \in Pin /\ "idle" \in Steps
  BY NoneAssumption, BranchAssumption, BoundAssumption DEF NoPin, Pin, Ids, Steps
<1>2. ControlTypes'
  BY <1>1 DEF IInv, ControlTypes, Done, Goto
<1>3. ASSUME NEW q \in Procs
      PROVE  Caller(q)'
  <2>1. CASE op'[q] = op[q] /\ pc'[q] = pc[q]
    BY <1>1, <2>1, ApartKeeps DEF Apart, WriterFree
  <2>2. CASE pc'[q] = "idle" /\ op'[q] = NoPin
    BY <1>1, <2>2, IdleKeeps DEF WriterFree
  <2> QED
    BY <2>1, <2>2 DEF IInv, ControlTypes, Done, Goto
<1> QED
  BY <1>2, <1>3 DEF IInv

\* Growing is growing in BranchHistory.
LEMMA GrowMaps ==
  ASSUME Store, NEW b \in Branches, Exists(b), NEW others \in {{}} \cup {{c} : c \in Commits},
         NEW valid \in BOOLEAN, NEW raw \in {b, None},
         Grow(b, others, {head[b]} \cup others, valid, raw),
         raw = None => valid /\ \A q \in {head[b]} \cup others : Valid(q),
         raw # None => others = {}, UNCHANGED tag
  PROVE  History!Next
<1>1. /\ head[b] \in Commits /\ others \in SUBSET Commits /\ {head[b]} \cup others \in SUBSET Commits
      /\ raw \in Branches \cup {None}
  BY DEF Store, StoreTypes, Exists
<1>2. Grows(b, others, {head[b]} \cup others, valid, raw)
  BY <1>1, Grown
<1>3. Len(dag') = Len(dag) + 1
  BY <1>2 DEF Grows
<1>4. /\ SubSeq(dag', 1, Len(dag)) = dag
      /\ head' = [head EXCEPT ![b] = Len(dag')]
      /\ dag'[Len(dag')].parents = {head[b]} \cup others
      /\ dag'[Len(dag')].basis = {head[b]} \cup others
      /\ dag'[Len(dag')].past = {Len(dag')} \cup UNION {dag[q].past : q \in {head[b]} \cup others}
      /\ dag'[Len(dag')].valid = valid /\ dag'[Len(dag')].raw = raw
  BY <1>2, <1>3 DEF Grows
<1>5. History!Grow(b)
  BY <1>3, <1>4 DEF History!Grow, Exists, Valid, Commits
<1> QED
  BY <1>5 DEF History!Next

Maps == History!Next \/ UNCHANGED History!vars

LEMMA PatchBeginKeeps ==
  ASSUME IInv, NEW p \in Procs, PatchBegin(p)
  PROVE  IInv' /\ Maps
<1>1. /\ pc[p] = "planned" /\ writer = None /\ head[op[p].branch] = op[p].base
      /\ writer' = p /\ pc' = [pc EXCEPT ![p] = "staging"] /\ UNCHANGED <<store, op>>
  BY DEF PatchBegin, WriterFree, Goto
<1>2. Store' /\ Kept /\ SessionsKept
  BY <1>1, Same DEF IInv, store, Store
<1>3. ControlTypes'
  BY <1>1 DEF IInv, ControlTypes, Steps
<1>4. Caller(p)'
  BY <1>1, <1>2 DEF IInv, ControlTypes, Caller, PinsExist, PinsValid, SessionPinned, WriterStages,
    OnHead, Valid, Kept, store
<1>5. ASSUME NEW q \in Procs \ {p}
      PROVE  Caller(q)'
  <2>1. writer # q
    BY <1>1, NoneAssumption
  <2> QED
    BY <1>1, <1>2, <2>1, ApartKeeps DEF Apart, IInv, ControlTypes
<1> QED
  BY <1>1, <1>2, <1>3, <1>4, <1>5 DEF IInv, Maps, History!vars, store

LEMMA PatchCommitKeeps ==
  ASSUME IInv, NEW p \in Procs, PatchCommit(p)
  PROVE  IInv' /\ Maps
<1> DEFINE b == op[p].branch
<1>1. /\ pc[p] = "staging" /\ writer = p /\ head[b] = op[p].base
      /\ op[p].base \in Commits /\ Valid(op[p].base) /\ b \in Branches
  BY DEF PatchCommit, IInv, Caller, WriterStages, OnHead, PinsExist, PinsValid, ControlTypes, Pin
<1>2. /\ Exists(b) /\ Valid(head[b]) /\ {op[p].base} = {head[b]} \cup {}
  <2>1. None \notin Commits
    BY NoneAssumption DEF Commits, IInv, Store, StoreTypes
  <2> QED
    BY <1>1, <2>1 DEF Exists
<1>3. /\ Grow(b, {}, {head[b]} \cup {}, TRUE, None) /\ UNCHANGED <<tag, session>>
      /\ Done(p) /\ writer' = None
  BY <1>2 DEF PatchCommit
<1> HIDE DEF b
<1>4. SessionsKept /\ session' \in [Sessions -> SessionRecord] /\ Store
  BY <1>3, Same DEF IInv, Store, StoreTypes
<1>5. Store' /\ Kept
  BY <1>1, <1>2, <1>3, <1>4, GrowKeepsStore
<1>6. Maps
  BY <1>1, <1>2, <1>3, <1>4, GrowMaps DEF Maps
<1>7. None \notin Procs /\ NoPin \in Pin /\ "idle" \in Steps
  BY NoneAssumption, BranchAssumption, BoundAssumption DEF NoPin, Pin, Ids, Steps
<1>8. ControlTypes'
  BY <1>3, <1>7 DEF IInv, ControlTypes, Done, Goto
<1>9. Caller(p)'
  BY <1>3, <1>5, <1>7, IdleKeeps DEF IInv, ControlTypes, Done, Goto
<1>10. ASSUME NEW q \in Procs \ {p}
       PROVE  Caller(q)'
  BY <1>1, <1>3, <1>4, <1>5, <1>7, ApartKeeps DEF Apart, IInv, ControlTypes, Done, Goto
<1> QED
  BY <1>5, <1>6, <1>8, <1>9, <1>10 DEF IInv

LEMMA FailKeeps ==
  ASSUME IInv, NEW p \in Procs, Fail(p)
  PROVE  IInv' /\ Maps
<1>1. /\ UNCHANGED store /\ Done(p)
      /\ writer' = IF writer = p THEN None ELSE writer
  BY DEF Fail
<1>2. Store' /\ Kept /\ SessionsKept
  BY <1>1, Same DEF IInv, store, Store
<1>3. None \notin Procs /\ NoPin \in Pin /\ "idle" \in Steps
  BY NoneAssumption, BranchAssumption, BoundAssumption DEF NoPin, Pin, Ids, Steps
<1>4. ControlTypes'
  BY <1>1, <1>3 DEF IInv, ControlTypes, Done, Goto
<1>5. Caller(p)'
  BY <1>1, <1>2, <1>3, IdleKeeps DEF IInv, ControlTypes, Done, Goto
<1>6. ASSUME NEW q \in Procs \ {p}
      PROVE  Caller(q)'
  BY <1>1, <1>2, <1>3, ApartKeeps DEF Apart, IInv, ControlTypes, Done, Goto, store
<1> QED
  BY <1>1, <1>2, <1>4, <1>5, <1>6 DEF IInv, Maps, History!vars, store

LEMMA StateCreateKeeps ==
  ASSUME IInv, NEW p \in Procs, StateCreate(p)
  PROVE  IInv' /\ Maps
<1> DEFINE b == op[p].branch
<1>1. /\ pc[p] = "stamp" /\ head[b] = op[p].base
      /\ op[p].base \in Commits /\ Valid(op[p].base) /\ b \in Branches
  BY DEF StateCreate, IInv, Caller, PinsExist, PinsValid, ControlTypes, Pin
<1>2. /\ Exists(b) /\ Valid(head[b]) /\ {op[p].base} = {head[b]} \cup {}
  <2>1. None \notin Commits
    BY NoneAssumption DEF Commits, IInv, Store, StoreTypes
  <2> QED
    BY <1>1, <2>1 DEF Exists
<1>3. Valid(head[b]) \in BOOLEAN
  <2>1. dag[head[b]] \in CommitRecord
    BY <1>1, ElementOfSeq DEF IInv, Store, StoreTypes, Commits
  <2> QED
    BY <2>1 DEF CommitRecord, Valid
<1>4. /\ Grow(b, {}, {head[b]} \cup {}, Valid(head[b]), None) /\ UNCHANGED <<tag, session, writer>>
      /\ Done(p) /\ WriterFree
  BY <1>2 DEF StateCreate
<1> HIDE DEF b
<1>5. SessionsKept /\ session' \in [Sessions -> SessionRecord] /\ Store
  BY <1>4, Same DEF IInv, Store, StoreTypes
<1>6. Store' /\ Kept
  BY <1>1, <1>2, <1>3, <1>4, <1>5, GrowKeepsStore
<1>7. Maps
  BY <1>1, <1>2, <1>3, <1>4, <1>5, GrowMaps DEF Maps
<1> QED
  BY <1>4, <1>5, <1>6, <1>7, WriteKeeps

LEMMA GraphExecuteKeeps ==
  ASSUME IInv, NEW p \in Procs, GraphExecute(p)
  PROVE  IInv' /\ Maps
<1>1. PICK b \in Branches, v \in BOOLEAN :
        /\ Exists(b) /\ Grow(b, {}, {head[b]}, v, b)
        /\ WriterFree /\ UNCHANGED <<tag, session, writer, pc, op>>
  BY DEF GraphExecute
<1>2. Grow(b, {}, {head[b]} \cup {}, v, b) /\ b # None
  <2>1. {head[b]} \cup {} = {head[b]}
    OBVIOUS
  <2> QED
    BY <1>1, <2>1, NoneAssumption
<1>3. SessionsKept /\ session' \in [Sessions -> SessionRecord] /\ Store
  BY <1>1, Same DEF IInv, Store, StoreTypes
<1>4. Store' /\ Kept
  BY <1>1, <1>2, <1>3, GrowKeepsStore
<1>5. Maps
  BY <1>1, <1>2, <1>3, GrowMaps DEF Maps
<1> QED
  BY <1>1, <1>3, <1>4, <1>5, WriteKeeps

LEMMA MergeStartKeeps ==
  ASSUME IInv, NEW p \in Procs, MergeStart(p)
  PROVE  IInv' /\ Maps
<1>1. /\ OpenSession(op[p].branch, op[p].base, op[p].other)
      /\ UNCHANGED <<dag, head, tag, writer>> /\ WriterFree /\ Done(p)
  BY DEF MergeStart
<1>2. op[p].branch \in Branches /\ op[p].base \in Commits /\ op[p].other \in Commits
  BY DEF IInv, Caller, PinsExist, ControlTypes, Pin
<1>3. Store' /\ Kept /\ SessionsKept
  BY <1>1, <1>2, OpenKeepsStore DEF IInv
<1> QED
  BY <1>1, <1>3, WriteKeeps DEF Maps, History!vars

LEMMA DirectMergeStartKeeps ==
  ASSUME IInv, DirectMergeStart
  PROVE  IInv' /\ Maps
<1>1. PICK b \in Branches, c \in Commits : Exists(b) /\ OpenSession(b, head[b], c)
  BY DEF DirectMergeStart
<1>2. UNCHANGED <<dag, head, tag, writer, pc, op>> /\ WriterFree
  BY DEF DirectMergeStart
<1>3. head[b] \in Commits
  BY <1>1 DEF IInv, Store, StoreTypes, Exists
<1>4. Store' /\ Kept /\ SessionsKept
  BY <1>1, <1>2, <1>3, OpenKeepsStore DEF IInv
<1> QED
  BY <1>2, <1>4, WriteKeeps DEF Maps, History!vars

LEMMA ResolveApplyKeeps ==
  ASSUME IInv, NEW p \in Procs, ResolveApply(p)
  PROVE  IInv' /\ Maps
<1> DEFINE s == op[p].session
<1>1. /\ s \in Sessions /\ session[s].status = "open"
      /\ UNCHANGED <<dag, head, tag, writer>> /\ WriterFree /\ Done(p)
      /\ \E left \in {0, 1}, good \in BOOLEAN :
           /\ session[s].revision < MaxRevision
           /\ session' = [session EXCEPT ![s].revision = @ + 1, ![s].left = left,
                                         ![s].good = good]
  BY DEF ResolveApply, SameRevision, IInv, Caller, PinsExist
<1> HIDE DEF s
<1>2. /\ session' \in [Sessions -> SessionRecord] /\ SessionsKept
      /\ \A r \in Sessions : session'[r].status # "unused" =>
           {session'[r].ours, session'[r].theirs} \subseteq Commits
  BY <1>1, SessionMoves DEF IInv
<1>3. Store' /\ Kept
  BY <1>1, <1>2, SessionsKeepStore DEF IInv
<1> QED
  BY <1>1, <1>2, <1>3, WriteKeeps DEF Maps, History!vars

LEMMA MergeAbortKeeps ==
  ASSUME IInv, NEW p \in Procs, MergeAbort(p)
  PROVE  IInv' /\ Maps
<1>1. PICK s \in Sessions :
        /\ session[s].status = "open"
        /\ session' = [session EXCEPT ![s].status = "closed"]
        /\ UNCHANGED <<dag, head, tag, writer, pc, op>> /\ WriterFree
  BY DEF MergeAbort
<1>2. /\ session' \in [Sessions -> SessionRecord] /\ SessionsKept
      /\ \A r \in Sessions : session'[r].status # "unused" =>
           {session'[r].ours, session'[r].theirs} \subseteq Commits
  BY <1>1, SessionMoves DEF IInv
<1>3. Store' /\ Kept
  BY <1>1, <1>2, SessionsKeepStore DEF IInv
<1> QED
  BY <1>1, <1>2, <1>3, WriteKeeps DEF Maps, History!vars

\* The revision is the one whose candidate was checked, so that the candidate
\* is still good, and the head is still the session's own State: what is made
\* has the parents it was checked against.
LEMMA FinalizeApplyKeeps ==
  ASSUME IInv, NEW p \in Procs, FinalizeApply(p)
  PROVE  IInv' /\ Maps
<1> DEFINE t == op[p].session
           s == session[t]
<1>1. /\ t \in Sessions /\ s.status = "open" /\ s.good
      /\ Valid(s.ours) /\ Valid(s.theirs) /\ s.ours \in Commits /\ s.theirs \in Commits
      /\ s.branch \in Branches /\ head[s.branch] = s.ours
  <2>1. pc[p] = "finalize" /\ SameRevision(p) /\ head[s.branch] = s.ours
    BY DEF FinalizeApply
  <2>2. t \in Sessions /\ SessionPinned(p)
    BY <2>1 DEF IInv, Caller, PinsExist
  <2>3. s.status = "open" /\ s.good /\ Valid(s.ours) /\ Valid(s.theirs)
    BY <2>1, <2>2 DEF SessionPinned, SameRevision
  <2>4. s \in SessionRecord /\ s.ours \in Commits /\ s.theirs \in Commits
    BY <2>2, <2>3 DEF IInv, Store, StoreTypes
  <2> QED
    BY <2>1, <2>2, <2>3, <2>4 DEF SessionRecord
<1>2. s.good = TRUE
  <2>1. s.good \in BOOLEAN
    BY <1>1 DEF IInv, Store, StoreTypes, SessionRecord
  <2> QED
    BY <1>1, <2>1
<1>3. /\ session' = [session EXCEPT ![t].status = "closed"]
      /\ UNCHANGED <<tag, writer>> /\ WriterFree /\ Done(p)
      /\ \/ UNCHANGED <<dag, head>>
         \/ /\ Reaches(s.ours, s.theirs)
            /\ head' = [head EXCEPT ![s.branch] = s.theirs] /\ UNCHANGED dag
         \/ Grow(s.branch, {s.theirs}, {s.ours, s.theirs}, TRUE, None)
  BY <1>2 DEF FinalizeApply
<1> HIDE DEF s, t
<1>4. /\ session' \in [Sessions -> SessionRecord] /\ SessionsKept
      /\ \A r \in Sessions : session'[r].status # "unused" => session[r].status # "unused"
      /\ \A r \in Sessions : session'[r].status # "unused" =>
           {session'[r].ours, session'[r].theirs} \subseteq Commits
  BY <1>1, <1>3, SessionMoves DEF IInv, s
<1>5. Exists(s.branch)
  <2>1. None \notin Commits
    BY NoneAssumption DEF Commits, IInv, Store, StoreTypes
  <2> QED
    BY <1>1, <2>1 DEF Exists
<1>6. CASE UNCHANGED <<dag, head>>
  <2>1. Store' /\ Kept
    BY <1>3, <1>4, <1>6, SessionsKeepStore DEF IInv
  <2> QED
    BY <1>3, <1>4, <1>6, <2>1, WriteKeeps DEF Maps, History!vars
<1>7. CASE /\ Reaches(s.ours, s.theirs)
           /\ head' = [head EXCEPT ![s.branch] = s.theirs] /\ UNCHANGED dag
  <2>1. StoreTypes'
    BY <1>1, <1>3, <1>4, <1>7 DEF IInv, Store, StoreTypes, Commits
  <2>2. Ancestry' /\ NothingOutdated' /\ KernelKeepsValid' /\ Kept
    BY <1>7 DEF IInv, Store, Ancestry, NothingOutdated, KernelKeepsValid, Commits, Valid, Kept
  <2>3. RefsStayValid'
    BY <1>1, <1>3, <1>7 DEF IInv, Store, StoreTypes, RefsStayValid, Valid, Exists
  <2>4. History!FastForward(s.branch)
    BY <1>1, <1>3, <1>5, <1>7 DEF History!FastForward, Reaches, Valid, Exists, Commits
  <2>5. Maps
    BY <1>1, <2>4 DEF Maps, History!Next
  <2> QED
    BY <1>3, <1>4, <2>1, <2>2, <2>3, <2>5, WriteKeeps DEF Store
<1>8. CASE Grow(s.branch, {s.theirs}, {s.ours, s.theirs}, TRUE, None)
  <2>1. Grow(s.branch, {s.theirs}, {head[s.branch]} \cup {s.theirs}, TRUE, None)
    <3>1. {s.ours, s.theirs} = {head[s.branch]} \cup {s.theirs}
      BY <1>1
    <3> QED
      BY <1>8, <3>1
  <2>2. {s.theirs} \in SUBSET Commits /\ \A q \in {head[s.branch]} \cup {s.theirs} : Valid(q)
    BY <1>1
  <2>3. Store' /\ Kept
    BY <1>1, <1>3, <1>4, <1>5, <2>1, <2>2, GrowKeepsStore DEF IInv
  <2>4. Maps
    BY <1>1, <1>3, <1>5, <2>1, <2>2, GrowMaps DEF IInv, Maps
  <2> QED
    BY <1>3, <1>4, <2>3, <2>4, WriteKeeps
<1> QED
  BY <1>3, <1>6, <1>7, <1>8

LEMMA RefStepsKeep ==
  ASSUME IInv, NEW p \in Procs,
         BranchCreate(p) \/ BranchDelete(p) \/ TagCreate(p) \/ TagMove(p) \/ TagDelete(p)
  PROVE  IInv' /\ Maps
<1>1. /\ WriterFree /\ UNCHANGED <<dag, session, writer>>
      /\ UNCHANGED <<pc, op>> \/ Done(p)
  BY DEF BranchCreate, BranchDelete, TagCreate, TagMove, TagDelete
<1>2. op[p].branch \in Branches /\ op[p].base \in Commits
  BY DEF IInv, Caller, PinsExist, ControlTypes, Pin
<1>3. RefsMove /\ History!Next
  <2> USE DEF IInv, Store, StoreTypes, RefsMove
  <2>1. CASE BranchCreate(p)
    <3>1. /\ Valid(op[p].base) /\ ~Exists(op[p].branch)
          /\ head' = [head EXCEPT ![op[p].branch] = op[p].base] /\ UNCHANGED tag
      BY <2>1 DEF BranchCreate, Caller, PinsValid
    <3>2. RefsMove
      BY <1>1, <1>2, <3>1
    <3>3. History!CreateBranch(op[p].branch)
      BY <1>1, <1>2, <3>1 DEF History!CreateBranch, Exists, Valid, Commits
    <3> QED
      BY <1>2, <3>2, <3>3 DEF History!Next
  <2>2. CASE BranchDelete(p)
    <3>1. PICK b \in Branches \ {Main} : head' = [head EXCEPT ![b] = None]
      BY <2>2 DEF BranchDelete
    <3>2. UNCHANGED tag
      BY <2>2 DEF BranchDelete
    <3>3. RefsMove
      BY <1>1, <3>1, <3>2
    <3>4. History!DeleteBranch(b)
      BY <1>1, <3>1, <3>2 DEF History!DeleteBranch
    <3> QED
      BY <3>3, <3>4 DEF History!Next
  <2>3. CASE TagCreate(p) \/ TagMove(p)
    <3>1. /\ Valid(op[p].base) /\ op[p].tag \in Tags
          /\ tag' = [tag EXCEPT ![op[p].tag] = op[p].base] /\ UNCHANGED head
      BY <2>3 DEF TagCreate, TagMove, Caller, PinsExist, PinsValid
    <3>2. RefsMove
      BY <1>1, <1>2, <3>1
    <3>3. History!SetTag(op[p].tag)
      BY <1>1, <1>2, <3>1 DEF History!SetTag, Valid, Commits
    <3> QED
      BY <3>1, <3>2, <3>3 DEF History!Next
  <2>4. CASE TagDelete(p)
    <3>1. PICK t \in Tags : tag' = [tag EXCEPT ![t] = None]
      BY <2>4 DEF TagDelete
    <3>2. UNCHANGED head
      BY <2>4 DEF TagDelete
    <3>3. RefsMove
      BY <1>1, <3>1, <3>2
    <3>4. History!DeleteTag(t)
      BY <1>1, <3>1, <3>2 DEF History!DeleteTag
    <3> QED
      BY <3>3, <3>4 DEF History!Next
  <2> QED
    BY <2>1, <2>2, <2>3, <2>4
<1>4. Store' /\ Kept /\ SessionsKept
  BY <1>1, <1>3, RefsKeepStore, Same DEF IInv, Store
<1> QED
  BY <1>1, <1>3, <1>4, WriteKeeps DEF Maps

-----------------------------------------------------------------------------
(* The theorems.                                                           *)

LEMMA InitInv ==
  ASSUME Init
  PROVE  IInv
<1>1. /\ dag = <<Root>> /\ Root \in CommitRecord /\ Commits = {1} /\ dag[1] = Root
      /\ dag \in Seq(CommitRecord) /\ Len(dag) = 1
  <2>1. Root \in CommitRecord
    BY BoundAssumption DEF Root, CommitRecord, Ids
  <2> QED
    BY <2>1 DEF Init, Commits
<1>2. None \notin {1} /\ NoPin \in Pin /\ "idle" \in Steps
  BY NoneAssumption, BranchAssumption, BoundAssumption DEF NoPin, Pin, Ids, Steps
<1>3. StoreTypes
  <2>1. NoSession \in SessionRecord /\ NoSession.status = "unused"
    BY BranchAssumption, BoundAssumption DEF NoSession, SessionRecord, Ids
  <2> QED
    BY <1>1, <2>1, BoundAssumption DEF Init, StoreTypes
<1>4. Ancestry /\ NothingOutdated /\ KernelKeepsValid /\ RefsStayValid
  <2>1. /\ dag[1].parents = {} /\ dag[1].past = {1} /\ dag[1].basis = {} /\ dag[1].valid
        /\ \A b \in Branches : head[b] \in {1, None}
        /\ \A t \in Tags : tag[t] = None
    BY <1>1 DEF Root, Init
  <2> QED
    BY <1>1, <2>1 DEF Ancestry, NothingOutdated, KernelKeepsValid, RefsStayValid, Valid, Exists
<1>5. ControlTypes
  BY <1>2 DEF Init, ControlTypes
<1>6. ASSUME NEW p \in Procs
      PROVE  Caller(p)
  BY <1>1, NoneAssumption DEF Init, Caller, PinsExist, PinsValid, SessionPinned, WriterStages, OnHead, NoPin
<1> QED
  BY <1>3, <1>4, <1>5, <1>6 DEF IInv, Store

LEMMA NextInv ==
  ASSUME IInv, [Next]_vars
  PROVE  IInv' /\ Maps
<1>1. CASE DirectMergeStart
  BY <1>1, DirectMergeStartKeeps
<1>2. CASE \E p \in Procs : Step(p)
  <2>1. PICK p \in Procs : Step(p)
    BY <1>2
  <2>2. CASE Reads(p)
    BY <2>2, ReadPins, ReadsKeep DEF Maps, History!vars, store
  <2>3. CASE Fail(p)
    BY <2>3, FailKeeps
  <2>4. CASE PatchBegin(p)
    BY <2>4, PatchBeginKeeps
  <2>5. CASE PatchCommit(p)
    BY <2>5, PatchCommitKeeps
  <2>6. CASE StateCreate(p)
    BY <2>6, StateCreateKeeps
  <2>7. CASE GraphExecute(p)
    BY <2>7, GraphExecuteKeeps
  <2>8. CASE MergeStart(p)
    BY <2>8, MergeStartKeeps
  <2>9. CASE ResolveApply(p)
    BY <2>9, ResolveApplyKeeps
  <2>10. CASE FinalizeApply(p)
    BY <2>10, FinalizeApplyKeeps
  <2>11. CASE MergeAbort(p)
    BY <2>11, MergeAbortKeeps
  <2>12. CASE BranchCreate(p) \/ BranchDelete(p) \/ TagCreate(p) \/ TagMove(p) \/ TagDelete(p)
    BY <2>12, RefStepsKeep
  <2> QED
    BY <2>1, <2>2, <2>3, <2>4, <2>5, <2>6, <2>7, <2>8, <2>9, <2>10, <2>11, <2>12 DEF Step, Reads
<1>3. CASE UNCHANGED vars
  <2>1. UNCHANGED store /\ UNCHANGED <<writer, pc, op>>
    BY <1>3 DEF vars
  <2>2. Store' /\ Kept /\ SessionsKept
    BY <2>1, Same DEF IInv, store, Store
  <2>3. \A p \in Procs : Caller(p)'
    BY <2>1, <2>2, ApartKeeps DEF Apart, store
  <2> QED
    BY <2>1, <2>2, <2>3 DEF IInv, ControlTypes, Maps, History!vars, store
<1> QED
  BY <1>1, <1>2, <1>3 DEF Next

\* The inductive invariant holds in every reachable state, whatever the callers
\* interleave between their reads and their writes.
THEOREM Invariance == Spec => []IInv
<1>1. Init => IInv
  BY InitInv
<1>2. IInv /\ [Next]_vars => IInv'
  BY NextInv
<1> QED
  BY <1>1, <1>2, PTL DEF Spec

\* Every variable keeps its type: refs and sessions name States that exist.
THEOREM TypeCorrect == Spec => []TypeOK
<1>1. IInv => TypeOK
  BY DEF IInv, Store, StoreTypes, ControlTypes, TypeOK
<1> QED
  BY <1>1, Invariance, PTL

\* No update is lost: the parents of a State are those its content was computed
\* from and validated against (expectedHead, CreateCommit, merge.finalize).
THEOREM NoUpdateLost == Spec => []NothingOutdated
<1>1. IInv => NothingOutdated
  BY DEF IInv, Store
<1> QED
  BY <1>1, Invariance, PTL

\* Only raw Graph execution makes an inconsistent State.
THEOREM KernelMakesValid == Spec => []KernelKeepsValid
<1>1. IInv => KernelKeepsValid
  BY DEF IInv, Store
<1> QED
  BY <1>1, Invariance, PTL

\* No ref adopts an inconsistent State but the branch raw execution left on it.
THEOREM RefsValid == Spec => []RefsStayValid
<1>1. IInv => RefsStayValid
  BY DEF IInv, Store
<1> QED
  BY <1>1, Invariance, PTL

\* While a Patch stages it owns the writer, and its branch stays where it was.
THEOREM StagingIsSafe == Spec => []StagedOnHead
<1>1. IInv => StagedOnHead
  BY DEF IInv, Caller, WriterStages, OnHead, StagedOnHead
<1> QED
  BY <1>1, Invariance, PTL

\* The kernel implements BranchHistory, its initial state included.
THEOREM KernelKeepsHistory == Spec => KeepsHistory
<1>1. Init => History!Init
  BY DEF Init, History!Init, Root
<1>2. IInv /\ [Next]_vars => [History!Next]_(History!vars)
  BY NextInv DEF Maps
<1> QED
  BY <1>1, <1>2, Invariance, PTL DEF Spec, KeepsHistory, History!Spec

\* No operation rewrites history.  It follows from the abstract steps alone: a
\* branch grows on its head or catches up with a State that contains it.
THEOREM KernelHeadsAdvance == Spec => HeadsOnlyAdvance
<1> DEFINE Advances == \A b \in Branches : Exists(b) /\ head'[b] # None => head[b] \in dag'[head'[b]].past
<1>1. IInv /\ [Next]_vars => [Advances]_vars
  <2> SUFFICES ASSUME IInv, Next
               PROVE  Advances
    BY DEF vars
  <2>1. /\ dag \in Seq(CommitRecord) /\ head \in [Branches -> Commits \cup {None}]
        /\ \A b \in Branches : Exists(b) => head[b] \in Commits /\ head[b] \in dag[head[b]].past
    BY DEF IInv, Store, StoreTypes, Ancestry, Exists
  <2>2. CASE UNCHANGED <<dag, head>>
    BY <2>1, <2>2
  <2>3. CASE \E b \in Branches : History!Grow(b)
    <3>1. PICK b \in Branches : History!Grow(b)
      BY <2>3
    <3>2. PICK others \in {{}} \cup {{c} : c \in DOMAIN dag} :
            /\ Len(dag') = Len(dag) + 1 /\ SubSeq(dag', 1, Len(dag)) = dag
            /\ dag'[Len(dag')].past =
                 {Len(dag')} \cup UNION {dag[c].past : c \in {head[b]} \cup others}
            /\ head' = [head EXCEPT ![b] = Len(dag')] /\ Exists(b)
      BY <3>1 DEF History!Grow, Exists
    <3>3. ASSUME NEW a \in Branches \ {b}, Exists(a)
          PROVE  head[a] \in dag'[head'[a]].past
      <4>1. head'[a] = head[a] /\ head[a] \in 1..Len(dag)
        BY <2>1, <3>2, <3>3 DEF Commits
      <4>2. dag'[head[a]] = dag[head[a]]
        <5>1. dag' \in Seq(CommitRecord) /\ Len(dag) \in Nat
          BY NextInv, <2>1 DEF IInv, Store, StoreTypes
        <5>2. SubSeq(dag', 1, Len(dag))[head[a]] = dag'[1 + head[a] - 1]
          BY <3>2, <4>1, <5>1, SubSeqProperties
        <5> QED
          BY <3>2, <4>1, <5>1, <5>2
      <4> QED
        BY <2>1, <3>3, <4>1, <4>2
    <3> QED
      BY <2>1, <3>2, <3>3
  <2>4. CASE UNCHANGED dag /\ \E b \in Branches :
               \/ History!FastForward(b) \/ History!CreateBranch(b) \/ History!DeleteBranch(b)
    BY <2>1, <2>4 DEF History!FastForward, History!CreateBranch, History!DeleteBranch, Exists
  <2> QED
    BY <2>2, <2>3, <2>4, NextInv DEF Maps, History!Next, History!vars, History!FastForward,
      History!CreateBranch, History!DeleteBranch, History!SetTag, History!DeleteTag
<1> QED
  BY <1>1, Invariance, PTL DEF Spec, HeadsOnlyAdvance
=============================================================================
