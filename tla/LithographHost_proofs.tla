----------------------- MODULE LithographHost_proofs -----------------------
(***************************************************************************)
(* Proofs about LithographHost, for any number of callers, connections and *)
(* branches: the inductive invariant IInv, the safety properties that      *)
(* follow from it, and that the host keeps the promise of AtomicWrites.    *)
(*                                                                         *)
(* CleanPool alone is not inductive.  That a discarded or returned slot is *)
(* clean needs to know who holds it (Holding), that Close and an owner     *)
(* never end the same transaction twice needs the registry and what Close  *)
(* copied of it (RegistryIsExact, Snapshot), and that nothing lands after  *)
(* Close needs the exact meaning of host.active (ActiveIsExact).           *)
(***************************************************************************)
EXTENDS LithographHost, TLAPS

\* The first landing of a request makes a sequence of one branch.
LEMMA FirstLanding ==
  ASSUME NEW b \in Branches
  PROVE  Append(<<>>, b) = <<b>> /\ <<b>> \in Seq(Branches) /\ <<b>> # <<>>
OBVIOUS

\* The host starts with an idle, clean pool.
LEMMA InitInv == Init => IInv
<1> SUFFICES ASSUME Init PROVE IInv
  OBVIOUS
<1> USE BranchAssumption, ConnAssumption
<1> USE DEF IInv, TypeOK, CleanPool, InUse, LandsOnceOnTarget, RegistryIsExact,
            Holding, Snapshot, ActiveIsExact, OnBranch, Landing, ActivePcs, Pcs,
            Kinds, HoldPcs, BeginPcs, LockedPcs, OwnerPcs, LandPcs
<1>1. TypeOK
  <2>1. <<>> \in Seq(Branches)
    OBVIOUS
  <2>2. /\ landed \in [Procs -> Seq(Branches)]
        /\ held \in [Procs -> Conns \cup {NoConn}]
    BY <2>1 DEF Init
  <2>3. QED BY <2>2 DEF Init
<1>2. CleanPool
  BY DEF Init
<1>3. QED BY <1>1, <1>2 DEF Init

\* The invariant survives entering an operation, waiting for a connection, and the
\* clean-up that gives it back.
LEMMA EnterAndLeave ==
  ASSUME IInv, NEW p \in Procs,
         Request(p) \/ Enter(p) \/ Acquire(p) \/ AcquireFail(p)
           \/ AcquireRead(p) \/ ReadDone(p) \/ Baseline(p)
           \/ BaselineFail(p) \/ Release(p)
  PROVE  IInv'
<1> USE BranchAssumption, ConnAssumption
<1> USE DEF IInv, TypeOK, CleanPool, InUse, LandsOnceOnTarget, RegistryIsExact,
            Holding, Snapshot, ActiveIsExact, OnBranch, Landing, ActivePcs, Pcs,
            Kinds, HoldPcs, BeginPcs, LockedPcs, OwnerPcs, LandPcs
<1>1. ASSUME Request(p) PROVE IInv'
  BY <1>1, SMTT(20) DEF Request, Goto, Answer, hostVars
<1>2. ASSUME Enter(p) PROVE IInv'
  <2>1. CASE hostClosed /\ Return(p, "err")
    BY <1>2, <2>1, SMTT(20) DEF Enter, Goto, Answer, Return, dbVars
  <2>2. CASE /\ ~hostClosed
             /\ active' = active \cup {p}
             /\ Goto(p, "acquire")
             /\ UNCHANGED result
    BY <1>2, <2>2, SMTT(20) DEF Enter, Goto, Answer, Return, dbVars
  <2>3. QED BY <1>2, <2>1, <2>2 DEF Enter
<1>3. ASSUME Acquire(p) PROVE IInv'
  BY <1>3, SMTT(20) DEF Acquire, Goto, hostVars, dbVars
<1>4. ASSUME AcquireFail(p) PROVE IInv'
  BY <1>4, SMTT(20) DEF AcquireFail, Goto, Answer, Return, dbVars
<1>5. ASSUME AcquireRead(p) PROVE IInv'
  BY <1>5, SMTT(20) DEF AcquireRead, Goto, hostVars, dbVars
<1>6. ASSUME ReadDone(p) PROVE IInv'
  BY <1>6, SMTT(20) DEF ReadDone, Goto, Answer, Return, dbVars
<1>7. ASSUME Baseline(p) PROVE IInv'
  BY <1>7, SMTT(20) DEF Baseline, Goto, hostVars
<1>8. ASSUME BaselineFail(p) PROVE IInv'
  BY <1>8, SMTT(20) DEF BaselineFail, Goto, Answer, Return, Discard
<1>9. ASSUME Release(p) PROVE IInv'
  <2>1. CASE GiveBack(p) /\ Return(p, result[p])
    BY <1>9, <2>1, SMTT(20) DEF Release, Goto, Answer, Return, Discard,
      GiveBack
  <2>2. CASE Discard(p) /\ Return(p, "err")
    BY <1>9, <2>2, SMTT(20) DEF Release, Goto, Answer, Return, Discard,
      GiveBack
  <2>3. QED BY <1>9, <2>1, <2>2 DEF Release
<1>10. QED BY <1>1, <1>2, <1>3, <1>4, <1>5, <1>6, <1>7, <1>8, <1>9

\* The invariant survives one statement on a connection (Execute, the version
\* procedures).
LEMMA StatementSteps ==
  ASSUME IInv, NEW p \in Procs,
         Checkout(p) \/ CheckoutFail(p) \/ RunWrite(p) \/ RunNoWrite(p)
  PROVE  IInv'
<1> USE BranchAssumption, ConnAssumption
<1> USE DEF IInv, TypeOK, CleanPool, InUse, LandsOnceOnTarget, RegistryIsExact,
            Holding, Snapshot, ActiveIsExact, OnBranch, Landing, ActivePcs, Pcs,
            Kinds, HoldPcs, BeginPcs, LockedPcs, OwnerPcs, LandPcs
<1>1. ASSUME Checkout(p) PROVE IInv'
  BY <1>1, SMTT(20) DEF Checkout, Goto, hostVars
<1>2. ASSUME CheckoutFail(p) PROVE IInv'
  BY <1>2, SMTT(20) DEF CheckoutFail, Goto, Answer, hostVars
<1>3. ASSUME RunWrite(p) PROVE IInv'
  <2>1. landed' = [landed EXCEPT ![p] = <<target[p]>>]
    <3>1. landed[p] = <<>> /\ branchOf[held[p]] = target[p]
      BY <1>3 DEF RunWrite
    <3>2. QED BY <1>3, <3>1, FirstLanding DEF RunWrite, LandOn
  <2>2. PICK b \in Branches : branchOf' = [branchOf EXCEPT ![held[p]] = b]
    BY <1>3 DEF RunWrite
  <2>3. PICK r \in {"ok", "err"} : result' = [result EXCEPT ![p] = r]
    BY <1>3 DEF RunWrite, Answer
  <2>4. QED BY <1>3, <2>1, <2>2, <2>3, FirstLanding, SMTT(20)
               DEF RunWrite, Goto, hostVars
<1>4. ASSUME RunNoWrite(p) PROVE IInv'
  <2>1. /\ pc[p] = "run" /\ Goto(p, "release")
        /\ UNCHANGED <<hostVars, kind, target, held, txState, landed>>
    BY <1>4 DEF RunNoWrite
  <2>2. PICK b \in Branches : branchOf' = [branchOf EXCEPT ![held[p]] = b]
    BY <1>4 DEF RunNoWrite
  <2>3. PICK r \in {"ok", "err"} : result' = [result EXCEPT ![p] = r]
    BY <1>4 DEF RunNoWrite, Answer
  <2>4. CASE inTx' = inTx
    <3>1. TypeOK' /\ CleanPool' /\ LandsOnceOnTarget' /\ RegistryIsExact'
      BY <2>1, <2>2, <2>3, <2>4, SMTT(20) DEF Goto, hostVars
    <3>2. Holding' /\ Snapshot' /\ ActiveIsExact' /\ OnBranch'
      BY <2>1, <2>2, <2>3, <2>4, SMTT(20) DEF Goto, hostVars
    <3>3. Landing'
      <4>1. kind[p] \notin {"state", "tx"}
        BY <2>1
      <4>2. QED BY <2>1, <2>3, <4>1, SMTT(20) DEF Goto, hostVars
    <3>4. QED BY <3>1, <3>2, <3>3
  <2>5. CASE inTx = {} /\ inTx' = {held[p]}
    BY <2>1, <2>2, <2>3, <2>5, SMTT(20) DEF Goto, hostVars
  <2>6. QED BY <1>4, <2>4, <2>5 DEF RunNoWrite
<1>5. QED BY <1>1, <1>2, <1>3, <1>4

\* The invariant survives the explicit SQLite transaction of CreateCommit.
LEMMA StateSteps ==
  ASSUME IInv, NEW p \in Procs,
         BeginImmediate(p) \/ Work(p) \/ CommitState(p) \/ Rollback(p)
           \/ RollbackFail(p)
  PROVE  IInv'
<1> USE BranchAssumption, ConnAssumption
<1> USE DEF IInv, TypeOK, CleanPool, InUse, LandsOnceOnTarget, RegistryIsExact,
            Holding, Snapshot, ActiveIsExact, OnBranch, Landing, ActivePcs, Pcs,
            Kinds, HoldPcs, BeginPcs, LockedPcs, OwnerPcs, LandPcs
<1>1. ASSUME BeginImmediate(p) PROVE IInv'
  <2>1. CASE /\ inTx = {} /\ inTx' = {held[p]}
             /\ Goto(p, "work") /\ UNCHANGED result
    BY <1>1, <2>1, SMTT(20) DEF BeginImmediate, Goto, Answer, hostVars
  <2>2. CASE UNCHANGED inTx /\ Answer(p, "err") /\ Goto(p, "release")
    BY <1>1, <2>2, SMTT(20) DEF BeginImmediate, Goto, Answer, hostVars
  <2>3. CASE /\ inTx = {} /\ inTx' = {held[p]}
             /\ Answer(p, "err") /\ Goto(p, "release")
    BY <1>1, <2>3, SMTT(20) DEF BeginImmediate, Goto, Answer, hostVars
  <2>4. QED BY <1>1, <2>1, <2>2, <2>3 DEF BeginImmediate
<1>2. ASSUME Work(p) PROVE IInv'
  <2>1. CASE Goto(p, "commit") /\ UNCHANGED result
    BY <1>2, <2>1, SMTT(20) DEF Work, Goto, Answer, hostVars, dbVars
  <2>2. CASE Answer(p, "err") /\ Goto(p, "rollback")
    BY <1>2, <2>2, SMTT(20) DEF Work, Goto, Answer, hostVars, dbVars
  <2>3. QED BY <1>2, <2>1, <2>2 DEF Work
<1>3. ASSUME CommitState(p) PROVE IInv'
  <2>1. CASE /\ LandOn(p, target[p]) /\ inTx' = inTx \ {held[p]}
             /\ Answer(p, "ok") /\ Goto(p, "release")
    <3>1. landed[p] = <<>> /\ target[p] \in Branches
      BY <1>3 DEF CommitState
    <3>2. landed' = [landed EXCEPT ![p] = <<target[p]>>]
      BY <2>1, <3>1, FirstLanding DEF LandOn
    <3>3. QED BY <1>3, <2>1, <3>2, FirstLanding, SMTT(20) DEF CommitState,
      Goto, Answer, hostVars
  <2>2. CASE /\ LandOn(p, target[p]) /\ inTx' = inTx \ {held[p]}
             /\ Answer(p, "err") /\ Goto(p, "rollback")
    <3>1. landed[p] = <<>> /\ target[p] \in Branches
      BY <1>3 DEF CommitState
    <3>2. landed' = [landed EXCEPT ![p] = <<target[p]>>]
      BY <2>2, <3>1, FirstLanding DEF LandOn
    <3>3. QED BY <1>3, <2>2, <3>2, FirstLanding, SMTT(20) DEF CommitState,
      Goto, Answer, hostVars
  <2>3. CASE /\ Answer(p, "err") /\ Goto(p, "rollback")
             /\ UNCHANGED <<inTx, landed>>
    BY <1>3, <2>3, SMTT(20) DEF CommitState, Goto, Answer, hostVars
  <2>4. QED BY <1>3, <2>1, <2>2, <2>3 DEF CommitState
<1>4. ASSUME Rollback(p) PROVE IInv'
  BY <1>4, SMTT(20) DEF Rollback, Goto, hostVars
<1>5. ASSUME RollbackFail(p) PROVE IInv'
  BY <1>5, SMTT(20) DEF RollbackFail, Goto, Answer, Return, Discard
<1>6. QED BY <1>1, <1>2, <1>3, <1>4, <1>5

\* The invariant survives Transaction: begin, statements, commit and the three
\* ways it is closed.
LEMMA TransactionSteps ==
  ASSUME IInv, NEW p \in Procs,
         TxBegin(p) \/ TxBeginFail(p) \/ Register(p) \/ BeginClose(p)
           \/ TxCall(p) \/ TxGiveUp(p) \/ TxLock(p) \/ TxExecute(p)
           \/ TxCommit(p) \/ TxRelease(p) \/ FailClosed(p) \/ TxClose(p)
  PROVE  IInv'
<1> USE BranchAssumption, ConnAssumption
<1> USE DEF IInv, TypeOK, CleanPool, InUse, LandsOnceOnTarget, RegistryIsExact,
            Holding, Snapshot, ActiveIsExact, OnBranch, Landing, ActivePcs, Pcs,
            Kinds, HoldPcs, BeginPcs, LockedPcs, OwnerPcs, LandPcs
<1>1. ASSUME TxBegin(p) PROVE IInv'
  BY <1>1, SMTT(20) DEF TxBegin, Goto, hostVars
<1>2. ASSUME TxBeginFail(p) PROVE IInv'
  BY <1>2, SMTT(20) DEF TxBeginFail, Goto, Answer, Return, Discard
<1>3. ASSUME Register(p) PROVE IInv'
  <2>1. CASE /\ hostClosed /\ Goto(p, "beginclose")
             /\ UNCHANGED <<registered, active>>
    BY <1>3, <2>1, SMTT(20) DEF Register, Goto, dbVars
  <2>2. CASE /\ ~hostClosed /\ Goto(p, "open")
             /\ registered' = registered \cup {p}
             /\ active' = active \ {p}
    BY <1>3, <2>2, SMTT(20) DEF Register, Goto, dbVars
  <2>3. QED BY <1>3, <2>1, <2>2 DEF Register
<1>4. ASSUME BeginClose(p) PROVE IInv'
  <2>1. CASE /\ txState[p] = "open"
             /\ EndTransaction(p) /\ Discard(p)
    BY <1>4, <2>1, SMTT(20) DEF BeginClose, Goto, Answer, Return, Discard,
      EndTransaction, CloseTransaction
  <2>2. CASE /\ txState[p] # "open"
             /\ UNCHANGED <<held, txState, registered, branchOf, inTx>>
    BY <1>4, <2>2, SMTT(20) DEF BeginClose, Goto, Answer, Return, Discard,
      EndTransaction, CloseTransaction
  <2>3. QED BY <1>4, <2>1, <2>2 DEF BeginClose, CloseTransaction
<1>5. ASSUME TxCall(p) PROVE IInv'
  BY <1>5, SMTT(20) DEF TxCall, Goto, dbVars
<1>6. ASSUME TxGiveUp(p) PROVE IInv'
  <2>1. TypeOK' /\ CleanPool' /\ LandsOnceOnTarget'
    BY <1>6, SMTT(20) DEF TxGiveUp, Goto, Answer, hostVars, dbVars
  <2>2. RegistryIsExact'
    BY <1>6, SMTT(20) DEF TxGiveUp, Goto, Answer, hostVars, dbVars
  <2>3. Holding'
    BY <1>6, SMTT(20) DEF TxGiveUp, Goto, Answer, hostVars, dbVars
  <2>4. Snapshot'
    BY <1>6, SMTT(20) DEF TxGiveUp, Goto, Answer, hostVars, dbVars
  <2>5. ActiveIsExact'
    BY <1>6, SMTT(20) DEF TxGiveUp, Goto, Answer, hostVars, dbVars
  <2>6. OnBranch' /\ Landing'
    BY <1>6, SMTT(20) DEF TxGiveUp, Goto, Answer, hostVars, dbVars
  <2>7. QED BY <2>1, <2>2, <2>3, <2>4, <2>5, <2>6
<1>7. ASSUME TxLock(p) PROVE IInv'
  <2>1. CASE /\ pc[p] \in {"execlock", "commitlock"} /\ txState[p] = "closed"
             /\ Goto(p, "txclose") /\ Answer(p, "err")
             /\ active' = active \ {p}
    BY <1>7, <2>1, SMTT(20) DEF TxLock, Goto, Answer, dbVars
  <2>2. CASE /\ txState[p] = "open" /\ pc[p] = "execlock"
             /\ Goto(p, "execrun") /\ UNCHANGED <<result, active>>
    BY <1>7, <2>2, SMTT(20) DEF TxLock, Goto, Answer, dbVars
  <2>3. CASE /\ txState[p] = "open" /\ pc[p] = "commitlock"
             /\ Goto(p, "txcommit") /\ UNCHANGED <<result, active>>
    BY <1>7, <2>3, SMTT(20) DEF TxLock, Goto, Answer, dbVars
  <2>4. QED BY <1>7, <2>1, <2>2, <2>3 DEF TxLock
<1>8. ASSUME TxExecute(p) PROVE IInv'
  <2>1. CASE /\ Goto(p, "open") /\ UNCHANGED inTx
             /\ active' = active \ {p}
    BY <1>8, <2>1, SMTT(20) DEF TxExecute, Goto
  <2>2. CASE /\ Goto(p, "failclosed") /\ UNCHANGED active
             /\ inTx' = inTx
    BY <1>8, <2>2, SMTT(20) DEF TxExecute, Goto
  <2>3. CASE /\ Goto(p, "failclosed") /\ UNCHANGED active
             /\ inTx' = inTx \ {held[p]}
    BY <1>8, <2>3, SMTT(20) DEF TxExecute, Goto
  <2>4. QED BY <1>8, <2>1, <2>2, <2>3 DEF TxExecute
<1>9. ASSUME TxCommit(p) PROVE IInv'
  <2>1. CASE /\ LandOn(p, branchOf[held[p]]) /\ inTx' = inTx \ {held[p]}
             /\ Answer(p, "ok") /\ Goto(p, "txrelease")
    <3>1. landed[p] = <<>> /\ branchOf[held[p]] = target[p]
      BY <1>9 DEF TxCommit
    <3>2. landed' = [landed EXCEPT ![p] = <<target[p]>>]
      BY <2>1, <3>1, FirstLanding DEF LandOn
    <3>3. QED BY <1>9, <2>1, <3>2, FirstLanding, SMTT(20) DEF TxCommit, Goto,
      Answer, hostVars
  <2>2. CASE /\ LandOn(p, branchOf[held[p]]) /\ inTx' = inTx \ {held[p]}
             /\ Goto(p, "failclosed") /\ UNCHANGED result
    <3>1. landed[p] = <<>> /\ branchOf[held[p]] = target[p]
      BY <1>9 DEF TxCommit
    <3>2. landed' = [landed EXCEPT ![p] = <<target[p]>>]
      BY <2>2, <3>1, FirstLanding DEF LandOn
    <3>3. QED BY <1>9, <2>2, <3>2, FirstLanding, SMTT(20) DEF TxCommit, Goto,
      Answer, hostVars
  <2>3. CASE /\ Goto(p, "failclosed") /\ inTx' = inTx
             /\ UNCHANGED <<landed, result>>
    BY <1>9, <2>3, SMTT(20) DEF TxCommit, Goto, Answer, hostVars
  <2>4. CASE /\ Goto(p, "failclosed") /\ inTx' = inTx \ {held[p]}
             /\ UNCHANGED <<landed, result>>
    BY <1>9, <2>4, SMTT(20) DEF TxCommit, Goto, Answer, hostVars
  <2>5. QED BY <1>9, <2>1, <2>2, <2>3, <2>4 DEF TxCommit
<1>10. ASSUME TxRelease(p) PROVE IInv'
  <2>1. CASE GiveBack(p) /\ Return(p, result[p])
    BY <1>10, <2>1, SMTT(20) DEF TxRelease, Goto, Answer, Return, Discard,
      GiveBack, EndTransaction
  <2>2. CASE Discard(p) /\ Return(p, "err")
    BY <1>10, <2>2, SMTT(20) DEF TxRelease, Goto, Answer, Return, Discard,
      GiveBack, EndTransaction
  <2>3. QED BY <1>10, <2>1, <2>2 DEF TxRelease
<1>11. ASSUME FailClosed(p) PROVE IInv'
  BY <1>11, SMTT(20) DEF FailClosed, Goto, Answer, Discard, EndTransaction
<1>12. ASSUME TxClose(p) PROVE IInv'
  <2>1. CASE /\ txState[p] = "open"
             /\ EndTransaction(p) /\ Discard(p)
    BY <1>12, <2>1, SMTT(20) DEF TxClose, Goto, Discard, EndTransaction,
      CloseTransaction
  <2>2. CASE /\ txState[p] # "open"
             /\ UNCHANGED <<held, txState, registered, branchOf, inTx>>
    BY <1>12, <2>2, SMTT(20) DEF TxClose, Goto, Discard, EndTransaction,
      CloseTransaction
  <2>3. QED BY <1>12, <2>1, <2>2 DEF TxClose, CloseTransaction
<1>13. QED BY <1>1, <1>2, <1>3, <1>4, <1>5, <1>6, <1>7, <1>8, <1>9, <1>10,
  <1>11, <1>12

\* The invariant survives Host.Close against callers at any point.
LEMMA CloseSteps ==
  ASSUME IInv, NEW p \in Procs,
         CloseOne(p)
  PROVE  IInv'
<1> USE BranchAssumption, ConnAssumption
<1> USE DEF IInv, TypeOK, CleanPool, InUse, LandsOnceOnTarget, RegistryIsExact,
            Holding, Snapshot, ActiveIsExact, OnBranch, Landing, ActivePcs, Pcs,
            Kinds, HoldPcs, BeginPcs, LockedPcs, OwnerPcs, LandPcs
<1>1. ASSUME CloseOne(p) PROVE IInv'
  <2>1. CASE /\ txState[p] = "open"
             /\ EndTransaction(p) /\ Discard(p)
    BY <1>1, <2>1, SMTT(20) DEF CloseOne, Discard, EndTransaction,
      CloseTransaction, Locked
  <2>2. CASE /\ txState[p] # "open"
             /\ UNCHANGED <<held, txState, registered, branchOf, inTx>>
    BY <1>1, <2>2, SMTT(20) DEF CloseOne, Discard, EndTransaction,
      CloseTransaction, Locked
  <2>3. QED BY <1>1, <2>1, <2>2 DEF CloseOne, CloseTransaction
<1>2. QED BY <1>1

\* The invariant survives the steps of Close that concern no one caller.
LEMMA CloseProgress ==
  ASSUME IInv, CloseStart \/ CloseWait \/ CloseDone
  PROVE  IInv'
<1> USE BranchAssumption, ConnAssumption
<1> USE DEF IInv, TypeOK, CleanPool, InUse, LandsOnceOnTarget, RegistryIsExact,
            Holding, Snapshot, ActiveIsExact, OnBranch, Landing, ActivePcs, Pcs,
            Kinds, HoldPcs, BeginPcs, LockedPcs, OwnerPcs, LandPcs
<1>1. ASSUME CloseStart PROVE IInv'
  BY <1>1, SMTT(20) DEF CloseStart, procVars, dbVars
<1>2. ASSUME CloseWait PROVE IInv'
  BY <1>2, SMTT(20) DEF CloseWait, procVars, dbVars
<1>3. ASSUME CloseDone PROVE IInv'
  BY <1>3, SMTT(20) DEF CloseDone, procVars, dbVars
<1>4. QED BY <1>1, <1>2, <1>3

\* Every step of the host preserves the invariant.
LEMMA NextInv == IInv /\ [Next]_vars => IInv'
<1> SUFFICES ASSUME IInv, [Next]_vars PROVE IInv'
  OBVIOUS
<1>1. CASE UNCHANGED vars
  BY <1>1 DEF vars, hostVars, procVars, dbVars, IInv, TypeOK, CleanPool, InUse,
    LandsOnceOnTarget, RegistryIsExact, Holding, Snapshot, ActiveIsExact,
    OnBranch, Landing
<1>2. CASE Close
  BY <1>2, CloseProgress, CloseSteps DEF Close
<1>3. ASSUME NEW p \in Procs,
             Request(p) \/ AcquireFail(p) \/ TxCall(p) \/ TxGiveUp(p) \/ Advance(p)
      PROVE  IInv'
  BY <1>3, EnterAndLeave, StatementSteps, StateSteps, TransactionSteps DEF Advance
<1>4. QED BY <1>1, <1>2, <1>3 DEF Next

\* IInv holds in every reachable state of the host.
THEOREM Invariance == Spec => []IInv
BY InitInv, NextInv, PTL DEF Spec

\* The state of the host stays well typed.
THEOREM TypeCorrect == Spec => []TypeOK
<1>1. IInv => TypeOK
  BY DEF IInv
<1>2. QED BY <1>1, Invariance, PTL

\* However a request ends, the connection it used is back on main, in
\* autocommit mode, before anyone else can borrow it, and no two share one.
THEOREM PoolStaysClean == Spec => []CleanPool
<1>1. IInv => CleanPool
  BY DEF IInv
<1>2. QED BY <1>1, Invariance, PTL

\* A request writes at most once, and to no branch but its own.
THEOREM WritesLandOnce == Spec => []LandsOnceOnTarget
<1>1. IInv => LandsOnceOnTarget
  BY DEF IInv
<1>2. QED BY <1>1, Invariance, PTL

\* State creation and transactions answer "ok" only for a durable write.
THEOREM OkMeansDurable == Spec => []OkIsDurable
<1>1. IInv => OkIsDurable
  BY DEF IInv, Landing, OkIsDurable
<1>2. QED BY <1>1, Invariance, PTL

\* Host.transactions never misses a transaction a caller can still use.
THEOREM RegistryExact == Spec => []RegistryIsExact
<1>1. IInv => RegistryIsExact
  BY DEF IInv
<1>2. QED BY <1>1, Invariance, PTL

\* When Close returns nothing is held, open or locked, whichever caller was
\* inside Begin, Commit or a deferred Close when it was called.
THEOREM CloseIsQuiet == Spec => []QuietWhenDown
<1>1. ASSUME IInv, closer = "down" PROVE registered = {}
  BY <1>1 DEF IInv, Snapshot
<1>2. ASSUME IInv, closer = "down", NEW p \in Procs
      PROVE  held[p] = NoConn /\ txState[p] # "open"
  <2>1. pc[p] \in {"idle", "enter"} \cup OwnerPcs
    BY <1>2 DEF IInv, TypeOK, Snapshot, ActiveIsExact, Pcs, OwnerPcs
  <2>2. p \notin registered
    BY <1>1, <1>2
  <2>3. QED BY <1>2, <2>1, <2>2
             DEF IInv, Holding, RegistryIsExact, OwnerPcs
<1>3. ASSUME IInv, closer = "down" PROVE InUse \subseteq {NoConn} /\ inTx = {}
  BY <1>2, <1>3, ConnAssumption DEF IInv, TypeOK, CleanPool, InUse
<1>4. IInv => QuietWhenDown
  BY <1>1, <1>2, <1>3 DEF QuietWhenDown
<1>5. QED BY <1>4, Invariance, PTL

-----------------------------------------------------------------------------
(* The host keeps the promise of AtomicWrites.                              *)

\* A caller is pending until the step that answers it.
LEMMA Pending ==
  ASSUME TypeOK, NEW p \in Procs, NEW l \in Pcs, pc[p] # "idle", Goto(p, l)
  PROVE  {q \in Procs : pc'[q] # "idle"} =
           IF l = "idle" THEN {q \in Procs : pc[q] # "idle"} \ {p}
                         ELSE {q \in Procs : pc[q] # "idle"}
BY DEF TypeOK, Goto

\* A step inside a request that writes nothing is invisible.
LEMMA Silent ==
  ASSUME TypeOK, NEW p \in Procs, NEW l \in Pcs \ {"idle"}, pc[p] # "idle",
         Goto(p, l), UNCHANGED <<closer, target, landed>>
  PROVE  UNCHANGED Promise!vars
BY Pending DEF Promise!vars

\* A step to "idle" is the answer.
LEMMA Answered ==
  ASSUME TypeOK, NEW p \in Procs, pc[p] # "idle", Goto(p, "idle"),
         UNCHANGED <<closer, target, landed>>
  PROVE  Promise!Reply(p)
<1>1. "idle" \in Pcs
  BY DEF Pcs
<1>2. QED BY <1>1, Pending DEF Promise!Reply, TypeOK

\* A step that writes is the request's one effect: it had none, its branch is
\* the one named, and its caller is counted in host.active, so Close waits.
LEMMA TakesEffect ==
  ASSUME IInv, NEW p \in Procs, pc[p] \in {"run", "commit", "txcommit"},
         NEW l \in Pcs \ {"idle"}, Goto(p, l), NEW b, b = target[p],
         LandOn(p, b), UNCHANGED <<closer, target>>
  PROVE  Promise!Land(p)
<1>1. closer # "down" /\ landed[p] = <<>> /\ target[p] \in Branches
  BY DEF IInv, TypeOK, Snapshot, ActiveIsExact, ActivePcs, Landing, LandPcs
<1>2. landed' = [landed EXCEPT ![p] = <<target[p]>>]
  BY <1>1, FirstLanding DEF LandOn
<1>3. QED BY <1>1, <1>2, Pending DEF Promise!Land, IInv, TypeOK

\* The steps no caller can see.
LEMMA SilentSteps ==
  ASSUME TypeOK, NEW p \in Procs,
         Acquire(p) \/ AcquireRead(p) \/ Baseline(p) \/ Checkout(p)
           \/ CheckoutFail(p) \/ RunNoWrite(p) \/ BeginImmediate(p)
           \/ Work(p) \/ Rollback(p) \/ TxBegin(p) \/ Register(p)
           \/ TxCall(p) \/ TxGiveUp(p) \/ TxLock(p) \/ TxExecute(p)
           \/ FailClosed(p)
  PROVE  UNCHANGED Promise!vars
<1> USE DEF Pcs, ActivePcs
<1>1. CASE Acquire(p)
  BY <1>1, Silent DEF Acquire, hostVars, dbVars
<1>2. CASE AcquireRead(p)
  BY <1>2, Silent DEF AcquireRead, hostVars, dbVars
<1>3. CASE Baseline(p)
  BY <1>3, Silent DEF Baseline, hostVars
<1>4. CASE Checkout(p)
  BY <1>4, Silent DEF Checkout, hostVars
<1>5. CASE CheckoutFail(p)
  BY <1>5, Silent DEF CheckoutFail, hostVars
<1>6. CASE RunNoWrite(p)
  BY <1>6, Silent DEF RunNoWrite, hostVars
<1>7. CASE BeginImmediate(p)
  BY <1>7, Silent DEF BeginImmediate, hostVars
<1>8. CASE Work(p)
  BY <1>8, Silent DEF Work, hostVars, dbVars
<1>9. CASE Rollback(p)
  BY <1>9, Silent DEF Rollback, hostVars
<1>10. CASE TxBegin(p)
  BY <1>10, Silent DEF TxBegin, hostVars
<1>11. CASE Register(p)
  BY <1>11, Silent DEF Register, dbVars
<1>12. CASE TxCall(p)
  BY <1>12, Silent DEF TxCall, dbVars
<1>13. CASE TxGiveUp(p)
  BY <1>13, Silent DEF TxGiveUp, hostVars, dbVars
<1>14. CASE TxLock(p)
  BY <1>14, Silent DEF TxLock, dbVars
<1>15. CASE TxExecute(p)
  BY <1>15, Silent DEF TxExecute
<1>16. CASE FailClosed(p)
  BY <1>16, Silent DEF FailClosed
<1>17. QED BY <1>1, <1>2, <1>3, <1>4, <1>5, <1>6, <1>7, <1>8, <1>9, <1>10,
  <1>11, <1>12, <1>13, <1>14, <1>15, <1>16

\* The steps that answer a caller.
LEMMA ReplySteps ==
  ASSUME TypeOK, NEW p \in Procs,
         AcquireFail(p) \/ ReadDone(p) \/ BaselineFail(p) \/ Release(p)
           \/ RollbackFail(p) \/ TxBeginFail(p) \/ BeginClose(p)
           \/ TxRelease(p) \/ TxClose(p)
  PROVE  Promise!Reply(p)
<1>1. CASE AcquireFail(p)
  BY <1>1, Answered DEF AcquireFail, Return, dbVars
<1>2. CASE ReadDone(p)
  BY <1>2, Answered DEF ReadDone, Return, dbVars
<1>3. CASE BaselineFail(p)
  BY <1>3, Answered DEF BaselineFail, Return
<1>4. CASE Release(p)
  BY <1>4, Answered DEF Release, Return
<1>5. CASE RollbackFail(p)
  BY <1>5, Answered DEF RollbackFail, Return
<1>6. CASE TxBeginFail(p)
  BY <1>6, Answered DEF TxBeginFail, Return
<1>7. CASE BeginClose(p)
  BY <1>7, Answered DEF BeginClose, Return
<1>8. CASE TxRelease(p)
  BY <1>8, Answered DEF TxRelease, Return
<1>9. CASE TxClose(p)
  BY <1>9, Answered DEF TxClose
<1>10. QED BY <1>1, <1>2, <1>3, <1>4, <1>5, <1>6, <1>7, <1>8, <1>9

\* The steps at which a write may take effect.
LEMMA WriteSteps ==
  ASSUME IInv, NEW p \in Procs, RunWrite(p) \/ CommitState(p) \/ TxCommit(p)
  PROVE  Promise!Land(p) \/ UNCHANGED Promise!vars
<1> USE DEF Pcs, ActivePcs
<1>1. CASE RunWrite(p)
  <2>1. branchOf[held[p]] = target[p]
    BY <1>1 DEF RunWrite, IInv, OnBranch
  <2>2. QED BY <1>1, <2>1, TakesEffect DEF RunWrite, hostVars
<1>2. CASE CommitState(p)
  BY <1>2, Silent, TakesEffect DEF CommitState, hostVars, IInv
<1>3. CASE TxCommit(p)
  <2>1. branchOf[held[p]] = target[p]
    BY <1>3 DEF TxCommit, IInv, OnBranch, Holding, LockedPcs
  <2>2. QED BY <1>3, <2>1, Silent, TakesEffect DEF TxCommit, hostVars, IInv
<1>4. QED BY <1>1, <1>2, <1>3

\* A request and a refusal.
LEMMA AskSteps ==
  ASSUME TypeOK, NEW p \in Procs, Request(p) \/ Enter(p)
  PROVE  Promise!Ask(p) \/ Promise!Reply(p) \/ UNCHANGED Promise!vars
<1>1. CASE Request(p)
  <2>1. PICK b \in Branches : target' = [target EXCEPT ![p] = b]
    BY <1>1 DEF Request
  <2>2. {q \in Procs : pc'[q] # "idle"} = {q \in Procs : pc[q] # "idle"} \cup {p}
    BY <1>1 DEF Request, Goto, TypeOK
  <2>3. QED BY <1>1, <2>1, <2>2 DEF Promise!Ask, Request, hostVars
<1>2. CASE Enter(p)
  BY <1>2, Silent, Answered DEF Enter, Return, dbVars, Pcs, ActivePcs
<1>3. QED BY <1>1, <1>2

\* Close is visible in one instant only: when the pools are closed.
LEMMA ShutSteps ==
  ASSUME TypeOK, Close
  PROVE  Promise!Shut \/ UNCHANGED Promise!vars
<1>1. CASE CloseStart
  BY <1>1 DEF CloseStart, procVars, dbVars, Promise!vars
<1>2. CASE CloseWait
  BY <1>2 DEF CloseWait, procVars, dbVars, Promise!vars
<1>3. CASE CloseDone
  BY <1>3 DEF CloseDone, procVars, dbVars, Promise!Shut
<1>4. ASSUME NEW p \in Procs, CloseOne(p)
      PROVE  UNCHANGED Promise!vars
  BY <1>4 DEF CloseOne, Promise!vars
<1>5. QED BY <1>1, <1>2, <1>3, <1>4 DEF Close

\* The host implements AtomicWrites: pools, discards, clean-ups that fail and
\* Close never show in what callers can observe, and every write is atomic,
\* on the branch that was named, before the host is down.
THEOREM HostKeepsPromise == Spec => KeepsPromise
<1>1. Init => Promise!Init
  BY DEF Init, Promise!Init
<1>2. ASSUME IInv, [Next]_vars PROVE [Promise!Next]_(Promise!vars)
  <2>1. CASE UNCHANGED vars
    BY <2>1 DEF vars, hostVars, procVars, dbVars, Promise!vars
  <2>2. CASE Close
    BY <1>2, <2>2, ShutSteps DEF Promise!Next, IInv
  <2>3. ASSUME NEW p \in Procs,
               Request(p) \/ AcquireFail(p) \/ TxCall(p) \/ TxGiveUp(p) \/ Advance(p)
        PROVE  Promise!Next \/ UNCHANGED Promise!vars
    BY <1>2, <2>3, SilentSteps, ReplySteps, WriteSteps, AskSteps
       DEF Advance, Promise!Next, IInv
  <2>4. QED BY <1>2, <2>1, <2>2, <2>3 DEF Next
<1>3. QED BY <1>1, <1>2, Invariance, PTL DEF Spec, KeepsPromise, Promise!Spec
=============================================================================
