--------------------------- MODULE LithographHost ---------------------------
(***************************************************************************)
(* The storage host of the daemon (internal/lithograph): the pool of write *)
(* connections, the operations that borrow one, and Host.Close.            *)
(*                                                                         *)
(* A process is one caller goroutine.  It makes one request at a time:     *)
(*                                                                         *)
(*   query    Query, StreamQuery, ResolveState, QueryMetadata (read pool)  *)
(*   execute  Execute, StreamExecute: a Cypher on a named branch           *)
(*   version  versionWrite and the merge calls: no branch is checked out    *)
(*   state    CreateCommit: BEGIN IMMEDIATE .. COMMIT around a head check  *)
(*   tx       Begin, then any number of Execute, then Commit or Close      *)
(*                                                                         *)
(* SQLite and the Lithograph extension are external.  What they do to a    *)
(* connection is chosen freely among what the code defends itself against: *)
(* a statement fails, it took effect but its answer was lost, it leaves a  *)
(* transaction open or another branch checked out.                         *)
(*                                                                         *)
(* One action is one critical section or one database call.  A connection  *)
(* is used by its holder alone, so the calls of one clean-up, between      *)
(* which nothing can be observed, are one step.                            *)
(***************************************************************************)
EXTENDS Integers, FiniteSets, Sequences

CONSTANTS
  Procs,      \* caller goroutines
  Conns,      \* slots of the write pool (SetMaxOpenConns, 4 in Open)
  ReadSlots,  \* size of the read pool (8 in Open)
  Branches,   \* branch names
  Main,       \* the branch "main"
  NoConn      \* "no connection"

ASSUME BranchAssumption == Main \in Branches
ASSUME ConnAssumption == NoConn \notin Conns
ASSUME ReadAssumption == ReadSlots \in Nat \ {0}

VARIABLES
  \* the Host
  hostClosed,  \* host.closed; the lifetime context is cancelled with it
  closer,      \* progress of Host.Close: "up", "transactions", "wait", "down"
  toClose,     \* the transactions Close copied and has not closed yet
  registered,  \* host.transactions, named by the process that began them
  active,      \* processes counted by host.active
  \* the callers
  pc, kind, target,
  held,        \* the write connection a process or its transaction holds
  txState,     \* "none", "open", "closed": the process's Transaction
  result,      \* "none", "ok", "err": what the last request returned
  \* the database as the code can see it
  branchOf,    \* the branch checked out on each connection
  inTx,        \* connections not in autocommit mode; SQLite has one writer
  landed       \* history: the branches the current request's writes reached

hostVars == <<hostClosed, closer, toClose, registered, active>>
procVars == <<pc, kind, target, held, txState, result>>
dbVars   == <<branchOf, inTx, landed>>
vars     == <<hostVars, procVars, dbVars>>

Kinds == {"query", "execute", "version", "state", "tx"}

\* Pcs at which the caller is inside an operation counted by host.active.
ActivePcs == {"acquire", "reading", "baseline", "checkout", "run", "begin",
              "work", "commit", "rollback", "release", "txbegin", "register",
              "beginclose", "execlock", "commitlock", "execrun", "txcommit",
              "failclosed", "txrelease"}
Pcs == ActivePcs \cup {"idle", "enter", "open", "txclose"}

\* Pcs at which the owner holds Transaction.mu.
Locked(p) == pc[p] \in {"execrun", "txcommit", "failclosed", "txrelease"}

TypeOK ==
  /\ hostClosed \in BOOLEAN
  /\ closer \in {"up", "transactions", "wait", "down"}
  /\ toClose \in SUBSET Procs
  /\ registered \in SUBSET Procs
  /\ active \in SUBSET Procs
  /\ pc \in [Procs -> Pcs]
  /\ kind \in [Procs -> Kinds]
  /\ target \in [Procs -> Branches]
  /\ held \in [Procs -> Conns \cup {NoConn}]
  /\ txState \in [Procs -> {"none", "open", "closed"}]
  /\ result \in [Procs -> {"none", "ok", "err"}]
  /\ branchOf \in [Conns -> Branches]
  /\ inTx \in SUBSET Conns
  /\ landed \in [Procs -> Seq(Branches)]

Init ==
  /\ hostClosed = FALSE /\ closer = "up"
  /\ toClose = {} /\ registered = {} /\ active = {}
  /\ pc = [p \in Procs |-> "idle"]
  /\ kind = [p \in Procs |-> "query"]
  /\ target = [p \in Procs |-> Main]
  /\ held = [p \in Procs |-> NoConn]
  /\ txState = [p \in Procs |-> "none"]
  /\ result = [p \in Procs |-> "none"]
  /\ branchOf = [c \in Conns |-> Main]
  /\ inTx = {}
  /\ landed = [p \in Procs |-> <<>>]

-----------------------------------------------------------------------------
(* Helpers *)

InUse == {held[p] : p \in Procs}

Goto(p, l)     == pc' = [pc EXCEPT ![p] = l]
\* Remember what the request will answer once its deferred clean-up has run.
Answer(p, r)   == result' = [result EXCEPT ![p] = r]
LandOn(p, b)   == landed' = [landed EXCEPT ![p] = Append(landed[p], b)]

\* The caller gets its answer r; the deferred done() leaves host.active.
Return(p, r) ==
  /\ Goto(p, "idle")
  /\ Answer(p, r)
  /\ active' = active \ {p}

\* database/sql forgets a connection that reports ErrBadConn and opens a
\* fresh one in its slot: autocommit mode, main checked out.
Discard(p) ==
  /\ held' = [held EXCEPT ![p] = NoConn]
  /\ branchOf' = [branchOf EXCEPT ![held[p]] = Main]
  /\ inTx' = inTx \ {held[p]}

\* Mutant of GiveBack: the connection goes back as it is.
GiveBackUnchecked(p) ==
  /\ held' = [held EXCEPT ![p] = NoConn]
  /\ UNCHANGED <<branchOf, inTx>>

\* releaseWriteConnection, when its check succeeds: still in autocommit mode,
\* and main is checked out before the connection goes back to the pool.
GiveBack(p) ==
  /\ held[p] \notin inTx
  /\ held' = [held EXCEPT ![p] = NoConn]
  /\ branchOf' = [branchOf EXCEPT ![held[p]] = Main]
  /\ UNCHANGED inTx

\* Mutant of EndTransaction: unregisterTransaction is forgotten.
EndUnregistered(p) ==
  /\ txState' = [txState EXCEPT ![p] = "closed"]
  /\ UNCHANGED registered

\* transaction.closed = true, connection = nil, unregisterTransaction.
EndTransaction(p) ==
  /\ txState' = [txState EXCEPT ![p] = "closed"]
  /\ registered' = registered \ {p}

-----------------------------------------------------------------------------
(* Entering and leaving any operation *)

\* A caller asks for an operation.  Version and merge procedures are given what
\* they change by name and check out no branch: what they write, if it follows
\* the connection, is meant to follow main.
Request(p) ==
  /\ pc[p] = "idle"
  /\ \E k \in Kinds, b \in Branches :
       /\ k \in {"query", "version"} => b = Main
       /\ kind' = [kind EXCEPT ![p] = k]
       /\ target' = [target EXCEPT ![p] = b]
  /\ Goto(p, "enter")
  /\ Answer(p, "none")
  /\ landed' = [landed EXCEPT ![p] = <<>>]
  /\ txState' = [txState EXCEPT ![p] = "none"]
  /\ UNCHANGED <<hostVars, held, branchOf, inTx>>

\* Mutant of Enter: counted before the check, and not uncounted by a refusal.
EnterCounted(p) ==
  /\ pc[p] = "enter"
  /\ active' = active \cup {p}
  /\ \/ hostClosed /\ Goto(p, "idle") /\ Answer(p, "err")
     \/ ~hostClosed /\ Goto(p, "acquire") /\ UNCHANGED result
  /\ UNCHANGED <<hostClosed, closer, toClose, registered, kind, target, held,
                 txState, dbVars>>

\* Host.operationContext: refused once the host is closed.
Enter(p) ==
  /\ pc[p] = "enter"
  /\ \/ hostClosed /\ Return(p, "err")
     \/ /\ ~hostClosed
        /\ active' = active \cup {p}
        /\ Goto(p, "acquire")
        /\ UNCHANGED result
  /\ UNCHANGED <<hostClosed, closer, toClose, registered, kind, target, held,
                 txState, dbVars>>

\* sql.DB.Conn on the write pool: a slot nobody holds.
Acquire(p) ==
  /\ pc[p] = "acquire" /\ kind[p] # "query"
  /\ \E c \in Conns \ InUse : held' = [held EXCEPT ![p] = c]
  /\ Goto(p, "baseline")
  /\ UNCHANGED <<hostVars, kind, target, txState, result, dbVars>>

\* The request's context ended, or Close cancelled it, while waiting for a
\* connection of either pool.
AcquireFail(p) ==
  /\ pc[p] = "acquire"
  /\ Return(p, "err")
  /\ UNCHANGED <<hostClosed, closer, toClose, registered, kind, target, held,
                 txState, dbVars>>

\* Query and its kin hold one slot of the read pool until the rows are done.
AcquireRead(p) ==
  /\ pc[p] = "acquire" /\ kind[p] = "query"
  /\ Cardinality({q \in Procs : pc[q] = "reading"}) < ReadSlots
  /\ Goto(p, "reading")
  /\ UNCHANGED <<hostVars, kind, target, held, txState, result, dbVars>>

ReadDone(p) ==
  /\ pc[p] = "reading"
  /\ \E r \in {"ok", "err"} : Return(p, r)
  /\ UNCHANGED <<hostClosed, closer, toClose, registered, kind, target, held,
                 txState, dbVars>>

\* acquireWriteConnection: check out main first, whatever the pool handed out.
Baseline(p) ==
  /\ pc[p] = "baseline"
  /\ held[p] \notin inTx
  /\ branchOf' = [branchOf EXCEPT ![held[p]] = Main]
  /\ Goto(p, CASE kind[p] = "execute" -> "checkout"
               [] kind[p] = "state"   -> "begin"
               [] kind[p] = "tx"      -> "txbegin"
               [] OTHER               -> "run")
  /\ UNCHANGED <<hostVars, kind, target, held, txState, result, inTx, landed>>

BaselineFail(p) ==
  /\ pc[p] = "baseline"
  /\ Discard(p)
  /\ Return(p, "err")
  /\ UNCHANGED <<hostClosed, closer, toClose, registered, kind, target,
                 txState, landed>>

\* joinWriteCleanup: a clean-up that fails turns any answer into an error.
Release(p) ==
  /\ pc[p] = "release"
  /\ \/ GiveBack(p) /\ Return(p, result[p])
     \/ Discard(p) /\ Return(p, "err")
  /\ UNCHANGED <<hostClosed, closer, toClose, registered, kind, target,
                 txState, landed>>

-----------------------------------------------------------------------------
(* execute and version *)

\* Execute checks out the branch of the request.  A checkout that reports an
\* error may have switched the connection all the same.
Checkout(p) ==
  /\ pc[p] = "checkout"
  /\ branchOf' = [branchOf EXCEPT ![held[p]] = target[p]]
  /\ Goto(p, "run")
  /\ UNCHANGED <<hostVars, kind, target, held, txState, result, inTx, landed>>

\* Mutant of CheckoutFail: the error of the checkout is dropped.
CheckoutIgnored(p) ==
  /\ pc[p] = "checkout"
  /\ Goto(p, "run")
  /\ UNCHANGED <<hostVars, kind, target, held, txState, result, dbVars>>

CheckoutFail(p) ==
  /\ pc[p] = "checkout"
  /\ \E b \in {branchOf[held[p]], target[p]} :
       branchOf' = [branchOf EXCEPT ![held[p]] = b]
  /\ Answer(p, "err") /\ Goto(p, "release")
  /\ UNCHANGED <<hostVars, kind, target, held, txState, inTx, landed>>

\* The statement itself, on the branch the connection has.  It waits for the
\* single writer (busy_timeout) or fails; it may switch the branch for what
\* follows; an answer can be lost after the write took effect.
RunWrite(p) ==
  /\ pc[p] = "run" /\ inTx = {}
  /\ LandOn(p, branchOf[held[p]])
  /\ \E b \in Branches : branchOf' = [branchOf EXCEPT ![held[p]] = b]
  /\ \E r \in {"ok", "err"} : Answer(p, r)
  /\ Goto(p, "release")
  /\ UNCHANGED <<hostVars, kind, target, held, txState, inTx>>

\* Nothing is written: a read, an error, or a stream cut off by its consumer,
\* which may leave the connection inside a transaction.
RunNoWrite(p) ==
  /\ pc[p] = "run"
  /\ \E b \in Branches : branchOf' = [branchOf EXCEPT ![held[p]] = b]
  /\ \/ \E r \in {"ok", "err"} : Answer(p, r) /\ UNCHANGED inTx
     \/ inTx = {} /\ Answer(p, "err") /\ inTx' = {held[p]}
  /\ Goto(p, "release")
  /\ UNCHANGED <<hostVars, kind, target, held, txState, landed>>

-----------------------------------------------------------------------------
(* state: CreateCommit *)

\* BEGIN IMMEDIATE; an error of it may leave the transaction begun.
BeginImmediate(p) ==
  /\ pc[p] = "begin"
  /\ \/ /\ inTx = {} /\ inTx' = {held[p]}
        /\ \/ Goto(p, "work") /\ UNCHANGED result
           \/ Answer(p, "err") /\ Goto(p, "release")
     \/ UNCHANGED inTx /\ Answer(p, "err") /\ Goto(p, "release")
  /\ UNCHANGED <<hostVars, kind, target, held, txState, branchOf, landed>>

\* Re-read the head, create the commit, verify its parent; any of it may fail.
Work(p) ==
  /\ pc[p] = "work"
  /\ \/ Goto(p, "commit") /\ UNCHANGED result
     \/ Answer(p, "err") /\ Goto(p, "rollback")
  /\ UNCHANGED <<hostVars, kind, target, held, txState, dbVars>>

\* COMMIT succeeds, fails, or succeeds with its answer lost.  commit.create
\* was given the branch of the request in its options.
CommitState(p) ==
  /\ pc[p] = "commit"
  /\ \/ /\ LandOn(p, target[p]) /\ inTx' = inTx \ {held[p]}
        /\ \/ Answer(p, "ok") /\ Goto(p, "release")
           \/ Answer(p, "err") /\ Goto(p, "rollback")
     \/ /\ Answer(p, "err") /\ Goto(p, "rollback")
        /\ UNCHANGED <<inTx, landed>>
  /\ UNCHANGED <<hostVars, kind, target, held, txState, branchOf>>

\* The deferred ROLLBACK.  When it fails the connection is discarded there
\* and then, and the outer clean-up finds no connection to release.
Rollback(p) ==
  /\ pc[p] = "rollback" /\ held[p] \in inTx
  /\ inTx' = inTx \ {held[p]}
  /\ Goto(p, "release")
  /\ UNCHANGED <<hostVars, kind, target, held, txState, result, branchOf,
                 landed>>

RollbackFail(p) ==
  /\ pc[p] = "rollback"
  /\ Discard(p)
  /\ Return(p, "err")
  /\ UNCHANGED <<hostClosed, closer, toClose, registered, kind, target,
                 txState, landed>>

-----------------------------------------------------------------------------
(* tx: Begin, Execute, Commit, Close *)

TxBegin(p) ==
  /\ pc[p] = "txbegin" /\ inTx = {}
  /\ inTx' = {held[p]}
  /\ branchOf' = [branchOf EXCEPT ![held[p]] = target[p]]
  /\ txState' = [txState EXCEPT ![p] = "open"]
  /\ Goto(p, "register")
  /\ UNCHANGED <<hostVars, kind, target, held, result, landed>>

\* lithograph_tx_begin fails: branch, expected head, busy writer, cancelled.
TxBeginFail(p) ==
  /\ pc[p] = "txbegin"
  /\ Discard(p)
  /\ Return(p, "err")
  /\ UNCHANGED <<hostClosed, closer, toClose, registered, kind, target,
                 txState, landed>>

\* Mutant of Register: registers without looking at host.closed.
RegisterAlways(p) ==
  /\ pc[p] = "register"
  /\ registered' = registered \cup {p}
  /\ active' = active \ {p}
  /\ Goto(p, "open")
  /\ UNCHANGED <<hostClosed, closer, toClose, kind, target, held, txState,
                 result, dbVars>>

\* registerTransaction, and Begin's return to its caller.
Register(p) ==
  /\ pc[p] = "register"
  /\ \/ /\ hostClosed
        /\ Goto(p, "beginclose")
        /\ UNCHANGED <<registered, active>>
     \/ /\ ~hostClosed
        /\ registered' = registered \cup {p}
        /\ active' = active \ {p}
        /\ Goto(p, "open")
  /\ UNCHANGED <<hostClosed, closer, toClose, kind, target, held, txState,
                 result, dbVars>>

\* Transaction.Close, whoever calls it: abort, then give the connection back,
\* or discard it when either fails.  After a successful abort the connection
\* given back is as clean as the fresh one that replaces a discarded one.
CloseTransaction(p) ==
  \/ /\ txState[p] = "open"
     /\ EndTransaction(p)
     /\ Discard(p)
  \/ /\ txState[p] # "open"
     /\ UNCHANGED <<held, txState, registered, branchOf, inTx>>

\* Begin closes the transaction it could not register.
BeginClose(p) ==
  /\ pc[p] = "beginclose"
  /\ CloseTransaction(p)
  /\ Return(p, "err")
  /\ UNCHANGED <<hostClosed, closer, toClose, kind, target, landed>>

\* The owner calls Execute or Commit: operationContext first.  A refusal, or
\* an error of its own, sends it to its deferred Close.
TxCall(p) ==
  /\ pc[p] = "open"
  /\ ~hostClosed
  /\ active' = active \cup {p}
  /\ \E l \in {"execlock", "commitlock"} : Goto(p, l)
  /\ UNCHANGED <<hostClosed, closer, toClose, registered, kind, target, held,
                 txState, result, dbVars>>

TxGiveUp(p) ==
  /\ pc[p] = "open"
  /\ Goto(p, "txclose")
  /\ Answer(p, "err")
  /\ UNCHANGED <<hostVars, kind, target, held, txState, dbVars>>

\* Transaction.mu is taken; a transaction Close got to first is refused.
TxLock(p) ==
  /\ \/ /\ pc[p] \in {"execlock", "commitlock"} /\ txState[p] = "closed"
        /\ Goto(p, "txclose") /\ Answer(p, "err")
        /\ active' = active \ {p}
     \/ /\ txState[p] = "open"
        /\ \/ pc[p] = "execlock" /\ Goto(p, "execrun")
           \/ pc[p] = "commitlock" /\ Goto(p, "txcommit")
        /\ UNCHANGED <<result, active>>
  /\ UNCHANGED <<hostClosed, closer, toClose, registered, kind, target, held,
                 txState, dbVars>>

\* A statement of the transaction.  One that fails may have ended it.
TxExecute(p) ==
  /\ pc[p] = "execrun"
  /\ \/ Goto(p, "open") /\ active' = active \ {p} /\ UNCHANGED inTx
     \/ /\ Goto(p, "failclosed") /\ UNCHANGED active
        /\ inTx' \in {inTx, inTx \ {held[p]}}
  /\ UNCHANGED <<hostClosed, closer, toClose, registered, kind, target, held,
                 txState, result, branchOf, landed>>

\* Mutant of TxCommit: the error of lithograph_tx_commit is dropped.
TxCommitIgnored(p) ==
  /\ pc[p] = "txcommit"
  /\ inTx' = inTx \ {held[p]}
  /\ Answer(p, "ok") /\ Goto(p, "txrelease")
  /\ UNCHANGED <<hostVars, kind, target, held, txState, branchOf, landed>>

\* lithograph_tx_commit succeeds, fails, or succeeds with its answer lost.
TxCommit(p) ==
  /\ pc[p] = "txcommit"
  /\ \/ /\ LandOn(p, branchOf[held[p]]) /\ inTx' = inTx \ {held[p]}
        /\ \/ Answer(p, "ok") /\ Goto(p, "txrelease")
           \/ Goto(p, "failclosed") /\ UNCHANGED result
     \/ /\ Goto(p, "failclosed")
        /\ inTx' \in {inTx, inTx \ {held[p]}}
        /\ UNCHANGED <<landed, result>>
  /\ UNCHANGED <<hostVars, kind, target, held, txState, branchOf>>

\* Commit's own clean-up: an error of it hides a commit that is durable.
TxRelease(p) ==
  /\ pc[p] = "txrelease"
  /\ EndTransaction(p)
  /\ \/ GiveBack(p) /\ Return(p, result[p])
     \/ Discard(p) /\ Return(p, "err")
  /\ UNCHANGED <<hostClosed, closer, toClose, kind, target, landed>>

\* failClosed: abort if the connection is still in a transaction, then release
\* it; the connection is discarded when either fails.
FailClosed(p) ==
  /\ pc[p] = "failclosed"
  /\ EndTransaction(p)
  /\ Discard(p)
  /\ Goto(p, "txclose") /\ Answer(p, "err")
  /\ active' = active \ {p}
  /\ UNCHANGED <<hostClosed, closer, toClose, kind, target, landed>>

\* The deferred Close of the transaction's owner.
TxClose(p) ==
  /\ pc[p] = "txclose"
  /\ CloseTransaction(p)
  /\ Goto(p, "idle")
  /\ UNCHANGED <<hostClosed, closer, toClose, active, kind, target, result,
                 landed>>

-----------------------------------------------------------------------------
(* Host.Close *)

\* Under host.mu: no new operation, cancel the running ones, copy the map.
CloseStart ==
  /\ closer = "up"
  /\ hostClosed' = TRUE
  /\ toClose' = registered
  /\ closer' = "transactions"
  /\ UNCHANGED <<registered, active, procVars, dbVars>>

\* Close one transaction of the copy, once its owner has left its mutex.
CloseOne(p) ==
  /\ closer = "transactions" /\ p \in toClose
  /\ ~Locked(p)
  /\ CloseTransaction(p)
  /\ toClose' = toClose \ {p}
  /\ UNCHANGED <<hostClosed, closer, active, pc, kind, target, result, landed>>

CloseWait ==
  /\ closer = "transactions" /\ toClose = {}
  /\ closer' = "wait"
  /\ UNCHANGED <<hostClosed, toClose, registered, active, procVars, dbVars>>

\* Mutant of CloseDone: the pools are closed without active.Wait.
CloseUnwaited ==
  /\ closer = "wait"
  /\ closer' = "down"
  /\ UNCHANGED <<hostClosed, toClose, registered, active, procVars, dbVars>>

\* host.active.Wait returned; both pools are closed.
CloseDone ==
  /\ closer = "wait" /\ active = {}
  /\ closer' = "down"
  /\ UNCHANGED <<hostClosed, toClose, registered, active, procVars, dbVars>>

-----------------------------------------------------------------------------

\* The steps a process takes by itself once it is inside an operation.
Advance(p) ==
  \/ Enter(p) \/ Acquire(p) \/ AcquireRead(p) \/ ReadDone(p)
  \/ Baseline(p) \/ BaselineFail(p) \/ Release(p)
  \/ Checkout(p) \/ CheckoutFail(p) \/ RunWrite(p) \/ RunNoWrite(p)
  \/ BeginImmediate(p) \/ Work(p) \/ CommitState(p)
  \/ Rollback(p) \/ RollbackFail(p)
  \/ TxBegin(p) \/ TxBeginFail(p) \/ Register(p) \/ BeginClose(p)
  \/ TxLock(p) \/ TxExecute(p) \/ TxCommit(p)
  \/ TxRelease(p) \/ FailClosed(p) \/ TxClose(p)

Close == CloseStart \/ CloseWait \/ CloseDone \/ \E p \in Procs : CloseOne(p)

Next ==
  \/ \E p \in Procs :
       Request(p) \/ AcquireFail(p) \/ TxCall(p) \/ TxGiveUp(p) \/ Advance(p)
  \/ Close

Spec == Init /\ [][Next]_vars

\* Every database call ends (busy_timeout, the request's context or the five
\* seconds of a clean-up), a cancelled wait for a connection ends, and Close,
\* once begun, is scheduled.  Nothing obliges a caller to ask, a transaction's
\* owner to go on, or the host to be closed.
FairSpec ==
  /\ Spec
  /\ \A p \in Procs : /\ WF_vars(Advance(p))
                      /\ WF_vars(hostClosed /\ AcquireFail(p))
                      /\ WF_vars(CloseOne(p))
  /\ WF_vars(CloseWait) /\ WF_vars(CloseDone)

-----------------------------------------------------------------------------
(* Properties *)

\* A connection nobody holds is in autocommit mode on main, and no two holders
\* share one, so no result depends on which connection the pool hands out:
\* over every error, discard and clean-up path of the five kinds of request.
CleanPool ==
  /\ \A c \in Conns \ InUse : c \notin inTx /\ branchOf[c] = Main
  /\ \A p, q \in Procs : p # q /\ held[p] = held[q] => held[p] = NoConn

\* A request writes at most once and only to its own branch, whatever was left
\* on the connection by its earlier borrowers; version procedures stay on main.
LandsOnceOnTarget == \A p \in Procs : landed[p] \in {<<>>, <<target[p]>>}

\* An "ok" from state creation or a transaction is a durable write: no failure
\* of a clean-up, cancellation or Close can turn a lost write into an ok.
OkIsDurable ==
  \A p \in Procs :
    pc[p] = "idle" /\ result[p] = "ok" /\ kind[p] \in {"state", "tx"}
      => landed[p] = <<target[p]>>

\* Host.transactions names every open transaction whose owner has been handed
\* it: Close cannot miss one, and it keeps none that is over.
RegistryIsExact ==
  \A p \in Procs :
    p \in registered <=> /\ txState[p] = "open"
                         /\ pc[p] \notin {"register", "beginclose"}

\* When Close has closed the pools nobody holds a connection, no transaction
\* is open and no writer lock is left, wherever the callers were.
QuietWhenDown ==
  closer = "down" =>
    /\ InUse \subseteq {NoConn} /\ inTx = {} /\ registered = {}
    /\ \A p \in Procs : txState[p] # "open"

\* The inductive invariant: the properties above, and what they rest on.

\* Which pcs hold a connection, and that a transaction's owner does while the
\* transaction is open.
HoldPcs == {"baseline", "checkout", "run", "begin", "work", "commit",
            "rollback", "release", "txbegin"}
BeginPcs == {"register", "beginclose"}
LockedPcs == {"execrun", "txcommit", "failclosed", "txrelease"}
OwnerPcs == {"open", "execlock", "commitlock", "txclose"}

Holding ==
  \A p \in Procs :
    /\ pc[p] \in HoldPcs => held[p] \in Conns /\ txState[p] # "open"
    /\ pc[p] \in {"idle", "enter", "acquire", "reading"} =>
         held[p] = NoConn /\ txState[p] # "open"
    /\ pc[p] \in BeginPcs \cup LockedPcs =>
         held[p] \in Conns /\ txState[p] = "open"
    /\ pc[p] \in OwnerPcs =>
         \/ held[p] \in Conns /\ txState[p] = "open"
         \/ held[p] = NoConn /\ txState[p] = "closed"

\* What Close has copied: every open transaction, and none still in Begin.
Snapshot ==
  /\ hostClosed <=> closer # "up"
  /\ ~hostClosed => toClose = {}
  /\ hostClosed => registered \subseteq toClose
  /\ closer \in {"wait", "down"} => toClose = {}
  /\ closer = "down" => active = {}
  /\ \A p \in toClose : pc[p] \in {"idle", "enter"} \cup OwnerPcs \cup LockedPcs

\* host.active counts exactly the callers inside an operation.
ActiveIsExact == \A p \in Procs : p \in active <=> pc[p] \in ActivePcs

\* The branch a write will follow is the one the caller named.
OnBranch ==
  \A p \in Procs :
    /\ kind[p] \in {"query", "version"} => target[p] = Main
    /\ pc[p] = "reading" => kind[p] = "query"
    /\ pc[p] = "baseline" => kind[p] # "query"
    /\ pc[p] \in {"checkout", "run"} => kind[p] \in {"execute", "version"}
    /\ pc[p] = "run" => branchOf[held[p]] = target[p]
    /\ txState[p] = "open" => branchOf[held[p]] = target[p]

\* Nothing has landed before the step that writes, and once only after it.
LandPcs == {"idle", "rollback", "release", "failclosed", "txrelease", "txclose"}
Landing ==
  /\ \A p \in Procs : pc[p] \notin LandPcs => landed[p] = <<>>
  /\ \A p \in Procs :
       result[p] = "ok" /\ kind[p] \in {"state", "tx"} => landed[p] = <<target[p]>>

IInv ==
  /\ TypeOK /\ CleanPool /\ LandsOnceOnTarget /\ RegistryIsExact
  /\ Holding /\ Snapshot /\ ActiveIsExact /\ OnBranch /\ Landing

\* Close, once begun, finishes: it never waits for a caller that waits for it.
CloseTerminates == hostClosed ~> closer = "down"

\* The host implements the abstract promise of AtomicWrites.
Promise == INSTANCE AtomicWrites WITH
             pending <- {p \in Procs : pc[p] # "idle"},
             down    <- closer = "down"

\* Every step of the host is one step of the promise or a stutter: pools,
\* retries, clean-ups and Close never show in what callers can observe.
KeepsPromise == Promise!Spec
=============================================================================
