----------------------- MODULE InstanceLifecycle_proofs -----------------------
(***************************************************************************)
(* Safety of InstanceLifecycle for every set of daemons, commands and      *)
(* ports.  The safety properties follow from where each daemon is: which   *)
(* program counters own the lock, have the database open, listen, and what *)
(* the Instance directory has by then.                                     *)
(***************************************************************************)
EXTENDS InstanceLifecycle, TLAPS

Owning == Startup \cup Up \cup Down
Listening == {"publish", "endpoint", "serve"}
Credited == {"open", "bootstrap"} \cup Up \cup {"receipt"}
Adopted == Up \cup {"receipt"}

\* The holder of the lock is exactly the one daemon between AcquireLock and
\* Unlock.
LockHolder == \A d \in Daemons : pc[d] \in Owning <=> lockOwner = d

\* A daemon listens, on one port, exactly from Listen until it shuts down.
OnePort ==
  /\ \A d \in Daemons : Listens(d) <=> pc[d] \in Listening
  /\ \A p, q \in Ports : listener[p] \in Daemons /\ listener[p] = listener[q] => p = q

\* The database is open from OpenDatabase to CloseDatabase at the most, and
\* surely while requests can be served.
WhenOpened ==
  \A d \in Daemons :
    /\ opened[d] => pc[d] \in {"bootstrap", "receipt", "close"} \cup Up
    /\ pc[d] \in {"bootstrap"} \cup Up => opened[d]

\* What a daemon has made sure of by the time it is at a program counter.
Prepared ==
  \A d \in Daemons :
    /\ cred[d] # None => token # None
    /\ pc[d] \in Credited => cred[d] # None
    /\ pc[d] \in Adopted => db \in {"ready", "broken"}

\* What a command has seen: a request carries a credential, and one that is
\* about to mark the Instance was answered by a daemon that was up.
Informed ==
  \A c \in Clients :
    /\ cpc[c] \in {"probe", "reprobe", "token", "connect"} => seen[c] # None
    /\ cpc[c] \in {"connect", "sent"} => held[c] # None
    /\ cpc[c] = "sent" => server[c] # None
    /\ cpc[c] = "mark" => token # None /\ db \in {"ready", "broken"}

IInv ==
  /\ TypeOK /\ LockHolder /\ OnePort /\ WhenOpened /\ Prepared /\ Informed
  /\ PublishedStays /\ ReceiptMeansReady


\* Every step of a daemon keeps the invariant.
LEMMA DaemonKeeps ==
  ASSUME IInv, NEW d \in Daemons, DaemonStep(d)
  PROVE  IInv'
<1> USE NamesAssumption DEF IInv, TypeOK, Locator, Empty, LockHolder, OnePort, WhenOpened, Prepared, Informed,
    PublishedStays, ReceiptMeansReady, Owning, Listening, Credited, Adopted,
    Startup, Up, Down, Listens, files, daemons, clients, Goto, Closed
<1>1. CASE StartDaemon(d)
  BY <1>1, SMTT(30) DEF StartDaemon
<1>2. CASE AcquireLock(d)
  BY <1>2, SMTT(30) DEF AcquireLock
<1>3. CASE ClearStale(d)
  BY <1>3, SMTT(30) DEF ClearStale
<1>4. CASE PublishStarting(d)
  BY <1>4, SMTT(30) DEF PublishStarting
<1>5. CASE LoadCredential(d)
  BY <1>5, SMTT(30) DEF LoadCredential
<1>6. CASE CreateCredential(d)
  BY <1>6, SMTT(30) DEF CreateCredential
<1>7. CASE OpenDatabase(d)
  BY <1>7, SMTT(30) DEF OpenDatabase
<1>8. CASE Bootstrap(d)
  BY <1>8, SMTT(30) DEF Bootstrap
<1>9. CASE StartFails(d)
  BY <1>9, SMTT(30) DEF StartFails
<1>10. CASE Listen(d)
  BY <1>10, SMTT(30) DEF Listen
<1>11. CASE PublishEndpoint(d)
  BY <1>11, SMTT(30) DEF PublishEndpoint
<1>12. CASE WriteEndpoint(d)
  BY <1>12, SMTT(30) DEF WriteEndpoint
<1>13. CASE InitProbe(d)
  BY <1>13, SMTT(30) DEF InitProbe
<1>14. CASE InitDrained(d)
  BY <1>14, SMTT(30) DEF InitDrained
<1>15. CASE PublishReceipt(d)
  BY <1>15, SMTT(30) DEF PublishReceipt
<1>16. CASE Stop(d)
  BY <1>16, SMTT(30) DEF Stop
<1>17. CASE Drained(d)
  BY <1>17, SMTT(30) DEF Drained
<1>18. CASE CloseDatabase(d)
  BY <1>18, SMTT(30) DEF CloseDatabase
<1>19. CASE WipeLocator(d)
  BY <1>19, SMTT(30) DEF WipeLocator
<1>20. CASE Unlock(d)
  BY <1>20, SMTT(30) DEF Unlock
<1>21. CASE Kill(d)
  BY <1>21, SMTT(30) DEF Kill
<1>22. CASE BreakMain(d)
  BY <1>22, SMTT(30) DEF BreakMain
<1> QED
  BY <1>1, <1>2, <1>3, <1>4, <1>5, <1>6, <1>7, <1>8, <1>9, <1>10, <1>11, <1>12, <1>13, <1>14, <1>15, <1>16, <1>17, <1>18, <1>19, <1>20, <1>21, <1>22 DEF DaemonStep

\* Every step of a command keeps the invariant.
LEMMA CommandKeeps ==
  ASSUME IInv, NEW c \in Clients, CommandStep(c)
  PROVE  IInv'
<1> USE NamesAssumption DEF IInv, TypeOK, Locator, Empty, LockHolder, OnePort, WhenOpened, Prepared, Informed,
    PublishedStays, ReceiptMeansReady, Owning, Listening, Credited, Adopted,
    Startup, Up, Down, Listens, files, daemons, clients, Goto, CGoto, End,
    Serving, Credential
<1>1. CASE Begin(c)
  BY <1>1, SMTT(30) DEF Begin
<1>2. CASE ReadLocator(c)
  BY <1>2, SMTT(30) DEF ReadLocator
<1>3. CASE Probe(c)
  BY <1>3, SMTT(30) DEF Probe
<1>4. CASE Spawn(c)
  BY <1>4, SMTT(30) DEF Spawn
<1>5. CASE WaitForLocator(c)
  BY <1>5, SMTT(30) DEF WaitForLocator
<1>6. CASE ProbeAgain(c)
  BY <1>6, SMTT(30) DEF ProbeAgain
<1>7. CASE ReadToken(c)
  BY <1>7, SMTT(30) DEF ReadToken
<1>8. CASE Connect(c)
  BY <1>8, SMTT(30) DEF Connect
<1>9. CASE Answer(c)
  BY <1>9, SMTT(30) DEF Answer
<1>10. CASE GiveUp(c)
  BY <1>10, SMTT(30) DEF GiveUp
<1>11. CASE MarkInitialized(c)
  BY <1>11, SMTT(30) DEF MarkInitialized
<1> QED
  BY <1>1, <1>2, <1>3, <1>4, <1>5, <1>6, <1>7, <1>8, <1>9, <1>10, <1>11 DEF CommandStep

\* What everybody else does keeps the invariant.
LEMMA OthersKeep ==
  ASSUME IInv, InspectTake \/ InspectRelease \/ ForeignPort
  PROVE  IInv'
<1> USE NamesAssumption DEF IInv, TypeOK, Locator, LockHolder, OnePort, WhenOpened,
    Prepared, Informed, PublishedStays, ReceiptMeansReady, Owning, Listening,
    Credited, Adopted, Startup, Up, Down, Listens, files, daemons, clients
<1>1. CASE InspectTake BY <1>1 DEF InspectTake
<1>2. CASE InspectRelease BY <1>2 DEF InspectRelease
<1>3. CASE ForeignPort BY <1>3, SMTT(30) DEF ForeignPort
<1> QED BY <1>1, <1>2, <1>3

\* A step that changes nothing keeps it too.
LEMMA StutterKeeps ==
  ASSUME IInv, UNCHANGED vars
  PROVE  IInv'
  BY DEF IInv, TypeOK, Locator, LockHolder, OnePort, WhenOpened, Prepared, Informed,
    PublishedStays, ReceiptMeansReady, Listens, vars, files, daemons, clients

\* The invariant holds in every reachable state.
THEOREM Invariance == Spec => []IInv
<1>1. Init => IInv
  <2> SUFFICES ASSUME Init PROVE IInv
    OBVIOUS
  <2>1. TypeOK
    BY NamesAssumption DEF Init, TypeOK, Locator, Empty
  <2>2. LockHolder /\ OnePort
    BY NamesAssumption DEF Init, LockHolder, OnePort, Listens, Owning, Listening,
      Startup, Up, Down
  <2>3. WhenOpened /\ Prepared /\ Informed
    BY DEF Init, WhenOpened, Prepared, Informed, Credited, Adopted, Up
  <2>4. PublishedStays /\ ReceiptMeansReady
    BY DEF Init, PublishedStays, ReceiptMeansReady
  <2> QED BY <2>1, <2>2, <2>3, <2>4 DEF IInv
<1>2. IInv /\ [Next]_vars => IInv'
  BY DaemonKeeps, CommandKeeps, OthersKeep, StutterKeeps DEF Next
<1> QED BY <1>1, <1>2, PTL DEF Spec

\* Type correctness of every reachable state.
THEOREM TypeCorrect == Spec => []TypeOK
  BY Invariance, PTL DEF IInv

\* One process at a time has the database open or listens (lock.go, Runtime.Close).
THEOREM OneOwnerAtATime == Spec => []OwnerAlone
<1>1. IInv => OwnerAlone
  BY NamesAssumption DEF IInv, TypeOK, OwnerAlone, LockHolder, OnePort, WhenOpened,
    Owning, Listening, Startup, Up, Down
<1> QED BY <1>1, Invariance, PTL

\* What a serving daemon published is not erased by anyone (lock.go).
THEOREM LocatorStays == Spec => []PublishedStays
  BY Invariance, PTL DEF IInv

\* Initialised means usable (init.go, initialized.go, runtime.ts).
THEOREM InitialisedIsReady == Spec => []ReceiptMeansReady
  BY Invariance, PTL DEF IInv

\* Only the owner of the Instance answers its commands (runtime.ts, api.go).
THEOREM OwnerAnswers == Spec => AnsweredByOwner
<1>1. ASSUME IInv, NEW c \in Clients, Answer(c)
      PROVE  server[c] = lockOwner /\ opened[server[c]]
  <2>1. server[c] \in Daemons
    BY <1>1, NamesAssumption DEF IInv, TypeOK, Informed, Answer, Credential
  <2>2. pc[server[c]] \in Up
    BY <1>1, <2>1 DEF Answer, Serving, Up
  <2> QED BY <1>1, <2>1, <2>2 DEF IInv, LockHolder, WhenOpened, Owning
<1>2. IInv /\ [Next]_vars =>
        [\A c \in Clients : Answer(c) => server[c] = lockOwner /\ opened[server[c]]]_vars
  BY <1>1
<1> QED BY <1>2, Invariance, PTL DEF Spec, AnsweredByOwner
=============================================================================
