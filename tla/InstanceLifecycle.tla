-------------------------- MODULE InstanceLifecycle --------------------------
(***************************************************************************)
(* One Instance directory and the processes around it: kgosd processes     *)
(* that want to own it (internal/runtimeprofile/lock.go, internal/runtime, *)
(* internal/daemon/server.go, cmd/kgosd), the kg commands that look for a  *)
(* daemon and start one (packages/cli/src/runtime.ts), and whoever else    *)
(* listens on the machine's ports.                                         *)
(*                                                                         *)
(* What survives a process is in files: the locator inside the lock file,  *)
(* the credential, the database and the receipt of the initialisation.     *)
(* A write of the locator is less than a page and seen whole or not at     *)
(* all; it is preceded by a truncation that readers can see.  A process    *)
(* can be killed between any two steps.                                    *)
(***************************************************************************)
EXTENDS FiniteSets

CONSTANTS
  Daemons,    \* kgosd processes, each started at most once (its pid)
  Clients,    \* kg commands
  Ports,      \* loopback ports
  Foreign,    \* another program, which may be the daemon of another Instance
  Inspector,  \* a caller of InspectDaemon
  None

ASSUME NamesAssumption ==
  /\ Foreign \notin Daemons /\ Inspector \notin Daemons
  /\ None \notin Daemons \cup Ports \cup {Foreign, Inspector}

VARIABLES
  \* the Instance directory
  lockOwner,  \* who holds the lock of kgosd.lock
  locator,    \* what kgosd.lock says: a pid and an endpoint, or less
  token,      \* the credential in auth.json, named by the daemon that made it
  db,         \* kgos.db
  receipt,    \* initialized.json exists
  \* the machine
  listener,   \* who listens on a port
  \* the daemons
  pc, init, secure, cred, opened,
  \* the commands
  cpc, seen, held, server

files   == <<locator, token, db, receipt>>
daemons == <<pc, init, secure, cred, opened>>
clients == <<cpc, seen, held, server>>
vars == <<lockOwner, files, listener, daemons, clients>>

Locator == [pid : Daemons \cup {None}, port : Ports \cup {None}]
Empty == [pid |-> None, port |-> None]

Startup == {"clear", "claim", "load", "create", "open", "bootstrap"}
Up      == {"listen", "publish", "endpoint", "serve", "drain", "probed"}
Down    == {"receipt", "close", "wipe", "unlock"}

TypeOK ==
  /\ lockOwner \in Daemons \cup {Inspector, None}
  /\ locator \in Locator
  /\ token \in Daemons \cup {None}
  /\ db \in {"absent", "fresh", "ready", "broken"}
  /\ receipt \in BOOLEAN
  /\ listener \in [Ports -> Daemons \cup {Foreign, None}]
  /\ pc \in [Daemons -> {"none", "lock", "gone"} \cup Startup \cup Up \cup Down]
  /\ init \in [Daemons -> BOOLEAN] /\ secure \in [Daemons -> BOOLEAN]
  /\ cred \in [Daemons -> Daemons \cup {None}]
  /\ opened \in [Daemons -> BOOLEAN]
  /\ cpc \in [Clients -> {"idle", "look", "probe", "spawn", "wait", "reprobe",
                          "token", "connect", "sent", "mark"}]
  /\ seen \in [Clients -> Ports \cup {None}]
  /\ held \in [Clients -> Daemons \cup {None}]
  /\ server \in [Clients -> Daemons \cup {Foreign, None}]

\* A directory that was never initialised.
Init ==
  /\ lockOwner = None /\ locator = Empty
  /\ token = None /\ db = "absent" /\ receipt = FALSE
  /\ listener = [p \in Ports |-> None]
  /\ pc = [d \in Daemons |-> "none"]
  /\ init = [d \in Daemons |-> FALSE] /\ secure = [d \in Daemons |-> FALSE]
  /\ cred = [d \in Daemons |-> None] /\ opened = [d \in Daemons |-> FALSE]
  /\ cpc = [c \in Clients |-> "idle"]
  /\ seen = [c \in Clients |-> None]
  /\ held = [c \in Clients |-> None] /\ server = [c \in Clients |-> None]

Goto(d, l) == pc' = [pc EXCEPT ![d] = l]
Listens(d) == \E p \in Ports : listener[p] = d
Closed(d) == [p \in Ports |-> IF listener[p] = d THEN None ELSE listener[p]]

-----------------------------------------------------------------------------
(* kgosd: start *)

\* Mutant of AcquireLock: the file is opened with O_TRUNC.
AcquireTruncating(d) ==
  /\ pc[d] = "lock"
  /\ IF lockOwner = None THEN lockOwner' = d /\ Goto(d, "clear")
                         ELSE Goto(d, "gone") /\ UNCHANGED lockOwner
  /\ locator' = Empty
  /\ UNCHANGED <<token, db, receipt, listener, init, secure, cred, opened, clients>>

\* AcquireLock: one attempt; whoever finds the lock taken ends with ErrLocked.
AcquireLock(d) ==
  /\ pc[d] = "lock"
  /\ IF lockOwner = None THEN lockOwner' = d /\ Goto(d, "clear")
                         ELSE Goto(d, "gone") /\ UNCHANGED lockOwner
  /\ UNCHANGED <<files, listener, init, secure, cred, opened, clients>>

\* lock.replace(nil), and the truncation that starts PublishStarting.
ClearStale(d) ==
  /\ pc[d] = "clear" /\ locator' = Empty /\ Goto(d, "claim")
  /\ UNCHANGED <<lockOwner, token, db, receipt, listener, init, secure, cred, opened, clients>>

PublishStarting(d) ==
  /\ pc[d] = "claim" /\ locator' = [pid |-> d, port |-> None] /\ Goto(d, "load")
  /\ UNCHANGED <<lockOwner, token, db, receipt, listener, init, secure, cred, opened, clients>>

LoadCredential(d) ==
  /\ pc[d] = "load"
  /\ IF token = None THEN Goto(d, "create") /\ UNCHANGED cred
                     ELSE Goto(d, "open") /\ cred' = [cred EXCEPT ![d] = token]
  /\ UNCHANGED <<lockOwner, files, listener, init, secure, opened, clients>>

\* createCredential: a private file, a last look at auth.json, a rename.
CreateCredential(d) ==
  /\ pc[d] = "create"
  /\ IF token # None
     THEN Goto(d, "close") /\ UNCHANGED <<token, cred>>
     ELSE token' = d /\ cred' = [cred EXCEPT ![d] = d] /\ Goto(d, "open")
  /\ UNCHANGED <<lockOwner, locator, db, receipt, listener, init, secure, opened, clients>>

\* lithograph.Open: a new database has one empty root State.
OpenDatabase(d) ==
  /\ pc[d] = "open"
  /\ opened' = [opened EXCEPT ![d] = TRUE]
  /\ db' = IF db = "absent" THEN "fresh" ELSE db
  /\ Goto(d, "bootstrap")
  /\ UNCHANGED <<lockOwner, locator, token, receipt, listener, init, secure, cred, clients>>

\* kernel.Open: main is valid, or the database is a fresh root and adopted in
\* one transaction, or the daemon does not start.
Bootstrap(d) ==
  /\ pc[d] = "bootstrap"
  /\ IF db = "broken" THEN Goto(d, "close") /\ UNCHANGED db
                      ELSE Goto(d, "listen") /\ db' = "ready"
  /\ UNCHANGED <<lockOwner, locator, token, receipt, listener, init, secure, cred, opened, clients>>

\* Any step of the start can fail; what was opened is closed.
StartFails(d) ==
  /\ pc[d] \in Startup \cup {"listen"}
  /\ Goto(d, "close")
  /\ UNCHANGED <<lockOwner, files, listener, init, secure, cred, opened, clients>>

\* net.Listen; the server accepts from here on.
Listen(d) ==
  /\ pc[d] = "listen"
  /\ \E p \in Ports : listener[p] = None /\ listener' = [listener EXCEPT ![p] = d]
  /\ Goto(d, "publish")
  /\ UNCHANGED <<lockOwner, files, init, secure, cred, opened, clients>>

\* PublishRunning validates the endpoint before it truncates.  It takes plain
\* http only, so a daemon with TLS shuts its server down and ends here.
PublishEndpoint(d) ==
  /\ pc[d] = "publish"
  /\ IF secure[d] THEN /\ listener' = Closed(d) /\ Goto(d, "close")
                       /\ UNCHANGED locator
                  ELSE /\ locator' = Empty /\ Goto(d, "endpoint")
                       /\ UNCHANGED listener
  /\ UNCHANGED <<lockOwner, token, db, receipt, init, secure, cred, opened, clients>>

WriteEndpoint(d) ==
  /\ pc[d] = "endpoint"
  /\ locator' = [pid |-> d, port |-> CHOOSE p \in Ports : listener[p] = d]
  /\ Goto(d, "serve")
  /\ UNCHANGED <<lockOwner, token, db, receipt, listener, init, secure, cred, opened, clients>>

-----------------------------------------------------------------------------
(* kgosd: initialisation and end *)

\* Mutant of InitProbe: the receipt does not wait for the daemon to be ready.
InitUnprobed(d) ==
  /\ init[d] /\ pc[d] \in Startup
  /\ receipt' = TRUE
  /\ UNCHANGED <<lockOwner, locator, token, db, listener, daemons, clients>>

\* initializeRuntime: it finds its own endpoint and asks itself for the
\* overview with the credential; then the server is told to stop.
InitProbe(d) ==
  /\ init[d] /\ pc[d] = "serve"
  /\ locator.port # None /\ listener[locator.port] = d /\ cred[d] # None
  /\ listener' = Closed(d) /\ Goto(d, "probed")
  /\ UNCHANGED <<lockOwner, files, init, secure, cred, opened, clients>>

\* The one-shot server has ended without an error, or not.
InitDrained(d) ==
  /\ pc[d] = "probed" /\ \E l \in {"receipt", "close"} : Goto(d, l)
  /\ UNCHANGED <<lockOwner, files, listener, init, secure, cred, opened, clients>>

PublishReceipt(d) ==
  /\ pc[d] = "receipt" /\ receipt' = TRUE /\ Goto(d, "close")
  /\ UNCHANGED <<lockOwner, locator, token, db, listener, init, secure, cred, opened, clients>>

\* A signal, or the end of the time an initialisation has: the listener is
\* closed first, then requests get five seconds to end.
Stop(d) ==
  /\ pc[d] = "serve"
  /\ listener' = Closed(d) /\ Goto(d, "drain")
  /\ UNCHANGED <<lockOwner, files, init, secure, cred, opened, clients>>

Drained(d) ==
  /\ pc[d] = "drain" /\ Goto(d, "close")
  /\ UNCHANGED <<lockOwner, files, listener, init, secure, cred, opened, clients>>

\* Mutant of CloseDatabase: Runtime.Close releases the lock first.
CloseLockFirst(d) ==
  /\ pc[d] = "close"
  /\ lockOwner' = None /\ Goto(d, "wipe")
  /\ UNCHANGED <<files, listener, init, secure, cred, opened, clients>>

\* Runtime.Close: the database, then the lock.
CloseDatabase(d) ==
  /\ pc[d] = "close"
  /\ opened' = [opened EXCEPT ![d] = FALSE] /\ Goto(d, "wipe")
  /\ UNCHANGED <<lockOwner, files, listener, init, secure, cred, clients>>

\* clearLocator; an error does not keep the lock from being released.
WipeLocator(d) ==
  /\ pc[d] = "wipe" /\ locator' \in {locator, Empty} /\ Goto(d, "unlock")
  /\ UNCHANGED <<lockOwner, token, db, receipt, listener, init, secure, cred, opened, clients>>

Unlock(d) ==
  /\ pc[d] = "unlock" /\ lockOwner' = None /\ Goto(d, "gone")
  /\ UNCHANGED <<files, listener, init, secure, cred, opened, clients>>

\* The process is killed: the system frees its lock, ports and connections.
Kill(d) ==
  /\ pc[d] \notin {"none", "gone"}
  /\ lockOwner' = IF lockOwner = d THEN None ELSE lockOwner
  /\ listener' = Closed(d)
  /\ opened' = [opened EXCEPT ![d] = FALSE]
  /\ Goto(d, "gone")
  /\ UNCHANGED <<files, init, secure, cred, clients>>

\* Raw graph execution can leave main inconsistent.
BreakMain(d) ==
  /\ pc[d] = "serve" /\ db' = "broken"
  /\ UNCHANGED <<lockOwner, locator, token, receipt, listener, daemons, clients>>

-----------------------------------------------------------------------------
(* kg: find a daemon or start one *)

CGoto(c, l) == cpc' = [cpc EXCEPT ![c] = l]
\* A command that ends, in an answer or an error, forgets everything.
End(c) ==
  /\ CGoto(c, "idle") /\ seen' = [seen EXCEPT ![c] = None]
  /\ held' = [held EXCEPT ![c] = None] /\ server' = [server EXCEPT ![c] = None]

\* A business command is refused without the receipt, so that what begins
\* without it is kg init.
Begin(c) ==
  /\ cpc[c] = "idle" /\ CGoto(c, "look")
  /\ UNCHANGED <<lockOwner, files, listener, daemons, seen, held, server>>

ReadLocator(c) ==
  /\ cpc[c] = "look"
  /\ seen' = [seen EXCEPT ![c] = locator.port]
  /\ CGoto(c, IF locator.port = None THEN "spawn" ELSE "probe")
  /\ UNCHANGED <<lockOwner, files, listener, daemons, held, server>>

\* endpointReachable: anything that accepts a connection.
Probe(c) ==
  /\ cpc[c] = "probe"
  /\ CGoto(c, IF listener[seen[c]] = None THEN "spawn" ELSE "token")
  /\ UNCHANGED <<lockOwner, files, listener, daemons, seen, held, server>>

Spawn(c) ==
  /\ cpc[c] = "spawn"
  /\ \E d \in Daemons : pc[d] = "none" /\ Goto(d, "lock")
  /\ CGoto(c, "wait")
  /\ UNCHANGED <<lockOwner, files, listener, init, secure, cred, opened, seen, held, server>>

WaitForLocator(c) ==
  /\ cpc[c] = "wait" /\ locator.port # None
  /\ seen' = [seen EXCEPT ![c] = locator.port] /\ CGoto(c, "reprobe")
  /\ UNCHANGED <<lockOwner, files, listener, daemons, held, server>>

ProbeAgain(c) ==
  /\ cpc[c] = "reprobe"
  /\ CGoto(c, IF listener[seen[c]] = None THEN "wait" ELSE "token")
  /\ UNCHANGED <<lockOwner, files, listener, daemons, seen, held, server>>

ReadToken(c) ==
  /\ cpc[c] = "token" /\ token # None
  /\ held' = [held EXCEPT ![c] = token] /\ CGoto(c, "connect")
  /\ UNCHANGED <<lockOwner, files, listener, daemons, seen, server>>

Connect(c) ==
  /\ cpc[c] = "connect" /\ listener[seen[c]] # None
  /\ server' = [server EXCEPT ![c] = listener[seen[c]]] /\ CGoto(c, "sent")
  /\ UNCHANGED <<lockOwner, files, listener, daemons, seen, held>>

\* No daemon to spawn, no credential, nobody on the port, a refused bearer, the
\* end of the wait, a daemon that ended before it answered.
GiveUp(c) ==
  /\ cpc[c] \notin {"idle", "mark"} /\ End(c)
  /\ UNCHANGED <<lockOwner, files, listener, daemons>>

\* From the start of the server to the end of its shutdown.
Serving(s) ==
  s \in Daemons => pc[s] \in {"publish", "endpoint", "serve", "drain", "probed"}

\* Another Instance has another credential.
Credential(s) == IF s = Foreign THEN Foreign ELSE cred[s]

\* Mutant of Answer: any bearer is served.
AnswerAnyone(c) ==
  /\ cpc[c] = "sent" /\ Serving(server[c])
  /\ End(c)
  /\ UNCHANGED <<lockOwner, files, listener, daemons>>

\* The server compares the bearer with its credential before it does anything.
\* An answered kg init goes on to mark the Instance initialised.
Answer(c) ==
  /\ cpc[c] = "sent" /\ Serving(server[c])
  /\ Credential(server[c]) = held[c]
  /\ IF receipt THEN End(c) ELSE CGoto(c, "mark") /\ UNCHANGED <<seen, held, server>>
  /\ UNCHANGED <<lockOwner, files, listener, daemons>>

MarkInitialized(c) ==
  /\ cpc[c] = "mark" /\ receipt' = TRUE /\ End(c)
  /\ UNCHANGED <<lockOwner, locator, token, db, listener, daemons>>

-----------------------------------------------------------------------------
(* Everybody else *)

\* A supervisor or a user starts a daemon, as a server or to initialise.
StartDaemon(d) ==
  /\ pc[d] = "none" /\ Goto(d, "lock")
  /\ \E i, s \in BOOLEAN :
       ~(i /\ s) /\ init' = [init EXCEPT ![d] = i] /\ secure' = [secure EXCEPT ![d] = s]
  /\ UNCHANGED <<lockOwner, files, listener, cred, opened, clients>>

\* InspectDaemon takes the lock for an instant to see whether it is free.
InspectTake ==
  /\ lockOwner = None /\ lockOwner' = Inspector
  /\ UNCHANGED <<files, listener, daemons, clients>>
InspectRelease ==
  /\ lockOwner = Inspector /\ lockOwner' = None
  /\ UNCHANGED <<files, listener, daemons, clients>>

\* Another program takes or leaves a port.
ForeignPort ==
  /\ \E p \in Ports :
       \/ listener[p] = None /\ listener' = [listener EXCEPT ![p] = Foreign]
       \/ listener[p] = Foreign /\ listener' = [listener EXCEPT ![p] = None]
  /\ UNCHANGED <<lockOwner, files, daemons, clients>>

-----------------------------------------------------------------------------

DaemonStep(d) ==
  \/ StartDaemon(d) \/ AcquireLock(d) \/ ClearStale(d) \/ PublishStarting(d)
  \/ LoadCredential(d) \/ CreateCredential(d) \/ OpenDatabase(d) \/ Bootstrap(d)
  \/ StartFails(d) \/ Listen(d) \/ PublishEndpoint(d) \/ WriteEndpoint(d)
  \/ InitProbe(d) \/ InitDrained(d) \/ PublishReceipt(d)
  \/ Stop(d) \/ Drained(d) \/ CloseDatabase(d) \/ WipeLocator(d) \/ Unlock(d)
  \/ Kill(d) \/ BreakMain(d)

CommandStep(c) ==
  \/ Begin(c) \/ ReadLocator(c) \/ Probe(c) \/ Spawn(c)
  \/ WaitForLocator(c) \/ ProbeAgain(c) \/ ReadToken(c) \/ Connect(c)
  \/ Answer(c) \/ GiveUp(c) \/ MarkInitialized(c)

Next ==
  \/ \E d \in Daemons : DaemonStep(d)
  \/ \E c \in Clients : CommandStep(c)
  \/ InspectTake \/ InspectRelease \/ ForeignPort

Spec == Init /\ [][Next]_vars

-----------------------------------------------------------------------------
(* Properties *)

\* The database is open, and a port listened to, only by the process that holds
\* the lock: no start, failure, shutdown or kill lets two daemons overlap.
OwnerAlone ==
  \A d \in Daemons : opened[d] \/ Listens(d) => lockOwner = d

\* What a serving daemon published stays: no process that loses the lock, ends
\* late or looks at the lock file erases it or leaves another endpoint there.
PublishedStays ==
  \A d \in Daemons : pc[d] = "serve" =>
    locator.pid = d /\ locator.port # None /\ listener[locator.port] = d

\* The receipt means that the Instance can be used without initialisation:
\* whoever wrote it, a credential and an adopted database were there before.
ReceiptMeansReady == receipt => token # None /\ db \in {"ready", "broken"}

\* However stale the endpoint a command found and whoever took the port since,
\* it is answered only by the daemon that owns its Instance at that moment.
AnsweredByOwner ==
  [][\A c \in Clients : Answer(c) => server[c] = lockOwner /\ opened[server[c]]]_vars
=============================================================================
