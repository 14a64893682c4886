--------------------------- MODULE ScriptSandbox ---------------------------
(***************************************************************************)
(* The sandbox that runs the JavaScript of the MCP tools kgos_query and    *)
(* kgos_mutate (internal/mcpsandbox), under the HTTP limit of the MCP      *)
(* server (internal/mcpserver).                                            *)
(*                                                                         *)
(* One goroutine owns the guest: it drains the calls the script has made,  *)
(* gives each a goroutine of its own, delivers their answers, and ends     *)
(* when the script has settled or the context is done.  A graph stream is  *)
(* one more goroutine, which holds a pooled connection until its last      *)
(* event.                                                                  *)
(*                                                                         *)
(* The guest's code is any code and shares its realm with the driver that  *)
(* offers it the SDK, so the bridge must stand any sequence of calls: two  *)
(* calls at one stream, a stream-next after stream-return.  Only of the    *)
(* scripts in Intact is it assumed that they leave the built-ins the       *)
(* driver uses as they are, and then the driver's async generator orders   *)
(* the calls at a stream.                                                  *)
(***************************************************************************)
EXTENDS Naturals, FiniteSets

CONSTANTS
    Scripts,          \* tool calls that reach the server
    ReadOnly,         \* those of kgos_query
    Intact,           \* those that leave the driver's built-ins as they are
    MaxConcurrency,   \* scripts the server runs at once
    MaxCalls,         \* calls of one script
    MaxInFlight,      \* calls of one script not yet delivered (16)
    MaxStreams,       \* open streams of one script
    Conns             \* connections of the "read" and of the "write" pool

Pools == {"read", "write"}

ASSUME SandboxAssumption ==
    /\ ReadOnly \subseteq Scripts /\ Intact \subseteq Scripts
    /\ MaxConcurrency \in Nat /\ MaxCalls \in Nat
    /\ MaxInFlight \in Nat /\ MaxStreams \in Nat
    /\ Conns \in [Pools -> Nat \ {0}]

VARIABLES
    phase,      \* of the owner goroutine of a script
    answer,     \* what the tool answers
    ctxDone,    \* the run's context is done: deadline, client gone, or answered
    call,       \* the calls of a script, numbered as they are drained
    session     \* the streams, numbered by the call that opened them

vars == <<phase, answer, ctxDone, call, session>>

Ids == 1 .. MaxCalls

NoCall == [op |-> "none", pool |-> "read", on |-> 0, at |-> "none"]
NoSession == [at |-> "none", pool |-> "read", listed |-> FALSE,
              cancelled |-> FALSE, done |-> FALSE]

Ops == {"kernel", "open", "next", "return"}
CallStages == {"none", "sent", "working", "pulling", "closed",
               "answered", "delivered"}
SessionStages == {"none", "waiting", "holding", "sending", "ended"}

-----------------------------------------------------------------------------
Live(s) == ~ctxDone[s]

Made(s) == {n \in Ids : call[s][n].op # "none"}
InFlight(s) == {n \in Made(s) : call[s][n].at # "delivered"}
Listed(s) == {n \in Ids : session[s][n].listed}

\* Connections of a pool that a call or a stream of any script holds.
Holders(p) ==
    {x \in Scripts \X Ids :
        \/ call[x[1]][x[2]].at = "working" /\ call[x[1]][x[2]].pool = p
        \/ session[x[1]][x[2]].at \in {"holding", "sending"} /\ session[x[1]][x[2]].pool = p}

\* The types, and the two limits that hold of the state: of the streams a
\* script has open, and of the connections of a pool.
TypeOK ==
    /\ phase \in [Scripts -> {"idle", "running", "closing", "closed", "over"}]
    /\ answer \in [Scripts -> {"none", "script", "budget", "interrupted"}]
    /\ ctxDone \in [Scripts -> BOOLEAN]
    /\ call \in [Scripts -> [Ids ->
           [op: Ops \cup {"none"}, pool: Pools, on: 0 .. MaxCalls, at: CallStages]]]
    /\ session \in [Scripts -> [Ids ->
           [at: SessionStages, pool: Pools, listed: BOOLEAN,
            cancelled: BOOLEAN, done: BOOLEAN]]]
    /\ \A s \in Scripts : Cardinality(Listed(s)) <= MaxStreams
    /\ \A p \in Pools : Cardinality(Holders(p)) <= Conns[p]

Init ==
    /\ phase = [s \in Scripts |-> "idle"]
    /\ answer = [s \in Scripts |-> "none"]
    /\ ctxDone = [s \in Scripts |-> FALSE]
    /\ call = [s \in Scripts |-> [n \in Ids |-> NoCall]]
    /\ session = [s \in Scripts |-> [n \in Ids |-> NoSession]]

FreeConn(p) == Cardinality(Holders(p)) < Conns[p]

SetCall(s, n, at) == call' = [call EXCEPT ![s][n].at = at]
SetSession(s, n, at) == session' = [session EXCEPT ![s][n].at = at]

-----------------------------------------------------------------------------
(* The MCP server and the owner goroutine. *)

\* The server answers 429 when MaxConcurrency scripts run.
Start(s) ==
    /\ phase[s] = "idle"
    /\ Cardinality({t \in Scripts : phase[t] \notin {"idle", "over"}}) < MaxConcurrency
    /\ phase' = [phase EXCEPT ![s] = "running"]
    /\ UNCHANGED <<answer, ctxDone, call, session>>

End(s, a) ==
    /\ phase' = [phase EXCEPT ![s] = "closing"]
    /\ answer' = [answer EXCEPT ![s] = a]

\* Mutant: a stream-next does not wait for the one before.
GeneratorBusy(s, n) ==
    /\ call[s][n].op = "open"
    /\ session[s][n].at # "none"
    /\ call[s][n].at = "delivered"
    /\ \A m \in Ids : call[s][m].on = n => call[s][m].op = "next"

\* The driver's async generator as the driver wrote it: one stream-next or
\* stream-return at a time, and only after the stream was opened; after the
\* last event or an error only stream-return, and after that nothing.
GeneratorFree(s, n) ==
    /\ call[s][n].op = "open"
    /\ session[s][n].at # "none"
    /\ call[s][n].at = "delivered"
    /\ \A m \in Ids : call[s][m].on = n =>
           call[s][m].op = "next" /\ call[s][m].at = "delivered"

\* What the driver sends for an intact script; the bridge checks none of it.
DriverAllows(s, c) ==
    /\ c.op \in {"next", "return"} => GeneratorFree(s, c.on)
    /\ c.op = "next" => session[s][c.on].listed

Requests ==
    [op: {"kernel", "open"}, pool: Pools, on: {0}]
      \cup [op: {"next", "return"}, pool: {"read"}, on: Ids]

\* The owner drains one request of the guest and starts its goroutine.
Drain(s, r) ==
    /\ phase[s] = "running" /\ Live(s)
    /\ s \in Intact => DriverAllows(s, r)
    /\ IF Cardinality(Made(s)) >= MaxCalls \/ Cardinality(InFlight(s)) >= MaxInFlight
       THEN End(s, "budget") /\ UNCHANGED call
       ELSE /\ call' = [call EXCEPT ![s][Cardinality(Made(s)) + 1] =
                            [op |-> r.op, pool |-> r.pool, on |-> r.on, at |-> "sent"]]
            /\ UNCHANGED <<phase, answer>>
    /\ UNCHANGED <<ctxDone, session>>

\* A response is taken from the channel and given to the guest.
Deliver(s, n) ==
    /\ phase[s] = "running" /\ Live(s)
    /\ call[s][n].at = "answered"
    /\ SetCall(s, n, "delivered")
    /\ UNCHANGED <<phase, answer, ctxDone, session>>

\* The script has returned or thrown; the calls it did not wait for are still
\* in flight.
Settle(s) ==
    /\ phase[s] = "running" /\ Live(s)
    /\ End(s, "script")
    /\ UNCHANGED <<ctxDone, call, session>>

GiveUp(s) ==
    /\ phase[s] = "running" /\ ~Live(s)
    /\ End(s, "interrupted")
    /\ UNCHANGED <<ctxDone, call, session>>

CloseSessions(s) ==
    session' = [session EXCEPT ![s] = [n \in Ids |->
        IF @[n].listed THEN [@[n] EXCEPT !.listed = FALSE, !.cancelled = TRUE] ELSE @[n]]]

\* invocation.close, the first of the deferred calls.
CloseInvocation(s) ==
    /\ phase[s] = "closing"
    /\ phase' = [phase EXCEPT ![s] = "closed"]
    /\ CloseSessions(s)
    /\ UNCHANGED <<answer, ctxDone, call>>

\* The deferred override of the answer, then the cancel of the run's context.
AnswerAndCancel(s) ==
    /\ phase[s] = "closed"
    /\ phase' = [phase EXCEPT ![s] = "over"]
    /\ answer' = [answer EXCEPT ![s] = IF Live(s) THEN @ ELSE "interrupted"]
    /\ ctxDone' = [ctxDone EXCEPT ![s] = TRUE]
    /\ UNCHANGED <<call, session>>

\* The deadline has passed, or the client is gone: both end the run and are
\* answered with "writes may have completed".
ContextDone(s) ==
    /\ phase[s] \in {"running", "closing", "closed"} /\ Live(s)
    /\ ctxDone' = [ctxDone EXCEPT ![s] = TRUE]
    /\ UNCHANGED <<phase, answer, call, session>>

-----------------------------------------------------------------------------
(* The goroutine of a call. *)

Allowed(s, pool) == pool = "read" \/ s \notin ReadOnly

\* Adapter.Invoke waits for a connection, or is told the context is done.
Invoke(s, n) ==
    /\ call[s][n].op = "kernel" /\ call[s][n].at = "sent"
    /\ \/ /\ ~Allowed(s, call[s][n].pool) \/ ~Live(s)
          /\ SetCall(s, n, "answered")
       \/ /\ Allowed(s, call[s][n].pool)
          /\ FreeConn(call[s][n].pool)
          /\ SetCall(s, n, "working")
    /\ UNCHANGED <<phase, answer, ctxDone, session>>

Invoked(s, n) ==
    /\ call[s][n].at = "working"
    /\ SetCall(s, n, "answered")
    /\ UNCHANGED <<phase, answer, ctxDone, session>>

\* Mutant: the stream's context is not a child of the run's.
CancelledAlone(s, n) == session[s][n].cancelled

\* The stream's context is a child of the run's.
Cancelled(s, n) == session[s][n].cancelled \/ ~Live(s)

StreamOpen(s, n) ==
    /\ call[s][n].op = "open" /\ call[s][n].at = "sent"
    /\ IF ~Allowed(s, call[s][n].pool) \/ Cardinality(Listed(s)) >= MaxStreams
       THEN SetCall(s, n, "answered") /\ UNCHANGED session
       ELSE /\ SetCall(s, n, "answered")
            /\ session' = [session EXCEPT ![s][n] =
                   [at |-> "waiting", pool |-> call[s][n].pool, listed |-> TRUE,
                    cancelled |-> FALSE, done |-> FALSE]]
    /\ UNCHANGED <<phase, answer, ctxDone>>

StreamNext(s, n) ==
    /\ call[s][n].op = "next" /\ call[s][n].at = "sent"
    /\ SetCall(s, n, IF session[s][call[s][n].on].listed THEN "pulling" ELSE "answered")
    /\ UNCHANGED <<phase, answer, ctxDone, session>>

\* The select of stream-next: an event, the closed channel, or the context.
Pull(s, n) ==
    LET k == call[s][n].on
    IN  /\ call[s][n].at = "pulling"
        /\ \/ /\ session[s][k].at = "sending"
              /\ SetCall(s, n, "answered")
              /\ SetSession(s, k, "holding")
           \/ /\ session[s][k].at = "ended"
              /\ SetCall(s, n, "closed")
              /\ UNCHANGED session
           \/ /\ ~Live(s)
              /\ SetCall(s, n, "answered")
              /\ UNCHANGED session
        /\ UNCHANGED <<phase, answer, ctxDone>>

\* Mutant: the stream leaves the map and is not cancelled.
ForgetOnly(s, k) == [session EXCEPT ![s][k].listed = FALSE]

Forget(s, k) ==
    [session EXCEPT ![s][k].listed = FALSE, ![s][k].cancelled = TRUE]

\* err := <-s.done waits for nothing else.
TakeDone(s, n) ==
    LET k == call[s][n].on
    IN  /\ call[s][n].at = "closed"
        /\ session[s][k].done
        /\ SetCall(s, n, "answered")
        /\ session' = [Forget(s, k) EXCEPT ![s][k].done = FALSE]
        /\ UNCHANGED <<phase, answer, ctxDone>>

StreamReturn(s, n) ==
    /\ call[s][n].op = "return" /\ call[s][n].at = "sent"
    /\ SetCall(s, n, "answered")
    /\ session' = IF session[s][call[s][n].on].listed THEN Forget(s, call[s][n].on) ELSE session
    /\ UNCHANGED <<phase, answer, ctxDone>>

-----------------------------------------------------------------------------
(* The goroutine of a stream. *)

Acquire(s, k) ==
    /\ session[s][k].at = "waiting" /\ FreeConn(session[s][k].pool)
    /\ SetSession(s, k, "holding")
    /\ UNCHANGED <<phase, answer, ctxDone, call>>

\* The Kernel has the next event: the unbuffered send waits for a pull.
Emit(s, k) ==
    /\ session[s][k].at = "holding"
    /\ SetSession(s, k, "sending")
    /\ UNCHANGED <<phase, answer, ctxDone, call>>

\* No more events or an error, or the stream's context is done.
StreamEnd(s, k) ==
    /\ \/ session[s][k].at = "holding"
       \/ session[s][k].at \in {"waiting", "sending"} /\ Cancelled(s, k)
    /\ session' = [session EXCEPT ![s][k].at = "ended", ![s][k].done = TRUE]
    /\ UNCHANGED <<phase, answer, ctxDone, call>>

-----------------------------------------------------------------------------
Owner(s) ==
    \/ Start(s) \/ Settle(s) \/ GiveUp(s) \/ CloseInvocation(s) \/ AnswerAndCancel(s)
    \/ \E r \in Requests : Drain(s, r)
    \/ \E n \in Ids : Deliver(s, n)

CallStep(s, n) ==
    \/ Invoke(s, n) \/ Invoked(s, n) \/ StreamOpen(s, n)
    \/ StreamNext(s, n) \/ Pull(s, n) \/ TakeDone(s, n) \/ StreamReturn(s, n)

StreamStep(s, k) == Acquire(s, k) \/ Emit(s, k) \/ StreamEnd(s, k)

Next ==
    \E s \in Scripts :
        \/ Owner(s) \/ ContextDone(s)
        \/ \E n \in Ids : CallStep(s, n) \/ StreamStep(s, n)

(***************************************************************************)
(* A started owner goroutine runs (what the script does is its own         *)
(* choice: nothing makes it settle), the deadline timer fires, and the     *)
(* goroutines of calls and streams are scheduled.  The pools hand          *)
(* connections out in the order of the requests, but no property here      *)
(* needs that: weak fairness of the waiting goroutine is enough.           *)
(***************************************************************************)
Fairness ==
    \A s \in Scripts :
        /\ WF_vars(ContextDone(s))
        /\ WF_vars(GiveUp(s)) /\ WF_vars(CloseInvocation(s)) /\ WF_vars(AnswerAndCancel(s))
        /\ \A n \in Ids : WF_vars(CallStep(s, n)) /\ WF_vars(StreamEnd(s, n))

Spec == Init /\ [][Next]_vars /\ Fairness

-----------------------------------------------------------------------------
(* Properties. *)

\* The receive err := <-s.done (engine.go:288) has no way out, the context
\* included: a call that finds the value taken by another would hold its
\* goroutine for ever.  No call of an intact script does, and a call of any
\* other script that does waits at a stream that has ended, so that it holds
\* no connection.
NoStuckCall ==
    \A s \in Scripts, n \in Ids :
        call[s][n].at = "closed" =>
            LET stream == session[s][call[s][n].on]
            IN  stream.at = "ended" /\ (s \in Intact => stream.done)

\* While the run's context lives, a stream that has not ended and was not
\* cancelled is in the map: stream-return or invocation.close can still reach
\* it.  A stream that is neither cancelled nor listed would hold its connection
\* until the deadline.  An open that lands after invocation.close leaves the
\* stream to the cancel of the context.
StreamsReachable ==
    \A s \in Scripts, k \in Ids :
        session[s][k].at \in {"waiting", "holding", "sending"} /\ ~session[s][k].listed
            => session[s][k].cancelled

\* Scripts that hold every connection of a pool with idle streams starve their
\* own calls and those of the others; the deadline ends this.  Every started
\* script is answered, and then what it still holds is given back: each of its
\* streams ends, and each of its calls, unless the script is not intact and the
\* call waits for a value of done that another has taken.
Released ==
    \A s \in Scripts :
        phase[s] = "running" ~>
            /\ phase[s] = "over"
            /\ \A k \in Ids : session[s][k].at \in {"none", "ended"}
            /\ \A n \in Ids : \/ call[s][n].at \in {"none", "answered", "delivered"}
                              \/ s \notin Intact /\ call[s][n].at = "closed"

\* The goroutine of every call ends once its script is answered: nothing of
\* the invocation is left behind, whatever the script did.
EveryCallEnds ==
    \A s \in Scripts :
        phase[s] = "over" ~>
            \A n \in Ids : call[s][n].at \in {"none", "answered", "delivered"}

=============================================================================
