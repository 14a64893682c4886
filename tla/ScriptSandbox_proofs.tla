------------------------- MODULE ScriptSandbox_proofs -------------------------
(***************************************************************************)
(* What holds of the calls and streams of scripts, for every number of     *)
(* scripts, calls, streams and connections, and whichever of the scripts   *)
(* are intact.  Of every script: no stream is lost sight of, and a call    *)
(* that waits for the end of a stream waits at one that has ended.  Of an  *)
(* intact one: that call finds the end's one value of done, because the    *)
(* driver lets one call at a time work on the stream, and the call that    *)
(* takes the value takes the stream off the map.                           *)
(***************************************************************************)
EXTENDS ScriptSandbox, FiniteSetTheorems, TLAPS

Call == [op : Ops \cup {"none"}, pool : Pools, on : 0 .. MaxCalls, at : CallStages]
Session == [at : SessionStages, pool : Pools, listed : BOOLEAN,
            cancelled : BOOLEAN, done : BOOLEAN]

Types ==
    /\ call \in [Scripts -> [Ids -> Call]]
    /\ session \in [Scripts -> [Ids -> Session]]

\* The calls that work on a stream.
OnStream(s, n) == call[s][n].op \in {"next", "return"}

\* The calls of a script fill its numbers from one on.
Numbered == \A s \in Scripts : \E k \in 0 .. MaxCalls : Made(s) = 1 .. k

\* A number has a stream once its call has opened one, and only then.
OpenedByCall ==
    \A s \in Scripts, n \in Ids :
        /\ call[s][n].op # "open" => session[s][n].at = "none"
        /\ call[s][n].at = "sent" => session[s][n].at = "none"

\* A call at a stream names one by its number.
NamesStream == \A s \in Scripts, n \in Ids : OnStream(s, n) => call[s][n].on \in Ids

\* A call of an intact script works on a stream that was opened, and alone: the
\* one before it was delivered when it was made.
OneAtATime ==
    \A s \in Intact, n \in Ids : OnStream(s, n) =>
        /\ session[s][call[s][n].on].at # "none"
        /\ \A m \in Ids :
               OnStream(s, m) /\ call[s][m].on = call[s][n].on /\ m # n
                   => "delivered" \in {call[s][m].at, call[s][n].at}

\* A call waits for an event or for the value of done only as stream-next.
WaitsAsNext ==
    \A s \in Scripts, n \in Ids :
        call[s][n].at \in {"pulling", "closed"} => call[s][n].op = "next"

\* The value of done is there from the end of the stream until a call took it,
\* and that call took the stream off the map.  Of an intact script no other
\* call was at the stream then, and none comes.
DoneUntilTaken ==
    \A s \in Scripts, k \in Ids :
        session[s][k].at = "ended" /\ ~session[s][k].done =>
            /\ ~session[s][k].listed
            /\ s \in Intact =>
                 \A n \in Ids : OnStream(s, n) /\ call[s][n].on = k =>
                     call[s][n].at \notin {"pulling", "closed"}

\* What a call that waits for done knows: the stream has ended.
ClosedAfterEnd ==
    \A s \in Scripts, n \in Ids :
        call[s][n].at = "closed" => session[s][call[s][n].on].at = "ended"

IInv ==
    /\ Types /\ Numbered /\ OpenedByCall /\ NamesStream /\ OneAtATime /\ WaitsAsNext
    /\ DoneUntilTaken /\ ClosedAfterEnd /\ StreamsReachable

-----------------------------------------------------------------------------

\* The next number is free: what is made is an interval from one on.
LEMMA NextNumberFree ==
    ASSUME Numbered, NEW s \in Scripts, MaxCalls \in Nat,
           Cardinality(Made(s)) < MaxCalls
    PROVE  LET k == Cardinality(Made(s))
           IN  k \in 0 .. MaxCalls /\ k + 1 \in Ids /\ Made(s) = 1 .. k
<1>1. PICK k \in 0 .. MaxCalls : Made(s) = 1 .. k
  BY DEF Numbered
<1>2. Cardinality(1 .. k) = k
  <2>1. Cardinality(1 .. k) = IF 1 > k THEN 0 ELSE k - 1 + 1
    BY <1>1, FS_Interval
  <2> QED
    BY <2>1, <1>1
<1> QED
  BY <1>1, <1>2 DEF Ids

LEMMA InitInv ==
    ASSUME Init
    PROVE  IInv
<1> USE SandboxAssumption DEF Init, NoCall, NoSession, Ids
<1>1. Types
  BY DEF Types, Call, Session, Ops, Pools, CallStages, SessionStages
<1>2. Numbered
  <2>1. 0 \in 0 .. MaxCalls /\ 1 .. 0 = {}
    OBVIOUS
  <2>2. \A s \in Scripts : Made(s) = {}
    BY DEF Made
  <2> QED
    BY <2>1, <2>2 DEF Numbered
<1>3. OpenedByCall /\ NamesStream /\ OneAtATime /\ WaitsAsNext /\ DoneUntilTaken /\ ClosedAfterEnd
  BY DEF OpenedByCall, NamesStream, OneAtATime, OnStream, WaitsAsNext, DoneUntilTaken, ClosedAfterEnd
<1>4. StreamsReachable
  BY DEF StreamsReachable
<1> QED
  BY <1>1, <1>2, <1>3, <1>4 DEF IInv

\* A step that makes no call keeps the numbering.
LEMMA SameNumbers ==
    ASSUME Numbered, \A s \in Scripts, n \in Ids : call'[s][n].op = call[s][n].op
    PROVE  Numbered'
BY DEF Numbered, Made

\* The owner drains a request: the one new call of an intact script works on a
\* stream whose calls were all delivered.
LEMMA DrainKeeps ==
    ASSUME IInv, NEW s \in Scripts, NEW r \in Requests, Drain(s, r)
    PROVE  IInv'
<1> DEFINE k == Cardinality(Made(s))
<1>1. CASE UNCHANGED call
  <2>1. UNCHANGED <<call, session>>
    BY <1>1 DEF Drain
  <2> QED
    BY <2>1 DEF IInv, Types, Numbered, Made, OpenedByCall, NamesStream, OneAtATime, OnStream, WaitsAsNext,
        DoneUntilTaken, ClosedAfterEnd, StreamsReachable
<1>2. CASE k < MaxCalls /\ call' = [call EXCEPT ![s][k + 1] =
               [op |-> r.op, pool |-> r.pool, on |-> r.on, at |-> "sent"]]
  <2>1. k \in 0 .. MaxCalls /\ k + 1 \in Ids /\ Made(s) = 1 .. k
    BY <1>2, NextNumberFree, SandboxAssumption DEF IInv
  <2> HIDE DEF k
  <2>2. call[s][k + 1].op = "none"
    BY <2>1 DEF Made
  <2>3. r \in [op: {"kernel", "open"}, pool: Pools, on: {0}]
               \cup [op: {"next", "return"}, pool: {"read"}, on: Ids]
    BY DEF Requests
  <2>4. r.op \in Ops /\ r.pool \in Pools /\ r.on \in 0 .. MaxCalls
        /\ (r.op \in {"next", "return"} => r.on \in Ids)
    BY <2>3, SandboxAssumption DEF Ops, Pools, Ids
  <2>5. UNCHANGED session
    BY DEF Drain
  <2> DEFINE new == [op |-> r.op, pool |-> r.pool, on |-> r.on, at |-> "sent"]
  <2>6. new \in Call
    BY <2>4 DEF Call, CallStages
  <2>7. Types'
    BY <1>2, <2>1, <2>5, <2>6 DEF IInv, Types
  <2>8. /\ call'[s][k + 1] = new
        /\ \A t \in Scripts, n \in Ids : t # s \/ n # k + 1 => call'[t][n] = call[t][n]
    BY <1>2, <2>1 DEF IInv, Types
  <2>9. Numbered'
    <3>1. Made(s)' = 1 .. (k + 1)
      BY <2>1, <2>4, <2>8, SandboxAssumption DEF Made, Ops, Ids
    <3>2. k + 1 \in 0 .. MaxCalls
      BY <2>1 DEF Ids
    <3>3. \A t \in Scripts : t # s => Made(t)' = Made(t)
      BY <2>8 DEF Made
    <3> QED
      BY <3>1, <3>2, <3>3 DEF IInv, Numbered
  <2>10. OpenedByCall'
    BY <2>1, <2>2, <2>5, <2>8 DEF IInv, OpenedByCall
  <2>11. s \in Intact /\ r.op \in {"next", "return"} => GeneratorFree(s, r.on)
    BY DEF Drain, DriverAllows
  <2>12a. NamesStream'
    BY <2>1, <2>4, <2>8 DEF IInv, NamesStream, OnStream
  <2>12. OneAtATime'
    <3> SUFFICES ASSUME NEW t \in Intact, NEW n \in Ids, OnStream(t, n)'
                 PROVE  /\ session'[t][call'[t][n].on].at # "none"
                        /\ \A m \in Ids :
                             OnStream(t, m)' /\ call'[t][m].on = call'[t][n].on /\ m # n
                               => "delivered" \in {call'[t][m].at, call'[t][n].at}
      BY DEF OneAtATime
    <3>1. CASE t = s /\ n = k + 1
      BY <3>1, <2>1, <2>4, <2>5, <2>8, <2>11 DEF OnStream, GeneratorFree
    <3>2. CASE t # s \/ n # k + 1
      BY <3>2, <2>1, <2>4, <2>5, <2>8, <2>11, SandboxAssumption DEF IInv, NamesStream, OneAtATime, OnStream, GeneratorFree
    <3> QED
      BY <3>1, <3>2
  <2>13. WaitsAsNext'
    BY <2>1, <2>8 DEF IInv, WaitsAsNext
  <2>14. DoneUntilTaken'
    BY <2>1, <2>5, <2>8 DEF IInv, DoneUntilTaken, OnStream
  <2>15. ClosedAfterEnd'
    BY <2>1, <2>5, <2>8 DEF IInv, ClosedAfterEnd
  <2>16. StreamsReachable'
    BY <2>5 DEF IInv, StreamsReachable
  <2> QED
    BY <2>7, <2>9, <2>10, <2>12a, <2>12, <2>13, <2>14, <2>15, <2>16 DEF IInv
<1> QED
  <2>1. Cardinality(Made(s)) >= MaxCalls \/ k < MaxCalls
    <3>1. PICK i \in 0 .. MaxCalls : Made(s) = 1 .. i
      BY DEF IInv, Numbered
    <3>2. Cardinality(Made(s)) = IF 1 > i THEN 0 ELSE i - 1 + 1
      BY <3>1, FS_Interval
    <3> QED
      BY <3>1, <3>2, SandboxAssumption
  <2> QED
    BY <1>1, <1>2, <2>1 DEF Drain

-----------------------------------------------------------------------------

\* The parts of the invariant that relate calls and streams.
Related == /\ OpenedByCall /\ NamesStream /\ OneAtATime /\ WaitsAsNext
           /\ DoneUntilTaken /\ ClosedAfterEnd /\ StreamsReachable

\* What a step that moves one call, or one stream, leaves as it was.
LEMMA CallMoves ==
    ASSUME Types, NEW s \in Scripts, NEW n \in Ids, NEW a \in CallStages, SetCall(s, n, a)
    PROVE  /\ call' \in [Scripts -> [Ids -> Call]]
           /\ \A t \in Scripts, m \in Ids :
                  /\ call'[t][m].op = call[t][m].op /\ call'[t][m].on = call[t][m].on
                  /\ call'[t][m].at = IF t = s /\ m = n THEN a ELSE call[t][m].at
<1>1. call[s][n] \in Call /\ [call[s][n] EXCEPT !.at = a] \in Call
  <2>1. call[s][n] \in Call
    BY DEF Types
  <2> QED
    BY <2>1 DEF Call
<1>2. call' = [call EXCEPT ![s] = [call[s] EXCEPT ![n] = [call[s][n] EXCEPT !.at = a]]]
  BY DEF SetCall, Types
<1>3. call' \in [Scripts -> [Ids -> Call]]
  BY <1>1, <1>2 DEF Types
<1>4. /\ call'[s][n] = [call[s][n] EXCEPT !.at = a]
      /\ \A t \in Scripts, m \in Ids : t # s \/ m # n => call'[t][m] = call[t][m]
  BY <1>2 DEF Types
<1> QED
  BY <1>1, <1>3, <1>4 DEF Call

LEMMA SessionMoves ==
    ASSUME Types, NEW s \in Scripts, NEW k \in Ids, NEW r \in Session,
           session' = [session EXCEPT ![s] = [session[s] EXCEPT ![k] = r]]
    PROVE  /\ session' \in [Scripts -> [Ids -> Session]]
           /\ session'[s][k] = r
           /\ \A t \in Scripts, j \in Ids : t # s \/ j # k => session'[t][j] = session[t][j]
BY DEF Types

\* The owner's other steps, and the end of the context.
LEMMA OwnerKeeps ==
    ASSUME IInv, NEW s \in Scripts,
           Start(s) \/ Settle(s) \/ GiveUp(s) \/ AnswerAndCancel(s) \/ ContextDone(s)
    PROVE  IInv'
<1>1. UNCHANGED <<call, session>>
  BY DEF Start, Settle, GiveUp, AnswerAndCancel, ContextDone
<1> QED
  BY <1>1 DEF IInv, Types, Numbered, Made, OpenedByCall, NamesStream, OneAtATime, OnStream, WaitsAsNext,
      DoneUntilTaken, ClosedAfterEnd, StreamsReachable

\* The deferred close of the invocation cancels every stream it takes off.
LEMMA CloseKeeps ==
    ASSUME IInv, NEW s \in Scripts, CloseInvocation(s)
    PROVE  IInv'
<1>1. Numbered'
  BY SameNumbers DEF CloseInvocation, IInv
<1>2. \A t \in Scripts, j \in Ids :
         session'[t][j] = IF t = s /\ session[t][j].listed
                          THEN [session[t][j] EXCEPT !.listed = FALSE, !.cancelled = TRUE]
                          ELSE session[t][j]
  BY DEF CloseInvocation, CloseSessions, IInv, Types
<1>3. /\ Types'
      /\ \A t \in Scripts, j \in Ids :
            /\ session'[t][j].at = session[t][j].at /\ session'[t][j].done = session[t][j].done
            /\ session'[t][j].listed => session[t][j].listed
            /\ session[t][j].cancelled => session'[t][j].cancelled
            /\ session[t][j].listed /\ ~session'[t][j].listed => session'[t][j].cancelled
  <2>1. \A t \in Scripts, j \in Ids : session[t][j] \in Session
    BY DEF IInv, Types
  <2>2. \A t \in Scripts, j \in Ids : session'[t][j] \in Session
    BY <1>2, <2>1 DEF Session
  <2>3. session' \in [Scripts -> [Ids -> Session]]
    BY <2>2 DEF CloseInvocation, CloseSessions, IInv, Types
  <2>4. Types'
    BY <2>3 DEF CloseInvocation, IInv, Types
  <2> QED
    BY <1>2, <2>1, <2>4 DEF Session
<1>4. Related'
  <2>0. UNCHANGED call
    BY DEF CloseInvocation
  <2>1. OpenedByCall'
    BY <1>3, <2>0 DEF IInv, OpenedByCall
  <2>1a. NamesStream'
    BY <1>3, <2>0 DEF IInv, NamesStream, OnStream
  <2>2. OneAtATime'
    BY <1>3, <2>0, SandboxAssumption DEF IInv, NamesStream, OneAtATime, OnStream
  <2>3. WaitsAsNext'
    BY <1>3, <2>0 DEF IInv, WaitsAsNext
  <2>4. DoneUntilTaken'
    BY <1>3, <2>0 DEF IInv, DoneUntilTaken, OnStream, NamesStream, OneAtATime, WaitsAsNext
  <2>5. ClosedAfterEnd'
    BY <1>3, <2>0 DEF IInv, ClosedAfterEnd, NamesStream, WaitsAsNext, OnStream
  <2>6. StreamsReachable'
    BY <1>3, <2>0 DEF IInv, StreamsReachable
  <2> QED
    BY <2>1, <2>1a, <2>2, <2>3, <2>4, <2>5, <2>6 DEF Related
<1> QED
  BY <1>1, <1>3, <1>4 DEF Related, IInv

\* Calls go on, and streams that were opened stay: no call gets company.
LEMMA StillOne ==
    ASSUME OneAtATime, NamesStream,
           \A t \in Scripts, m \in Ids :
               /\ call'[t][m].op = call[t][m].op /\ call'[t][m].on = call[t][m].on
               /\ call[t][m].at = "delivered" => call'[t][m].at = "delivered"
               /\ session[t][m].at # "none" => session'[t][m].at # "none"
    PROVE  OneAtATime'
<1> SUFFICES ASSUME NEW t \in Intact, NEW i \in Ids, OnStream(t, i)'
             PROVE  /\ session'[t][call'[t][i].on].at # "none"
                    /\ \A m \in Ids :
                         OnStream(t, m)' /\ call'[t][m].on = call'[t][i].on /\ m # i
                           => "delivered" \in {call'[t][m].at, call'[t][i].at}
  BY DEF OneAtATime
<1>1. t \in Scripts /\ OnStream(t, i) /\ call'[t][i].on = call[t][i].on
  BY SandboxAssumption DEF OnStream
<1>2. call[t][i].on \in Ids /\ session[t][call[t][i].on].at # "none"
  BY <1>1 DEF OneAtATime, NamesStream
<1>3. ASSUME NEW m \in Ids, OnStream(t, m)', call'[t][m].on = call'[t][i].on, m # i
      PROVE  "delivered" \in {call'[t][m].at, call'[t][i].at}
  <2>1. OnStream(t, m) /\ call[t][m].on = call[t][i].on
    BY <1>1, <1>3 DEF OnStream
  <2>2. "delivered" \in {call[t][m].at, call[t][i].at}
    BY <1>1, <1>3, <2>1 DEF OneAtATime
  <2> QED
    BY <1>1, <2>2
<1> QED
  BY <1>1, <1>2, <1>3

\* A call that moves on without touching a stream, and waits for nothing.
LEMMA AnswerKeeps ==
    ASSUME IInv, NEW s \in Scripts, NEW n \in Ids, NEW a \in {"working", "answered", "delivered"},
           SetCall(s, n, a), UNCHANGED session, call[s][n].at # "delivered"
    PROVE  IInv'
<1>1. Types
  BY DEF IInv
<1>2. /\ call' \in [Scripts -> [Ids -> Call]]
      /\ \A t \in Scripts, m \in Ids :
             /\ call'[t][m].op = call[t][m].op /\ call'[t][m].on = call[t][m].on
             /\ call'[t][m].at = IF t = s /\ m = n THEN a ELSE call[t][m].at
  BY <1>1, CallMoves DEF CallStages
<1>3. Types' /\ Numbered'
  BY <1>1, <1>2, SameNumbers DEF Types, IInv
<1>4. Related'
  <2>1. OpenedByCall'
    BY <1>2 DEF IInv, OpenedByCall
  <2>1a. NamesStream'
    BY <1>2 DEF IInv, NamesStream, OnStream
  <2>2. OneAtATime'
    BY <1>2, StillOne DEF IInv
  <2>3. WaitsAsNext'
    BY <1>2 DEF IInv, WaitsAsNext
  <2>4. DoneUntilTaken'
    <3> SUFFICES ASSUME NEW t \in Scripts, NEW k \in Ids,
                        session[t][k].at = "ended", ~session[t][k].done
                 PROVE  /\ ~session[t][k].listed
                        /\ t \in Intact => \A i \in Ids : OnStream(t, i)' /\ call'[t][i].on = k =>
                               call'[t][i].at \notin {"pulling", "closed"}
      BY DEF DoneUntilTaken
    <3>1. /\ ~session[t][k].listed
          /\ t \in Intact => \A i \in Ids : OnStream(t, i) /\ call[t][i].on = k =>
                 call[t][i].at \notin {"pulling", "closed"}
      BY DEF IInv, DoneUntilTaken
    <3> QED
      BY <1>2, <3>1 DEF OnStream
  <2>5. ClosedAfterEnd'
    BY <1>2 DEF IInv, ClosedAfterEnd, NamesStream, WaitsAsNext, OnStream
  <2>6. StreamsReachable'
    BY <1>2 DEF IInv, StreamsReachable
  <2> QED
    BY <2>1, <2>1a, <2>2, <2>3, <2>4, <2>5, <2>6 DEF Related
<1> QED
  BY <1>3, <1>4 DEF IInv, Related

\* A delivery, and the steps of the goroutine of a call.
LEMMA CallKeeps ==
    ASSUME IInv, NEW s \in Scripts, NEW n \in Ids, Deliver(s, n) \/ CallStep(s, n)
    PROVE  IInv'
<1>1. Types /\ call[s][n] \in Call /\ Numbered
  BY DEF IInv, Types
<1>2. ASSUME NEW a \in CallStages, SetCall(s, n, a)
      PROVE  /\ call' \in [Scripts -> [Ids -> Call]]
             /\ \A t \in Scripts, m \in Ids :
                    /\ call'[t][m].op = call[t][m].op /\ call'[t][m].on = call[t][m].on
                    /\ call'[t][m].at = IF t = s /\ m = n THEN a ELSE call[t][m].at
             /\ Numbered'
  <2>1. /\ call' \in [Scripts -> [Ids -> Call]]
        /\ \A t \in Scripts, m \in Ids :
               /\ call'[t][m].op = call[t][m].op /\ call'[t][m].on = call[t][m].on
               /\ call'[t][m].at = IF t = s /\ m = n THEN a ELSE call[t][m].at
    BY <1>1, <1>2, CallMoves
  <2> QED
    BY <1>1, <2>1, SameNumbers
<1>3. ASSUME NEW k \in Ids, NEW r \in Session,
             session' = [session EXCEPT ![s] = [session[s] EXCEPT ![k] = r]]
      PROVE  /\ session' \in [Scripts -> [Ids -> Session]]
             /\ session'[s][k] = r
             /\ \A t \in Scripts, j \in Ids : t # s \/ j # k => session'[t][j] = session[t][j]
  BY <1>1, <1>3, SessionMoves
<1>4. CASE Deliver(s, n) \/ Invoke(s, n) \/ Invoked(s, n)
  <2>1. PICK a \in {"working", "answered", "delivered"} : SetCall(s, n, a)
    BY <1>4 DEF Deliver, Invoke, Invoked
  <2>2. UNCHANGED session /\ call[s][n].at # "delivered"
    BY <1>4 DEF Deliver, Invoke, Invoked
  <2> QED
    BY <2>1, <2>2, AnswerKeeps
<1>5. CASE StreamOpen(s, n)
  <2>1. CASE UNCHANGED session
    BY <1>5, <2>1, AnswerKeeps DEF StreamOpen
  <2>2. CASE session' = [session EXCEPT ![s][n] =
                   [at |-> "waiting", pool |-> call[s][n].pool, listed |-> TRUE,
                    cancelled |-> FALSE, done |-> FALSE]]
    <3> DEFINE new == [at |-> "waiting", pool |-> call[s][n].pool, listed |-> TRUE,
                       cancelled |-> FALSE, done |-> FALSE]
    <3>1. new \in Session
      BY <1>1 DEF Call, Session, SessionStages
    <3>2. session' = [session EXCEPT ![s] = [session[s] EXCEPT ![n] = new]]
      BY <2>2, <1>1 DEF Types
    <3>3. SetCall(s, n, "answered") /\ call[s][n].at = "sent" /\ call[s][n].op = "open"
      BY <1>5 DEF StreamOpen
    <3>4. Types'
      BY <1>2, <1>3, <3>1, <3>2, <3>3 DEF Types, CallStages
    <3>4a. \A t \in Scripts, m \in Ids :
              /\ call'[t][m].op = call[t][m].op /\ call'[t][m].on = call[t][m].on
              /\ call'[t][m].at = IF t = s /\ m = n THEN "answered" ELSE call[t][m].at
      BY <1>2, <3>3 DEF CallStages
    <3>4b. /\ session'[s][n] = new
           /\ \A t \in Scripts, j \in Ids : t # s \/ j # n => session'[t][j] = session[t][j]
           /\ call[s][n].at = "sent" /\ call[s][n].op = "open"
           /\ session[s][n].at = "none"
      BY <1>3, <3>1, <3>2, <3>3 DEF IInv, OpenedByCall
    <3>5. Related'
      <4>1. OpenedByCall'
        BY <3>4a, <3>4b DEF IInv, OpenedByCall
      <4>1a. NamesStream'
        BY <3>4a, <3>4b DEF IInv, NamesStream, OnStream
      <4>2. OneAtATime'
        BY <3>4a, <3>4b, SandboxAssumption DEF IInv, NamesStream, OneAtATime, OnStream
      <4>3. WaitsAsNext'
        BY <3>4a, <3>4b DEF IInv, WaitsAsNext
      <4>4. DoneUntilTaken'
        BY <3>4a, <3>4b DEF IInv, DoneUntilTaken, OnStream, NamesStream, OneAtATime, WaitsAsNext
      <4>5. ClosedAfterEnd'
        BY <3>4a, <3>4b DEF IInv, ClosedAfterEnd, NamesStream, WaitsAsNext, OnStream
      <4>6. StreamsReachable'
        BY <3>4a, <3>4b DEF IInv, StreamsReachable
      <4> QED
        BY <4>1, <4>1a, <4>2, <4>3, <4>4, <4>5, <4>6 DEF Related
    <3> QED
      BY <1>2, <3>3, <3>4, <3>5 DEF IInv, Related, CallStages
  <2> QED
    BY <1>5, <2>1, <2>2 DEF StreamOpen
<1>6. CASE StreamNext(s, n)
  <2> DEFINE k == call[s][n].on
  <2>1. CASE ~session[s][k].listed
    BY <1>6, <2>1, AnswerKeeps DEF StreamNext
  <2>2. CASE session[s][k].listed
    <3>1. /\ SetCall(s, n, "pulling") /\ UNCHANGED session
          /\ call[s][n].at = "sent" /\ call[s][n].op = "next"
      BY <1>6, <2>2 DEF StreamNext
    <3>2. Types'
      BY <1>1, <1>2, <3>1 DEF Types, CallStages
    <3>2a. \A t \in Scripts, m \in Ids :
              /\ call'[t][m].op = call[t][m].op /\ call'[t][m].on = call[t][m].on
              /\ call'[t][m].at = IF t = s /\ m = n THEN "pulling" ELSE call[t][m].at
      BY <1>2, <3>1 DEF CallStages
    <3>3. Related'
      <4>1. OpenedByCall'
        BY <3>2a, <3>1, <2>2 DEF IInv, OpenedByCall
      <4>1a. NamesStream'
        BY <3>2a, <3>1, <2>2 DEF IInv, NamesStream, OnStream
      <4>2. OneAtATime'
        BY <3>2a, <3>1, <2>2, SandboxAssumption DEF IInv, NamesStream, OneAtATime, OnStream
      <4>3. WaitsAsNext'
        BY <3>2a, <3>1, <2>2 DEF IInv, WaitsAsNext
      <4>4. DoneUntilTaken'
        BY <3>2a, <3>1, <2>2 DEF IInv, DoneUntilTaken, OnStream, NamesStream, OneAtATime, WaitsAsNext
      <4>5. ClosedAfterEnd'
        BY <3>2a, <3>1, <2>2 DEF IInv, ClosedAfterEnd, NamesStream, WaitsAsNext, OnStream
      <4>6. StreamsReachable'
        BY <3>2a, <3>1, <2>2 DEF IInv, StreamsReachable
      <4> QED
        BY <4>1, <4>1a, <4>2, <4>3, <4>4, <4>5, <4>6 DEF Related
    <3> QED
      BY <1>2, <3>1, <3>2, <3>3 DEF IInv, Related, CallStages
  <2> QED
    BY <2>1, <2>2
<1>7. CASE Pull(s, n)
  <2> DEFINE k == call[s][n].on
  <2>0. call[s][n].at = "pulling" /\ OnStream(s, n) /\ k \in Ids /\ session[s][k] \in Session
    BY <1>7, <1>1 DEF Pull, IInv, WaitsAsNext, NamesStream, OnStream, Types
  <2> HIDE DEF k
  <2>1. CASE SetCall(s, n, "answered") /\ UNCHANGED session
    BY <2>0, <2>1, AnswerKeeps
  <2>2. CASE session[s][k].at = "sending" /\ SetCall(s, n, "answered") /\ SetSession(s, k, "holding")
    <3> DEFINE new == [session[s][k] EXCEPT !.at = "holding"]
    <3>1. new \in Session
      BY <2>0 DEF Session, SessionStages
    <3>2. session' = [session EXCEPT ![s] = [session[s] EXCEPT ![k] = new]]
      BY <2>2, <1>1 DEF SetSession, Types
    <3>3. Types'
      BY <1>2, <1>3, <2>0, <2>2, <3>1, <3>2 DEF Types, CallStages
    <3>4. \A t \in Scripts, m \in Ids :
              /\ call'[t][m].op = call[t][m].op /\ call'[t][m].on = call[t][m].on
              /\ call'[t][m].at = IF t = s /\ m = n THEN "answered" ELSE call[t][m].at
      BY <1>2, <2>2 DEF CallStages
    <3>5. /\ session'[s][k] = new
          /\ \A t \in Scripts, j \in Ids : t # s \/ j # k => session'[t][j] = session[t][j]
      BY <1>3, <2>0, <3>1, <3>2
    <3>6. \A t \in Scripts, j \in Ids :
             /\ session'[t][j].at = IF t = s /\ j = k THEN "holding" ELSE session[t][j].at
             /\ session'[t][j].done = session[t][j].done /\ session'[t][j].listed = session[t][j].listed
             /\ session'[t][j].cancelled = session[t][j].cancelled
      BY <3>5, <2>0 DEF Session
    <3>7. Related'
      <4>1. OpenedByCall'
        BY <3>4, <3>6, <2>0, <2>2 DEF IInv, OpenedByCall
      <4>1a. NamesStream'
        BY <3>4, <3>6, <2>0, <2>2 DEF IInv, NamesStream, OnStream
      <4>2. OneAtATime'
        BY <3>4, <3>6, <2>0, <2>2, StillOne DEF IInv
      <4>3. WaitsAsNext'
        BY <3>4, <3>6, <2>0, <2>2 DEF IInv, WaitsAsNext
      <4>4. DoneUntilTaken'
        BY <3>4, <3>6, <2>0, <2>2 DEF IInv, DoneUntilTaken, OnStream, NamesStream, OneAtATime, WaitsAsNext
      <4>5. ClosedAfterEnd'
        BY <3>4, <3>6, <2>0, <2>2 DEF IInv, ClosedAfterEnd, NamesStream, WaitsAsNext, OnStream
      <4>6. StreamsReachable'
        BY <3>4, <3>6, <2>0, <2>2 DEF IInv, StreamsReachable
      <4> QED
        BY <4>1, <4>1a, <4>2, <4>3, <4>4, <4>5, <4>6 DEF Related
    <3> QED
      BY <1>2, <2>2, <3>3, <3>7 DEF IInv, Related, CallStages
  <2>3. CASE session[s][k].at = "ended" /\ SetCall(s, n, "closed") /\ UNCHANGED session
    <3>1. Types'
      BY <1>1, <1>2, <2>3 DEF Types, CallStages
    <3>2. \A t \in Scripts, m \in Ids :
              /\ call'[t][m].op = call[t][m].op /\ call'[t][m].on = call[t][m].on
              /\ call'[t][m].at = IF t = s /\ m = n THEN "closed" ELSE call[t][m].at
      BY <1>2, <2>3 DEF CallStages
    <3>3. call[s][n].on = k
      BY DEF k
    <3>4. Related'
      <4>1. OpenedByCall'
        BY <3>2, <3>3, <2>0, <2>3 DEF IInv, OpenedByCall
      <4>1a. NamesStream'
        BY <3>2, <3>3, <2>0, <2>3 DEF IInv, NamesStream, OnStream
      <4>2. OneAtATime'
        BY <3>2, <3>3, <2>0, <2>3, SandboxAssumption DEF IInv, NamesStream, OneAtATime, OnStream
      <4>3. WaitsAsNext'
        BY <3>2, <3>3, <2>0, <2>3 DEF IInv, WaitsAsNext
      <4>4. DoneUntilTaken'
        BY <3>2, <3>3, <2>0, <2>3 DEF IInv, DoneUntilTaken, OnStream, NamesStream, OneAtATime, WaitsAsNext
      <4>5. ClosedAfterEnd'
        BY <3>2, <3>3, <2>0, <2>3 DEF IInv, ClosedAfterEnd, NamesStream, WaitsAsNext, OnStream
      <4>6. StreamsReachable'
        BY <3>2, <3>3, <2>0, <2>3 DEF IInv, StreamsReachable
      <4> QED
        BY <4>1, <4>1a, <4>2, <4>3, <4>4, <4>5, <4>6 DEF Related
    <3> QED
      BY <1>2, <2>3, <3>1, <3>4 DEF IInv, Related, CallStages
  <2> QED
    BY <1>7, <2>1, <2>2, <2>3 DEF Pull, k
<1>8. CASE TakeDone(s, n)
  <2> DEFINE k == call[s][n].on
             new == [session[s][k] EXCEPT !.listed = FALSE, !.cancelled = TRUE, !.done = FALSE]
  <2>1. call[s][n].at = "closed" /\ OnStream(s, n) /\ k \in Ids /\ session[s][k] \in Session
        /\ SetCall(s, n, "answered")
    BY <1>8, <1>1 DEF TakeDone, IInv, WaitsAsNext, NamesStream, OnStream, Types
  <2>2. new \in Session
    BY <2>1 DEF Session
  <2>3. session' = [session EXCEPT ![s] = [session[s] EXCEPT ![k] = new]]
    BY <1>8, <1>1, <2>1 DEF TakeDone, Forget, Types
  <2>3a. /\ call[s][n].on = k
         /\ new.at = session[s][k].at /\ ~new.done /\ ~new.listed /\ new.cancelled
    BY <2>1 DEF Session
  <2> HIDE DEF k, new
  <2>4. Types'
    BY <1>2, <1>3, <2>1, <2>2, <2>3 DEF Types, CallStages
  <2>5. \A t \in Scripts, m \in Ids :
            /\ call'[t][m].op = call[t][m].op /\ call'[t][m].on = call[t][m].on
            /\ call'[t][m].at = IF t = s /\ m = n THEN "answered" ELSE call[t][m].at
    BY <1>2, <2>1 DEF CallStages
  <2>6. \A t \in Scripts, j \in Ids :
           /\ session'[t][j].at = session[t][j].at
           /\ session'[t][j].done <=> session[t][j].done /\ ~(t = s /\ j = k)
           /\ session'[t][j].listed <=> session[t][j].listed /\ ~(t = s /\ j = k)
           /\ session'[t][j].cancelled <=> session[t][j].cancelled \/ (t = s /\ j = k)
    <3>1. /\ session'[s][k] = new
          /\ \A t \in Scripts, j \in Ids : t # s \/ j # k => session'[t][j] = session[t][j]
      BY <1>3, <2>1, <2>2, <2>3
    <3> QED
      BY <3>1, <2>3a
  <2>7. Related'
    <3>1. OpenedByCall'
      BY <2>1, <2>3a, <2>5, <2>6 DEF IInv, OpenedByCall
    <3>1a. NamesStream'
      BY <2>1, <2>5, <2>6 DEF IInv, NamesStream, OnStream
    <3>2. OneAtATime'
      BY <2>1, <2>5, <2>6, StillOne DEF IInv
    <3>3. WaitsAsNext'
      BY <2>1, <2>3a, <2>5, <2>6 DEF IInv, WaitsAsNext
    <3>4. DoneUntilTaken'
      BY <2>1, <2>3a, <2>5, <2>6 DEF IInv, DoneUntilTaken, OnStream, NamesStream, OneAtATime, WaitsAsNext
    <3>5. ClosedAfterEnd'
      BY <2>1, <2>3a, <2>5, <2>6 DEF IInv, ClosedAfterEnd, NamesStream, WaitsAsNext, OnStream
    <3>6. StreamsReachable'
      BY <2>1, <2>3a, <2>5, <2>6 DEF IInv, StreamsReachable
    <3> QED
      BY <3>1, <3>1a, <3>2, <3>3, <3>4, <3>5, <3>6 DEF Related
  <2> QED
    BY <1>2, <2>1, <2>4, <2>7 DEF IInv, Related, CallStages
<1>9. CASE StreamReturn(s, n)
  <2> DEFINE k == call[s][n].on
             new == [session[s][k] EXCEPT !.listed = FALSE, !.cancelled = TRUE]
  <2>1. call[s][n].at = "sent" /\ OnStream(s, n) /\ k \in Ids /\ session[s][k] \in Session
        /\ SetCall(s, n, "answered")
    BY <1>9, <1>1 DEF StreamReturn, IInv, NamesStream, OnStream, Types
  <2>2. CASE UNCHANGED session
    BY <2>1, <2>2, AnswerKeeps
  <2>3. CASE session' = Forget(s, k)
    <3>1. new \in Session
      BY <2>1 DEF Session
    <3>2. session' = [session EXCEPT ![s] = [session[s] EXCEPT ![k] = new]]
      BY <2>3, <1>1, <2>1 DEF Forget, Types
    <3>2a. /\ call[s][n].on = k
           /\ new.at = session[s][k].at /\ (new.done <=> session[s][k].done) /\ ~new.listed /\ new.cancelled
      BY <2>1 DEF Session
    <3> HIDE DEF k, new
    <3>3. Types'
      BY <1>2, <1>3, <2>1, <3>1, <3>2 DEF Types, CallStages
    <3>4. \A t \in Scripts, m \in Ids :
              /\ call'[t][m].op = call[t][m].op /\ call'[t][m].on = call[t][m].on
              /\ call'[t][m].at = IF t = s /\ m = n THEN "answered" ELSE call[t][m].at
      BY <1>2, <2>1 DEF CallStages
    <3>5. \A t \in Scripts, j \in Ids :
             /\ session'[t][j].at = session[t][j].at
             /\ session'[t][j].done <=> session[t][j].done
             /\ session'[t][j].listed <=> session[t][j].listed /\ ~(t = s /\ j = k)
             /\ session'[t][j].cancelled <=> session[t][j].cancelled \/ (t = s /\ j = k)
      <4>1. /\ session'[s][k] = new
            /\ \A t \in Scripts, j \in Ids : t # s \/ j # k => session'[t][j] = session[t][j]
        BY <1>3, <2>1, <3>1, <3>2
      <4> QED
        BY <4>1, <3>2a
    <3>6. Related'
      <4>1. OpenedByCall'
        BY <2>1, <3>2a, <3>4, <3>5 DEF IInv, OpenedByCall
      <4>1a. NamesStream'
        BY <2>1, <3>2a, <3>4, <3>5 DEF IInv, NamesStream, OnStream
      <4>2. OneAtATime'
        BY <2>1, <3>4, <3>5, StillOne DEF IInv
      <4>3. WaitsAsNext'
        BY <2>1, <3>2a, <3>4, <3>5 DEF IInv, WaitsAsNext
      <4>4. DoneUntilTaken'
        BY <2>1, <3>2a, <3>4, <3>5 DEF IInv, DoneUntilTaken, OnStream, NamesStream, OneAtATime, WaitsAsNext
      <4>5. ClosedAfterEnd'
        BY <2>1, <3>2a, <3>4, <3>5 DEF IInv, ClosedAfterEnd, NamesStream, WaitsAsNext, OnStream
      <4>6. StreamsReachable'
        BY <2>1, <3>2a, <3>4, <3>5 DEF IInv, StreamsReachable
      <4> QED
        BY <4>1, <4>1a, <4>2, <4>3, <4>4, <4>5, <4>6 DEF Related
    <3> QED
      BY <1>2, <2>1, <3>3, <3>6 DEF IInv, Related, CallStages
  <2> QED
    BY <1>9, <2>2, <2>3 DEF StreamReturn
<1> QED
  BY <1>4, <1>5, <1>6, <1>7, <1>8, <1>9 DEF CallStep

\* The goroutine of a stream.
LEMMA StreamKeeps ==
    ASSUME IInv, NEW s \in Scripts, NEW k \in Ids, StreamStep(s, k)
    PROVE  IInv'
<1>1. Types /\ session[s][k] \in Session /\ UNCHANGED call
  BY DEF IInv, Types, StreamStep, Acquire, Emit, StreamEnd
<1>2. Numbered'
  BY <1>1, SameNumbers DEF IInv
<1>3. PICK r \in Session :
         /\ session' = [session EXCEPT ![s] = [session[s] EXCEPT ![k] = r]]
         /\ r.listed = session[s][k].listed /\ r.cancelled = session[s][k].cancelled
         /\ \/ r.at \in {"holding", "sending"}
            \/ r.at = "ended" /\ r.done
  <2>1. CASE Acquire(s, k) \/ Emit(s, k)
    <3>1. PICK a \in {"holding", "sending"} : SetSession(s, k, a)
      BY <2>1 DEF Acquire, Emit
    <3> DEFINE r == [session[s][k] EXCEPT !.at = a]
    <3>2. r \in Session /\ r.at = a /\ r.listed = session[s][k].listed /\ r.cancelled = session[s][k].cancelled
      BY <1>1 DEF Session, SessionStages
    <3>3. session' = [session EXCEPT ![s] = [session[s] EXCEPT ![k] = r]]
      BY <1>1, <3>1 DEF SetSession, Types
    <3> HIDE DEF r
    <3> QED
      BY <3>2, <3>3
  <2>2. CASE StreamEnd(s, k)
    <3> DEFINE r == [session[s][k] EXCEPT !.at = "ended", !.done = TRUE]
    <3>1. /\ r \in Session /\ r.at = "ended" /\ r.done
          /\ r.listed = session[s][k].listed /\ r.cancelled = session[s][k].cancelled
      BY <1>1 DEF Session, SessionStages
    <3>2. session' = [session EXCEPT ![s] = [session[s] EXCEPT ![k] = r]]
      BY <1>1, <2>2 DEF StreamEnd, Types
    <3> HIDE DEF r
    <3> QED
      BY <3>1, <3>2
  <2> QED
    BY <2>1, <2>2 DEF StreamStep
<1>4. session[s][k].at \in {"waiting", "holding", "sending"}
  BY DEF StreamStep, Acquire, Emit, StreamEnd
<1>6. Types'
  BY <1>1, <1>3, SessionMoves DEF Types
<1>7. \A t \in Scripts, j \in Ids :
         /\ session'[t][j].listed = session[t][j].listed
         /\ session'[t][j].cancelled = session[t][j].cancelled
         /\ \/ session'[t][j].at = session[t][j].at /\ session'[t][j].done = session[t][j].done
            \/ /\ session[t][j].at \in {"waiting", "holding", "sending"}
               /\ session'[t][j].at \in {"holding", "sending"}
            \/ /\ session[t][j].at \in {"waiting", "holding", "sending"}
               /\ session'[t][j].at = "ended" /\ session'[t][j].done
  <2>1. /\ session'[s][k] = r
        /\ \A t \in Scripts, j \in Ids : t # s \/ j # k => session'[t][j] = session[t][j]
    <3>1. session' = [session EXCEPT ![s] = [session[s] EXCEPT ![k] = r]]
      BY <1>3
    <3> QED
      BY <1>1, <1>3, <3>1 DEF Types
  <2> QED
    BY <1>3, <1>4, <2>1
<1>8. Related'
  <2>1. OpenedByCall'
    BY <1>1, <1>7 DEF IInv, OpenedByCall
  <2>1a. NamesStream'
    BY <1>1, <1>7 DEF IInv, NamesStream, OnStream
  <2>2. OneAtATime'
    BY <1>1, <1>7, SandboxAssumption DEF IInv, NamesStream, OneAtATime, OnStream
  <2>3. WaitsAsNext'
    BY <1>1, <1>7 DEF IInv, WaitsAsNext
  <2>4. DoneUntilTaken'
    BY <1>1, <1>7 DEF IInv, DoneUntilTaken, OnStream, NamesStream, OneAtATime, WaitsAsNext
  <2>5. ClosedAfterEnd'
    BY <1>1, <1>7 DEF IInv, ClosedAfterEnd, NamesStream, WaitsAsNext, OnStream
  <2>6. StreamsReachable'
    BY <1>1, <1>7 DEF IInv, StreamsReachable
  <2> QED
    BY <2>1, <2>1a, <2>2, <2>3, <2>4, <2>5, <2>6 DEF Related
<1> QED
  BY <1>2, <1>6, <1>8 DEF IInv, Related

-----------------------------------------------------------------------------

\* The inductive invariant holds in every reachable state: no step of a
\* script, of a call or of a stream breaks it (engine.go).
THEOREM Invariance == Spec => []IInv
<1>1. Init => IInv
  BY InitInv
<1>2. IInv /\ [Next]_vars => IInv'
  <2> SUFFICES ASSUME IInv, [Next]_vars
               PROVE  IInv'
    OBVIOUS
  <2>1. CASE Next
    <3>1. PICK s \in Scripts :
              \/ Owner(s) \/ ContextDone(s)
              \/ \E n \in Ids : CallStep(s, n) \/ StreamStep(s, n)
      BY <2>1 DEF Next
    <3>2. CASE Owner(s) \/ ContextDone(s)
      BY <3>2, OwnerKeeps, CloseKeeps, DrainKeeps, CallKeeps DEF Owner
    <3>3. CASE \E n \in Ids : CallStep(s, n) \/ StreamStep(s, n)
      BY <3>3, CallKeeps, StreamKeeps
    <3> QED
      BY <3>1, <3>2, <3>3
  <2>2. CASE UNCHANGED vars
    BY <2>2 DEF vars, IInv, Types, Numbered, Made, OpenedByCall, NamesStream, OneAtATime, OnStream, WaitsAsNext,
        DoneUntilTaken, ClosedAfterEnd, StreamsReachable
  <2> QED
    BY <2>1, <2>2
<1> QED
  BY <1>1, <1>2, PTL DEF Spec

\* A call that waits for the value of done (engine.go:288) waits at a stream
\* that has ended, and if its script is intact the value is there, and no other
\* call is at the stream.
THEOREM NobodyStuck == Spec => []NoStuckCall
<1>1. IInv => NoStuckCall
  <2> SUFFICES ASSUME IInv, NEW s \in Scripts, NEW n \in Ids, call[s][n].at = "closed"
               PROVE  LET stream == session[s][call[s][n].on]
                      IN  stream.at = "ended" /\ (s \in Intact => stream.done)
    BY DEF NoStuckCall
  <2>1. OnStream(s, n) /\ call[s][n].on \in Ids
    BY DEF IInv, WaitsAsNext, NamesStream, OnStream
  <2>2. session[s][call[s][n].on].at = "ended"
    BY DEF IInv, ClosedAfterEnd
  <2>3. session[s][call[s][n].on].done \in BOOLEAN
    BY <2>1 DEF IInv, Types, Session
  <2>4. s \in Intact => session[s][call[s][n].on].done
    BY <2>1, <2>2, <2>3 DEF IInv, DoneUntilTaken
  <2> QED
    BY <2>2, <2>4
<1> QED
  BY <1>1, Invariance, PTL

\* A stream that still runs is in the map or was cancelled (forget, close).
THEOREM StreamsFound == Spec => []StreamsReachable
<1>1. IInv => StreamsReachable
  BY DEF IInv
<1> QED
  BY <1>1, Invariance, PTL

=============================================================================
