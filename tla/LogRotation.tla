---------------------------- MODULE LogRotation ----------------------------
(***************************************************************************)
(* The daemon's log (internal/observability/rotation.go): kgosd.log and    *)
(* its older files, which a write that would pass the limit moves one      *)
(* place up, from the oldest on, before a new file is opened.  A rename    *)
(* can fail and the process can end between two of them.                   *)
(*                                                                         *)
(* Records are numbered in the order in which they are written, and a file *)
(* is the sequence of its records; place 0 is kgosd.log.                   *)
(***************************************************************************)
EXTENDS Naturals, Sequences, SequencesExt

CONSTANTS
    Files,       \* files kept (5)
    Limit,       \* records a file holds
    MaxRecords   \* bound: records written

VARIABLES
    file,     \* the records at each place; empty also when there is no file
    writer,   \* "open", "rotating" or, after a failure, "closed"
    moving,   \* the place that the rotation fills next
    bytes,    \* the writer's count for kgosd.log
    next,     \* number of the next record
    logged    \* records that reached a file

vars == <<file, writer, moving, bytes, next, logged>>

Places == 0 .. Files - 1

\* The types, the count, and the limit of every file, which is also the limit
\* of the directory.
TypeOK ==
    /\ \A p \in Places : Len(file[p]) <= Limit
    /\ writer \in {"open", "rotating", "closed"}
    /\ moving \in Places
    /\ writer = "open" => bytes = Len(file[0])
    /\ next \in 1 .. MaxRecords + 1
    /\ logged \subseteq 1 .. MaxRecords

Init ==
    /\ file = [p \in Places |-> <<>>]
    /\ writer = "open" /\ moving = 0 /\ bytes = 0
    /\ next = 1 /\ logged = {}

AppendRecord ==
    /\ file' = [file EXCEPT ![0] = Append(@, next)]
    /\ bytes' = Len(file[0]) + 1
    /\ next' = next + 1
    /\ logged' = logged \cup {next}

Write ==
    /\ writer = "open" /\ bytes < Limit /\ next <= MaxRecords
    /\ AppendRecord
    /\ UNCHANGED <<writer, moving>>

BeginRotation ==
    /\ writer = "open" /\ bytes >= Limit /\ next <= MaxRecords
    /\ writer' = "rotating" /\ moving' = Files - 1
    /\ UNCHANGED <<file, bytes, next, logged>>

RenameTo(to) ==
    file' = IF file[to - 1] = <<>> THEN file
            ELSE [file EXCEPT ![to] = file[to - 1], ![to - 1] = <<>>]

\* Mutant: the newest file is moved first.
MoveAscending ==
    /\ writer = "rotating" /\ moving > 0
    /\ RenameTo(Files - moving)
    /\ moving' = moving - 1
    /\ UNCHANGED <<writer, bytes, next, logged>>

\* The file at place moving - 1 is renamed over the one at place moving.
Move ==
    /\ writer = "rotating" /\ moving > 0
    /\ RenameTo(moving)
    /\ moving' = moving - 1
    /\ UNCHANGED <<writer, bytes, next, logged>>

\* The record that made the writer rotate opens the new file.
Reopen ==
    /\ writer = "rotating" /\ moving = 0
    /\ AppendRecord
    /\ writer' = "open"
    /\ UNCHANGED moving

\* A failed close, rename or open leaves the writer without a file; this and
\* every later record of the process is lost.
RotationFails ==
    /\ writer = "rotating"
    /\ writer' = "closed" /\ moving' = 0 /\ next' = next + 1
    /\ UNCHANGED <<file, bytes, logged>>

WriteClosed ==
    /\ writer = "closed" /\ next <= MaxRecords
    /\ next' = next + 1
    /\ UNCHANGED <<file, writer, moving, bytes, logged>>

\* The process ends at any step; the next one appends to what is there.
Restart ==
    /\ writer' = "open" /\ moving' = 0
    /\ bytes' = Len(file[0])
    /\ UNCHANGED <<file, next, logged>>

Next == \/ Write \/ BeginRotation \/ Move \/ Reopen
        \/ RotationFails \/ WriteClosed \/ Restart

Spec == Init /\ [][Next]_vars

-----------------------------------------------------------------------------
Kept == UNION {ToSet(file[p]) : p \in Places}

\* From the last place to kgosd.log the records are in their order, and what was
\* dropped is older than what is kept: a rotation that stops half way and is
\* taken up after a restart overwrites no file but the oldest.
NewestKept ==
    /\ \A p, q \in Places : \A x \in ToSet(file[p]), y \in ToSet(file[q]) :
           p > q => x < y
    /\ \A x \in Kept, y \in logged \ Kept : y < x

=============================================================================
