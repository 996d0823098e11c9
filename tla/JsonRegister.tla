---------------------------- MODULE JsonRegister ----------------------------
(***************************************************************************)
(* A record that is kept in one JSON file.  The threads of the dashboard   *)
(* (one per request) and other processes read the file, compute a new      *)
(* content and write it back; no lock is taken.  The vendor registry, an   *)
(* access review campaign and an audit room are three such records: they   *)
(* instantiate this module and give what a request does as Serve.          *)
(*                                                                         *)
(* open(path, "w") truncates the file; the new content arrives with a      *)
(* later write.  In between, the file does not parse.                      *)
(***************************************************************************)
EXTENDS Integers, Sequences, FiniteSets

CONSTANTS
    Callers,            \* the threads and processes
    Ops,                \* the requests they may make
    Serve(_, _, _),     \* what a request does: the content it reads (or
                        \* Absent, Torn), the request, its [id, at]; the
                        \* answer is [reply, saves, value]
    MaxCalls,           \* bound: calls that are made
    MaxTime             \* bound: the clock

VARIABLES
    file,       \* Absent, Torn, or [kind |-> "whole", value |-> content]
    now,        \* the clock
    calls,      \* what each caller is doing
    started,    \* how many calls have begun
    trail,      \* history: the calls that have returned, in that order
    moves,      \* history: how often the file has been touched
    quiet       \* history: no save has been cut off, overlapped another, or
                \* was computed from a content that another had replaced

vars == <<file, now, calls, started, trail, moves, quiet>>

Absent == [kind |-> "absent"]
Torn == [kind |-> "torn"]
Whole(value) == [kind |-> "whole", value |-> value]

Idle == [pc |-> "idle"]

Init ==
    /\ file = Absent
    /\ now = 0
    /\ calls = [c \in Callers |-> Idle]
    /\ started = 0
    /\ trail = <<>>
    /\ moves = 0
    /\ quiet = TRUE

(* A request arrives. *)
Call(c) ==
    /\ calls[c].pc = "idle"
    /\ started < MaxCalls
    /\ \E op \in Ops :
          calls' = [calls EXCEPT ![c] =
                       [pc |-> "called", op |-> op, id |-> started + 1]]
    /\ started' = started + 1
    /\ UNCHANGED <<file, now, trail, moves, quiet>>

(* A finished call: the request, what it found, what it answered. *)
Answered(c, found, reply) ==
    [id |-> calls[c].id, op |-> calls[c].op, found |-> found, at |-> now, reply |-> reply]

(***************************************************************************)
(* The file is opened, read and parsed, and the request is worked out on   *)
(* what was read.  It answers at once, or goes on to save.                 *)
(***************************************************************************)
Read(c) ==
    /\ calls[c].pc = "called"
    /\ LET answer == Serve(file, calls[c].op, [id |-> calls[c].id, at |-> now])
           entry  == Answered(c, file.kind, answer.reply)
       IN  \/ /\ ~answer.saves
              /\ trail' = Append(trail, entry)
              /\ calls' = [calls EXCEPT ![c] = Idle]
           \/ /\ answer.saves
              /\ calls' = [calls EXCEPT ![c] =
                              [pc |-> "computed", entry |-> entry,
                               value |-> answer.value, mark |-> moves]]
              /\ UNCHANGED trail
    /\ UNCHANGED <<file, now, started, moves, quiet>>

(* The file is not being written. *)
AtRest == \A c \in Callers : calls[c].pc # "writing"

(* The file is opened for writing, which empties it. *)
Truncate(c) ==
    /\ calls[c].pc = "computed"
    /\ file' = Torn
    /\ moves' = moves + 1
    /\ quiet' = (quiet /\ calls[c].mark = moves /\ AtRest)
    /\ calls' = [calls EXCEPT ![c].pc = "writing", ![c].mark = moves + 1]
    /\ UNCHANGED <<now, started, trail>>

(***************************************************************************)
(* The content is written and the call returns.  When another call has     *)
(* written since the truncation, this content lands on top of the other    *)
(* one, and the end of the longer one remains behind it: lengths are       *)
(* abstracted, so the file may or may not parse.                           *)
(***************************************************************************)
Write(c) ==
    /\ calls[c].pc = "writing"
    /\ \/ file' = Whole(calls[c].value)
       \/ /\ calls[c].mark # moves
          /\ file' = Torn
    /\ moves' = moves + 1
    /\ trail' = Append(trail, calls[c].entry)
    /\ calls' = [calls EXCEPT ![c] = Idle]
    /\ UNCHANGED <<now, started, quiet>>

(* The call raises, or its process is killed, after the truncation. *)
Stop(c) ==
    /\ calls[c].pc = "writing"
    /\ quiet' = FALSE
    /\ calls' = [calls EXCEPT ![c] = Idle]
    /\ UNCHANGED <<file, now, started, trail, moves>>

Tick ==
    /\ now < MaxTime
    /\ now' = now + 1
    /\ UNCHANGED <<file, calls, started, trail, moves, quiet>>

Next ==
    \/ \E c \in Callers : Call(c) \/ Read(c) \/ Truncate(c) \/ Write(c) \/ Stop(c)
    \/ Tick
=============================================================================
