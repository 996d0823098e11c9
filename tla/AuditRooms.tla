----------------------------- MODULE AuditRooms -----------------------------
(***************************************************************************)
(* An auditor's room (audit_room.py) in its JSON file: it is created for a *)
(* period and some days, auditors visit it with its token, and it is       *)
(* revoked.  Every granted visit is written into the room.                 *)
(***************************************************************************)
EXTENDS Integers, Sequences, FiniteSets

CONSTANTS
    Callers, MaxCalls, MaxTime,
    Lifetimes,      \* expires_days
    Periods,        \* <<period_start, period_end>>
    EvidenceDates,  \* the directories of the evidence tree
    Blocks          \* the ledger: block hash |-> the day of its timestamp

VARIABLES file, now, calls, started, trail, moves, quiet

None == [kind |-> "none"]

(***************************************************************************)
(* A token is known by the call that created it: secrets.token_urlsafe     *)
(* never returns the same twice.  0 is a token nobody issued.              *)
(***************************************************************************)
Tokens == 0..MaxCalls

RoomOps ==
    [name: {"create_room"}, days: Lifetimes, period: Periods]
    \cup [name: {"revoke_room", "get_room"}]
    \cup [name: {"validate_access"}, token: Tokens]

Within(day, period) == period[1] <= day /\ day <= period[2]

(* create_room does not look whether the room exists: it begins anew. *)
NewRoom(op, call) ==
    [status |-> "ACTIVE", expires |-> call.at + op.days, token |-> call.id,
     dates |-> {d \in EvidenceDates : Within(d, op.period)},
     hashes |-> {b \in DOMAIN Blocks : Within(Blocks[b], op.period)},
     logs |-> <<>>]

(* Mutant of IsActive: the status is not looked at. *)
NotExpired(room, at) == at <= room.expires

IsActive(room, at) == room.status = "ACTIVE" /\ at <= room.expires

(* Mutant of RecordAccess: the log keeps its newest entry only. *)
RecordLast(room, call) == [room EXCEPT !.logs = <<call.at>>]

RecordAccess(room, call) == [room EXCEPT !.logs = Append(@, call.at)]

Refuse(reply) == [reply |-> reply, saves |-> FALSE, value |-> None]
Save(room) == [reply |-> "ok", saves |-> TRUE, value |-> room]

(***************************************************************************)
(* get_room returns nothing when the file is absent or does not parse, so  *)
(* a visit or a revocation that comes while the room is being written      *)
(* finds no room.                                                          *)
(***************************************************************************)
ServeRoom(content, op, call) ==
    LET room == content.value IN
    CASE op.name = "create_room" -> Save(NewRoom(op, call))
      [] op.name # "create_room" /\ content.kind # "whole" -> Refuse("404")
      [] op.name = "get_room" /\ content.kind = "whole" -> Refuse("room")
      [] op.name = "revoke_room" /\ content.kind = "whole" ->
            Save([room EXCEPT !.status = "REVOKED"])
      [] OTHER -> IF IsActive(room, call.at) /\ op.token = room.token
                  THEN Save(RecordAccess(room, call))
                  ELSE Refuse("403")

Register == INSTANCE JsonRegister WITH Ops <- RoomOps, Serve <- ServeRoom

Init == Register!Init
Next == Register!Next

-----------------------------------------------------------------------------
Done(name) == {i \in DOMAIN trail : trail[i].op.name = name /\ trail[i].reply = "ok"}
Newest(S) == IF S = {} THEN 0 ELSE CHOOSE i \in S : \A j \in S : j <= i
Created == Newest(Done("create_room"))
Revoked == Newest(Done("revoke_room"))

(***************************************************************************)
(* While calls do not overlap and none is cut off, a room whose revocation *)
(* was acknowledged is not active again, and lets nobody in, until it is   *)
(* created anew.                                                           *)
(***************************************************************************)
RevocationHolds ==
    quiet /\ Revoked > Created =>
        /\ Register!AtRest /\ file.kind = "whole" => file.value.status = "REVOKED"
        /\ \A v \in Done("validate_access") : v < Revoked \/ v < Created

(***************************************************************************)
(* The room's log is of the visits that were granted.  However calls       *)
(* overlap, each of its entries has the time of one: an attempt that was   *)
(* refused leaves no trace, for all that validate_access is to "log access *)
(* attempt" (audit_room.py:350).  And while calls do not overlap and none  *)
(* is cut off, it has one entry for each visit that was granted since the  *)
(* room was created.                                                       *)
(***************************************************************************)
OnlyGrantsAreLogged ==
    /\ file.kind = "whole" =>
          \A k \in DOMAIN file.value.logs :
              \E v \in Done("validate_access") : trail[v].at = file.value.logs[k]
    /\ quiet /\ Register!AtRest /\ Created # 0 =>
          LET visits == {v \in Done("validate_access") : v > Created} IN
          /\ file.kind = "whole"
          /\ Len(file.value.logs) = Cardinality(visits)
          /\ \A v \in visits : \E k \in DOMAIN file.value.logs : file.value.logs[k] = trail[v].at
=============================================================================
