-------------------------- MODULE RegistriesProofs --------------------------
(***************************************************************************)
(* Proofs about the registers that are JSON files and about the export of  *)
(* a room: for any number of threads, any vendors, entitlements, tokens,   *)
(* periods and controls, and whatever the bounds are.                      *)
(***************************************************************************)
EXTENDS Registries, FiniteSetTheorems, TLAPS

-----------------------------------------------------------------------------
(***************************************************************************)
(* The vendor registry: the content is what the last saves made it, and no *)
(* report overlooked a gap unless it read a torn file.                     *)
(***************************************************************************)
SavesIn(t) == {i \in DOMAIN t : t[i].op.name = "save_vendor"}
LastIn(t, n) ==
    {i \in SavesIn(t) : i < n /\ \A j \in SavesIn(t) :
        j < n /\ t[j].op.vendor = t[i].op.vendor => j <= i}
Overlooks(t, r) ==
    /\ t[r].op.name = "generate_cc92_report" /\ t[r].reply.compliant
    /\ \E i \in LastIn(t, r) : t[i].reply.verdict.findings \cap Vendors!Critical # {}

VendorsStand(content, t) ==
    /\ \E S : t \in Seq(S)
    /\ SavesIn(t) = {} => content.kind # "whole"
    /\ SavesIn(t) # {} => content.kind = "whole"
    /\ content.kind = "whole" =>
          /\ \A i \in LastIn(t, Len(t) + 1) :
                content.value[t[i].op.vendor] = t[i].reply
          /\ DOMAIN content.value = {t[i].op.vendor : i \in SavesIn(t)}
    /\ \A r \in DOMAIN t : Overlooks(t, r) => t[r].found = "torn"

VendorFile == INSTANCE JsonRegisterProofs
    WITH Ops <- Vendors!VendorOps, Serve <- Vendors!ServeVendor, Good <- VendorsStand

LEMMA VendorAnswers ==
    ASSUME NEW content, NEW op \in Vendors!VendorOps, NEW id, NEW at
    PROVE  LET response == VendorFile!AnswerTo(content, op, id, at)
               vendors  == Vendors!ListVendors(content)
               stored   == Vendors!Assessed(op.profile, at)
           IN  /\ response.saves <=> op.name = "save_vendor"
               /\ op.name = "save_vendor" =>
                     /\ response.reply = stored
                     /\ response.value = Vendors!Saved(vendors, op.vendor, stored)
               /\ op.name = "generate_cc92_report" =>
                     response.reply = Vendors!Cc92Report(vendors)
    BY DEF VendorFile!AnswerTo, Vendors!ServeVendor, Vendors!VendorOps


(* What a call that returns adds to the saves. *)
LEMMA SavesGrow ==
    ASSUME NEW t, VendorFile!IsTrail(t), NEW e
    PROVE  LET u == Append(t, e)
               n == Len(t) + 1
           IN  /\ e.op.name # "save_vendor" => SavesIn(u) = SavesIn(t)
               /\ e.op.name = "save_vendor" => SavesIn(u) = SavesIn(t) \cup {n}
               /\ \A r \in DOMAIN t : LastIn(u, r) = LastIn(t, r)
               /\ LastIn(u, n) = LastIn(t, n)
               /\ e.op.name # "save_vendor" => LastIn(u, n + 1) = LastIn(t, n)
               /\ e.op.name = "save_vendor" => LastIn(u, n + 1) =
                     {n} \cup {i \in LastIn(t, n) : t[i].op.vendor # e.op.vendor}
<1> DEFINE u == Append(t, e)
           n == Len(t) + 1
<1>1. /\ Len(t) \in Nat /\ n \in Nat /\ DOMAIN u = DOMAIN t \cup {n} /\ n \notin DOMAIN t
      /\ \A i \in DOMAIN t : u[i] = t[i] /\ i < n /\ i \in Nat
      /\ u[n] = e
    BY VendorFile!Appended
<1> HIDE DEF u, n
<1>2. /\ e.op.name # "save_vendor" => SavesIn(u) = SavesIn(t)
      /\ e.op.name = "save_vendor" => SavesIn(u) = SavesIn(t) \cup {n}
    BY <1>1 DEF SavesIn
<1>3. /\ \A i \in SavesIn(t) : i \in DOMAIN t /\ i \in Nat /\ i < n /\ u[i] = t[i]
      /\ SavesIn(u) \subseteq SavesIn(t) \cup {n}
      /\ n \notin SavesIn(t)
    BY <1>1, <1>2 DEF SavesIn
<1>4. ASSUME NEW r \in Nat, r <= n PROVE LastIn(u, r) = LastIn(t, r)
    <2>1. \A i : i \in SavesIn(u) /\ i < r <=> i \in SavesIn(t) /\ i < r
        BY <1>1, <1>2, <1>3, <1>4
    <2>2. \A i : i \in LastIn(u, r) <=> i \in LastIn(t, r)
        BY <1>3, <2>1 DEF LastIn
    <2> QED
        BY <2>2 DEF LastIn
<1>5. (\A r \in DOMAIN t : LastIn(u, r) = LastIn(t, r)) /\ LastIn(u, n) = LastIn(t, n)
    BY <1>1, <1>4
<1>6. ASSUME e.op.name # "save_vendor" PROVE LastIn(u, n + 1) = LastIn(t, n)
    <2>1. \A i : i \in SavesIn(u) /\ i < n + 1 <=> i \in SavesIn(t) /\ i < n
        BY <1>1, <1>2, <1>3, <1>6
    <2>2. \A i : i \in LastIn(u, n + 1) <=> i \in LastIn(t, n)
        BY <1>3, <2>1 DEF LastIn
    <2> QED
        BY <2>2 DEF LastIn
<1>7. ASSUME e.op.name = "save_vendor"
      PROVE  LastIn(u, n + 1) = {n} \cup {i \in LastIn(t, n) : t[i].op.vendor # e.op.vendor}
    <2>1. /\ \A i : i \in SavesIn(u) /\ i < n + 1 <=> i \in SavesIn(t) \cup {n}
          /\ \A i : i \in SavesIn(t) /\ i < n <=> i \in SavesIn(t)
        BY <1>1, <1>2, <1>3, <1>7
    <2>2. /\ \A i \in SavesIn(t) : i <= n /\ ~(n <= i)
          /\ n <= n
        BY <1>1, <1>3
    <2>3. \A i : i \in LastIn(u, n + 1) <=>
              i = n \/ (i \in LastIn(t, n) /\ t[i].op.vendor # e.op.vendor)
        BY <1>1, <1>3, <2>1, <2>2 DEF LastIn
    <2> QED
        BY <2>3 DEF LastIn
<1> QED
    BY <1>2, <1>5, <1>6, <1>7 DEF u, n

LEMMA VendorSaves == VendorFile!SavesKeepGood
<1> SUFFICES ASSUME NEW content, NEW t, NEW value, NEW e,
                    VendorsStand(content, t), VendorFile!Computed(value, e, content)
             PROVE  VendorsStand(VendorFile!Whole(value), Append(t, e))
    BY DEF VendorFile!SavesKeepGood
<1>1. PICK op, id, at :
          /\ op \in Vendors!VendorOps
          /\ VendorFile!AnswerTo(content, op, id, at).saves
          /\ value = VendorFile!AnswerTo(content, op, id, at).value
          /\ e = VendorFile!Entry(content, op, id, at)
    BY DEF VendorFile!Computed
<1> DEFINE vendors == Vendors!ListVendors(content)
           stored == Vendors!Assessed(op.profile, at)
           u == Append(t, e)
           n == Len(t) + 1
<1>2. /\ op.name = "save_vendor" /\ e.op = op /\ e.reply = stored
      /\ value = Vendors!Saved(vendors, op.vendor, stored)
    BY <1>1, VendorAnswers DEF VendorFile!Entry
<1>3. /\ DOMAIN value = DOMAIN vendors \cup {op.vendor} /\ value[op.vendor] = stored
      /\ \A v \in DOMAIN vendors : v # op.vendor => value[v] = vendors[v]
    BY <1>2 DEF Vendors!Saved
<1>4. VendorFile!IsTrail(t)
    BY DEF VendorFile!IsTrail, VendorsStand
<1>5. /\ VendorFile!IsTrail(u) /\ Len(u) = n /\ DOMAIN u = DOMAIN t \cup {n} /\ u[n] = e
      /\ \A i \in DOMAIN t : u[i] = t[i] /\ i # n
    BY <1>4, VendorFile!Appended
<1>6. /\ SavesIn(u) = SavesIn(t) \cup {n}
      /\ \A r \in DOMAIN t : LastIn(u, r) = LastIn(t, r)
      /\ LastIn(u, n + 1) = {n} \cup {i \in LastIn(t, n) : t[i].op.vendor # op.vendor}
    BY <1>2, <1>4, SavesGrow
<1> HIDE DEF stored, u, n
<1>7. /\ DOMAIN vendors = {t[i].op.vendor : i \in SavesIn(t)}
      /\ \A i \in LastIn(t, n) : vendors[t[i].op.vendor] = t[i].reply
      /\ SavesIn(t) \subseteq DOMAIN t /\ LastIn(t, n) \subseteq SavesIn(t)
    <2>1. SavesIn(t) \subseteq DOMAIN t /\ LastIn(t, n) \subseteq SavesIn(t)
        BY DEF SavesIn, LastIn
    <2>2. CASE content.kind = "whole"
        BY <2>1, <2>2 DEF VendorsStand, Vendors!ListVendors, n
    <2>3. CASE content.kind # "whole"
        <3>1. SavesIn(t) = {} /\ vendors = <<>>
            BY <2>3 DEF VendorsStand, Vendors!ListVendors
        <3>2. DOMAIN <<>> = {}
            OBVIOUS
        <3> QED
            BY <2>1, <3>1, <3>2
    <2> QED
        BY <2>2, <2>3
<1> HIDE DEF vendors
<1>8. \A i \in LastIn(u, n + 1) : value[u[i].op.vendor] = u[i].reply
    <2>1. value[u[n].op.vendor] = u[n].reply
        BY <1>2, <1>3, <1>5
    <2>2. ASSUME NEW i \in LastIn(t, n), t[i].op.vendor # op.vendor
          PROVE  value[u[i].op.vendor] = u[i].reply
        BY <1>3, <1>5, <1>7, <2>2
    <2> QED
        BY <1>6, <2>1, <2>2
<1>9. DOMAIN value = {u[i].op.vendor : i \in SavesIn(u)}
    BY <1>2, <1>3, <1>5, <1>6, <1>7
<1>10. \A r \in DOMAIN u : Overlooks(u, r) => u[r].found = "torn"
    <2>1. ~Overlooks(u, n)
        BY <1>2, <1>5 DEF Overlooks
    <2>2. ASSUME NEW r \in DOMAIN t, Overlooks(u, r) PROVE Overlooks(t, r)
        <3>1. \A i \in LastIn(t, r) : i \in DOMAIN t
            BY DEF LastIn, SavesIn
        <3> QED
            BY <1>5, <1>6, <2>2, <3>1 DEF Overlooks
    <2> QED
        BY <1>5, <2>1, <2>2 DEF VendorsStand
<1>11. /\ VendorFile!Whole(value).kind = "whole" /\ VendorFile!Whole(value).value = value
       /\ SavesIn(u) # {}
    BY <1>6 DEF VendorFile!Whole
<1> QED
    BY <1>5, <1>8, <1>9, <1>10, <1>11 DEF VendorsStand, VendorFile!IsTrail, u

LEMMA VendorReads == VendorFile!ReadsKeepGood
<1> SUFFICES ASSUME NEW content, NEW read, NEW t, NEW id, NEW at, NEW op \in Vendors!VendorOps,
                    VendorsStand(content, t), read \in {content, VendorFile!Torn},
                    ~VendorFile!AnswerTo(read, op, id, at).saves
             PROVE  VendorsStand(content, Append(t, VendorFile!Entry(read, op, id, at)))
    BY DEF VendorFile!ReadsKeepGood
<1> DEFINE e == VendorFile!Entry(read, op, id, at)
           vendors == Vendors!ListVendors(read)
           u == Append(t, e)
           n == Len(t) + 1
<1>1. /\ op.name # "save_vendor" /\ e.op = op /\ e.found = read.kind
      /\ op.name = "generate_cc92_report" => e.reply = Vendors!Cc92Report(vendors)
    BY VendorAnswers DEF VendorFile!Entry
<1>2. VendorFile!IsTrail(t)
    BY DEF VendorFile!IsTrail, VendorsStand
<1>3. /\ VendorFile!IsTrail(u) /\ Len(u) = n /\ DOMAIN u = DOMAIN t \cup {n} /\ u[n] = e
      /\ \A i \in DOMAIN t : u[i] = t[i]
    BY <1>2, VendorFile!Appended
<1>4. /\ SavesIn(u) = SavesIn(t)
      /\ \A r \in DOMAIN t : LastIn(u, r) = LastIn(t, r)
      /\ LastIn(u, n) = LastIn(t, n) /\ LastIn(u, n + 1) = LastIn(t, n)
    BY <1>1, <1>2, SavesGrow
<1> HIDE DEF e, u, n
<1>5. SavesIn(t) \subseteq DOMAIN t /\ \A r : LastIn(t, r) \subseteq SavesIn(t)
    BY DEF SavesIn, LastIn
<1>6. ASSUME NEW r \in DOMAIN t, Overlooks(u, r) PROVE u[r].found = "torn"
    <2>1. Overlooks(t, r)
        BY <1>3, <1>4, <1>5, <1>6 DEF Overlooks
    <2> QED
        BY <1>3, <2>1 DEF VendorsStand
<1>7. ASSUME Overlooks(u, n) PROVE u[n].found = "torn"
    <2>1. /\ e.op.name = "generate_cc92_report" /\ e.reply.compliant
          /\ \E i \in LastIn(t, n) : t[i].reply.verdict.findings \cap Vendors!Critical # {}
        BY <1>3, <1>4, <1>5, <1>7 DEF Overlooks
    <2>2. PICK i \in LastIn(t, n) : t[i].reply.verdict.findings \cap Vendors!Critical # {}
        BY <2>1
    <2>3. CASE read = VendorFile!Torn
        BY <1>1, <1>3, <2>3 DEF VendorFile!Torn
    <2>4. CASE read = content
        <3>1. /\ content.kind = "whole" /\ vendors = content.value
              /\ t[i].op.vendor \in DOMAIN vendors
              /\ vendors[t[i].op.vendor] = t[i].reply
            BY <1>5, <2>2, <2>4 DEF VendorsStand, Vendors!ListVendors, n
        <3>2. t[i].op.vendor \in {v \in DOMAIN vendors :
                                     vendors[v].verdict.findings \cap Vendors!Critical # {}}
            BY <2>2, <3>1
        <3> HIDE DEF vendors
        <3>3. ~Vendors!Cc92Report(vendors).compliant
            BY <3>2 DEF Vendors!Cc92Report
        <3> QED
            BY <1>1, <2>1, <3>3
    <2> QED
        BY <2>3, <2>4
<1>8. \A r \in DOMAIN u : Overlooks(u, r) => u[r].found = "torn"
    BY <1>3, <1>6, <1>7
<1>9. content.kind = "whole" =>
          /\ \A i \in LastIn(u, n + 1) : content.value[u[i].op.vendor] = u[i].reply
          /\ DOMAIN content.value = {u[i].op.vendor : i \in SavesIn(u)}
    BY <1>3, <1>4, <1>5 DEF VendorsStand, n
<1> QED
    BY <1>3, <1>4, <1>8, <1>9 DEF VendorsStand, VendorFile!IsTrail, u, e

VendorInv == focus = "vendors" => VendorFile!Serial

LEMMA VendorInit == Start => VendorInv
<1> SUFFICES ASSUME Start PROVE VendorInv
    OBVIOUS
<1>1. VendorFile!Init /\ trail = <<>>
    BY DEF Start, Vendors!Init, Vendors!Register!Init, VendorFile!Init,
           Vendors!Register!Absent, VendorFile!Absent, Vendors!Register!Idle, VendorFile!Idle
<1>2. DOMAIN <<>> = {} /\ Len(<<>>) = 0 /\ VendorFile!IsTrail(<<>>)
    BY VendorFile!EmptyTrail
<1>3. VendorsStand(VendorFile!Absent, <<>>)
    BY <1>2 DEF VendorsStand, VendorFile!Absent, SavesIn, VendorFile!IsTrail
<1> QED
    BY <1>1, <1>2, <1>3, VendorFile!SerialInit DEF VendorInv

LEMMA VendorStep == VendorInv /\ [Serve]_<<focus, registry, package, vars>> => VendorInv'
<1> SUFFICES ASSUME VendorInv, [Serve]_<<focus, registry, package, vars>>, focus' = "vendors"
             PROVE  VendorInv'
    BY DEF VendorInv
<1>1. focus = "vendors" /\ (VendorFile!Next \/ UNCHANGED VendorFile!vars)
    <2>1. focus = "vendors" /\ (Vendors!Next \/ UNCHANGED registry)
        BY DEF Serve
    <2>2. CASE UNCHANGED registry
        BY <2>1, <2>2 DEF registry, VendorFile!vars
    <2>3. CASE Vendors!Next
        BY <2>1, <2>3
        DEF Vendors!Next, Vendors!Register!Next, VendorFile!Next,
            Vendors!Register!Call, VendorFile!Call, Vendors!Register!Read, VendorFile!Read,
            Vendors!Register!Answered, VendorFile!Answered,
            Vendors!Register!Truncate, VendorFile!Truncate,
            Vendors!Register!Write, VendorFile!Write, Vendors!Register!Stop, VendorFile!Stop,
            Vendors!Register!Tick, VendorFile!Tick, Vendors!Register!AtRest, VendorFile!AtRest,
            Vendors!Register!Whole, VendorFile!Whole, Vendors!Register!Torn, VendorFile!Torn,
            Vendors!Register!Idle, VendorFile!Idle
    <2> QED
        BY <2>1, <2>2, <2>3
<1>2. VendorFile!Serial'
    BY <1>1, VendorFile!SerialStep, VendorSaves, VendorReads DEF VendorInv
<1> QED
    BY <1>2 DEF VendorInv

LEMMA VendorInvariant == Served => []VendorInv
    BY VendorInit, VendorStep, PTL DEF Served

(***************************************************************************)
(* While calls do not overlap and none is cut off, the registry holds the  *)
(* last save of every vendor, and nothing else.                            *)
(***************************************************************************)
THEOREM SavesStand == Served => []NoVendorLost
<1>1. VendorInv => NoVendorLost
    <2> SUFFICES ASSUME VendorInv, focus = "vendors", quiet, Vendors!Register!AtRest,
                        Vendors!Saves # {}
                 PROVE  /\ file.kind = "whole"
                        /\ \A i \in Vendors!LastSaves :
                              /\ trail[i].op.vendor \in DOMAIN file.value
                              /\ file.value[trail[i].op.vendor] = trail[i].reply
                        /\ DOMAIN file.value = {trail[i].op.vendor : i \in Vendors!Saves}
        BY DEF NoVendorLost, Vendors!NoVendorLost
    <2>1. VendorsStand(file, trail)
        BY VendorFile!SerialIsGood DEF VendorInv, Vendors!Register!AtRest, VendorFile!AtRest
    <2>2. VendorFile!IsTrail(trail)
        BY <2>1 DEF VendorsStand, VendorFile!IsTrail
    <2>3. \A i \in DOMAIN trail : i < Len(trail) + 1
        BY <2>2, VendorFile!Appended
    <2>4. /\ Vendors!Saves = SavesIn(trail) /\ SavesIn(trail) \subseteq DOMAIN trail
          /\ Vendors!LastSaves \subseteq SavesIn(trail)
          /\ Vendors!LastSaves \subseteq LastIn(trail, Len(trail) + 1)
        BY <2>3 DEF Vendors!Saves, Vendors!LastSaves, SavesIn, LastIn
    <2> QED
        BY <2>1, <2>4 DEF VendorsStand
<1> QED
    BY <1>1, VendorInvariant, PTL

(***************************************************************************)
(* A report overlooks a critical gap only where it read a torn file, or    *)
(* after saves that overlapped or were cut off.                            *)
(***************************************************************************)
THEOREM ReportsAreBacked == Served => []ComplianceIsBacked
<1>1. VendorInv => ComplianceIsBacked
    <2> SUFFICES ASSUME VendorInv, focus = "vendors", quiet
                 PROVE  Vendors!ComplianceIsBacked
        BY DEF ComplianceIsBacked, Vendors!ComplianceIsBacked
    <2>1. PICK content : VendorsStand(content, trail)
        BY VendorFile!SerialIsGood DEF VendorInv
    <2>2. \A r \in DOMAIN trail : Overlooks(trail, r) => trail[r].found = "torn"
        BY <2>1 DEF VendorsStand
    <2>3. ASSUME NEW r \in DOMAIN trail,
                 NEW before, before = {i \in Vendors!Saves : i < r},
                 NEW latest, latest = {i \in before : \A j \in before :
                                trail[j].op.vendor = trail[i].op.vendor => j <= i}
          PROVE  latest = LastIn(trail, r)
        BY <2>3 DEF Vendors!Saves, SavesIn, LastIn
    <2> QED
        BY <2>2, <2>3 DEF Vendors!ComplianceIsBacked, Overlooks
<1> QED
    BY <1>1, VendorInvariant, PTL

-----------------------------------------------------------------------------
(***************************************************************************)
(* The audit room: a room that was revoked after it was created is revoked *)
(* and was not visited since, and its log has the visits since then.       *)
(***************************************************************************)
DoneIn(t, name) == {i \in DOMAIN t : t[i].op.name = name /\ t[i].reply = "ok"}
CreatedIn(t) == Rooms!Newest(DoneIn(t, "create_room"))
RevokedIn(t) == Rooms!Newest(DoneIn(t, "revoke_room"))
VisitsIn(t) == {v \in DoneIn(t, "validate_access") : v > CreatedIn(t)}

ARoom(room) ==
    /\ room = [status |-> room.status, expires |-> room.expires, token |-> room.token,
               dates |-> room.dates, hashes |-> room.hashes, logs |-> room.logs]
    /\ \E S : room.logs \in Seq(S)

RoomStands(content, t) ==
    /\ \E S : t \in Seq(S)
    /\ content.kind = "whole" => ARoom(content.value)
    /\ RevokedIn(t) > CreatedIn(t) =>
          /\ content.kind = "whole" => content.value.status = "REVOKED"
          /\ \A v \in DoneIn(t, "validate_access") : v < RevokedIn(t) \/ v < CreatedIn(t)
    /\ CreatedIn(t) # 0 =>
          /\ content.kind = "whole"
          /\ IsFiniteSet(VisitsIn(t)) /\ Len(content.value.logs) = Cardinality(VisitsIn(t))
          /\ \A v \in VisitsIn(t) :
                \E k \in DOMAIN content.value.logs : content.value.logs[k] = t[v].at

RoomFile == INSTANCE JsonRegisterProofs
    WITH Ops <- Rooms!RoomOps, Serve <- Rooms!ServeRoom, Good <- RoomStands

LEMMA RoomNewest ==
    ASSUME NEW n \in Nat, NEW S, S \subseteq 1 .. n
    PROVE  /\ Rooms!Newest(S) \in 0 .. n
           /\ Rooms!Newest(S \cup {n + 1}) = n + 1
<1>1. Rooms!Newest(S \cup {n + 1}) = n + 1
    <2>1. \A j \in S \cup {n + 1} : j \in Nat /\ j <= n + 1
        OBVIOUS
    <2>2. \A i \in S \cup {n + 1} : (\A j \in S \cup {n + 1} : j <= i) <=> i = n + 1
        BY <2>1
    <2> QED
        BY <2>2 DEF Rooms!Newest
<1>2. CASE S = {}
    BY <1>1, <1>2 DEF Rooms!Newest
<1>3. CASE S # {}
    <2>1. \E i \in S : \A j \in S : j <= i
        BY <1>3, RoomFile!HasLast
    <2>2. Rooms!Newest(S) \in S
        BY <1>3, <2>1 DEF Rooms!Newest
    <2>3. Rooms!Newest(S) \in 1 .. n
        BY <2>2
    <2> QED
        BY <1>1, <2>3
<1> QED
    BY <1>2, <1>3

LEMMA RoomAnswers ==
    ASSUME NEW content, NEW op \in Rooms!RoomOps, NEW id, NEW at
    PROVE  LET response == RoomFile!AnswerTo(content, op, id, at)
               room   == content.value
           IN  /\ ~response.saves => response.reply # "ok"
               /\ response.saves =>
                     /\ response.reply = "ok"
                     /\ \/ /\ op.name = "create_room"
                           /\ response.value = Rooms!NewRoom(op, [id |-> id, at |-> at])
                        \/ /\ op.name = "revoke_room" /\ content.kind = "whole"
                           /\ response.value = [room EXCEPT !.status = "REVOKED"]
                        \/ /\ op.name = "validate_access" /\ content.kind = "whole"
                           /\ Rooms!IsActive(room, at)
                           /\ response.value = [room EXCEPT !.logs = Append(@, at)]
    BY DEF RoomFile!AnswerTo, Rooms!ServeRoom, Rooms!RoomOps, Rooms!Save, Rooms!Refuse,
           Rooms!RecordAccess

(* What a call that returns adds to what was done. *)
LEMMA DoneGrows ==
    ASSUME NEW t, RoomFile!IsTrail(t), NEW e
    PROVE  LET u == Append(t, e)
               n == Len(t) + 1
           IN  /\ Len(t) \in Nat /\ n \in Nat /\ RoomFile!IsTrail(u) /\ u[n] = e
               /\ \A i \in DOMAIN t : u[i] = t[i]
               /\ \A name :
                     /\ DoneIn(t, name) \subseteq 1 .. Len(t)
                     /\ DoneIn(t, name) \subseteq DOMAIN t
                     /\ ~(e.op.name = name /\ e.reply = "ok") => DoneIn(u, name) = DoneIn(t, name)
                     /\ e.op.name = name /\ e.reply = "ok"
                           => DoneIn(u, name) = DoneIn(t, name) \cup {n}
               /\ CreatedIn(t) \in 0 .. Len(t) /\ RevokedIn(t) \in 0 .. Len(t)
<1> DEFINE u == Append(t, e)
           n == Len(t) + 1
<1>1. /\ Len(t) \in Nat /\ n \in Nat /\ RoomFile!IsTrail(u) /\ u[n] = e
      /\ DOMAIN u = DOMAIN t \cup {n} /\ n \notin DOMAIN t /\ DOMAIN t = 1 .. Len(t)
      /\ \A i \in DOMAIN t : u[i] = t[i]
    BY RoomFile!Appended
<1> HIDE DEF u, n
<1>2. \A name : DoneIn(t, name) \subseteq 1 .. Len(t)
    BY <1>1 DEF DoneIn
<1>3. CreatedIn(t) \in 0 .. Len(t) /\ RevokedIn(t) \in 0 .. Len(t)
    BY <1>1, <1>2, RoomNewest DEF CreatedIn, RevokedIn
<1>4. ASSUME NEW name
      PROVE  /\ ~(e.op.name = name /\ e.reply = "ok") => DoneIn(u, name) = DoneIn(t, name)
             /\ e.op.name = name /\ e.reply = "ok" => DoneIn(u, name) = DoneIn(t, name) \cup {n}
    BY <1>1 DEF DoneIn
<1> QED
    BY <1>1, <1>2, <1>3, <1>4 DEF u, n

(* The visits since the room was created, with one more call. *)
LEMMA VisitsGrow ==
    ASSUME NEW t, RoomFile!IsTrail(t), NEW e
    PROVE  LET u == Append(t, e)
               n == Len(t) + 1
           IN  /\ e.reply # "ok" \/ e.op.name = "revoke_room" =>
                     /\ CreatedIn(u) = CreatedIn(t) /\ VisitsIn(u) = VisitsIn(t)
                     /\ DoneIn(u, "validate_access") = DoneIn(t, "validate_access")
               /\ e.reply # "ok" => RevokedIn(u) = RevokedIn(t)
               /\ e.reply = "ok" /\ e.op.name = "revoke_room" => RevokedIn(u) = n
               /\ e.reply = "ok" /\ e.op.name = "create_room" =>
                     /\ CreatedIn(u) = n /\ RevokedIn(u) < n /\ VisitsIn(u) = {}
               /\ e.reply = "ok" /\ e.op.name = "validate_access" =>
                     /\ CreatedIn(u) = CreatedIn(t) /\ RevokedIn(u) = RevokedIn(t)
                     /\ VisitsIn(u) = VisitsIn(t) \cup {n}
               /\ VisitsIn(t) \subseteq DOMAIN t /\ n \notin VisitsIn(t)
<1> DEFINE u == Append(t, e)
           n == Len(t) + 1
<1>1. /\ Len(t) \in Nat /\ n \in Nat
      /\ \A name :
            /\ DoneIn(t, name) \subseteq 1 .. Len(t)
            /\ DoneIn(t, name) \subseteq DOMAIN t
            /\ ~(e.op.name = name /\ e.reply = "ok") => DoneIn(u, name) = DoneIn(t, name)
            /\ e.op.name = name /\ e.reply = "ok" => DoneIn(u, name) = DoneIn(t, name) \cup {n}
      /\ CreatedIn(t) \in 0 .. Len(t) /\ RevokedIn(t) \in 0 .. Len(t)
    BY DoneGrows
<1>2. ASSUME NEW S, S \subseteq 1 .. Len(t) PROVE Rooms!Newest(S \cup {n}) = n
    BY <1>1, <1>2, RoomNewest
<1> HIDE DEF u
<1>3. e.reply # "ok" \/ e.op.name = "revoke_room" =>
          /\ CreatedIn(u) = CreatedIn(t) /\ VisitsIn(u) = VisitsIn(t)
          /\ DoneIn(u, "validate_access") = DoneIn(t, "validate_access")
    BY <1>1 DEF CreatedIn, VisitsIn
<1>4. e.reply # "ok" => RevokedIn(u) = RevokedIn(t)
    BY <1>1 DEF RevokedIn
<1>5. e.reply = "ok" /\ e.op.name = "revoke_room" => RevokedIn(u) = n
    BY <1>1, <1>2 DEF RevokedIn
<1>6. ASSUME e.reply = "ok", e.op.name = "create_room"
      PROVE  CreatedIn(u) = n /\ RevokedIn(u) < n /\ VisitsIn(u) = {}
    <2>1. CreatedIn(u) = n
        BY <1>1, <1>2, <1>6 DEF CreatedIn
    <2>2. RevokedIn(u) = RevokedIn(t)
        BY <1>1, <1>6 DEF RevokedIn
    <2>3. VisitsIn(u) = {}
        BY <1>1, <1>6, <2>1 DEF VisitsIn
    <2> QED
        BY <1>1, <2>1, <2>2, <2>3
<1>7. ASSUME e.reply = "ok", e.op.name = "validate_access"
      PROVE  /\ CreatedIn(u) = CreatedIn(t) /\ RevokedIn(u) = RevokedIn(t)
             /\ VisitsIn(u) = VisitsIn(t) \cup {n}
    <2>1. CreatedIn(u) = CreatedIn(t) /\ RevokedIn(u) = RevokedIn(t)
        BY <1>1, <1>7 DEF CreatedIn, RevokedIn
    <2>2. n > CreatedIn(t)
        BY <1>1
    <2> QED
        BY <1>1, <1>7, <2>1, <2>2 DEF VisitsIn
<1>8. VisitsIn(t) \subseteq DOMAIN t /\ n \notin VisitsIn(t)
    BY <1>1 DEF VisitsIn
<1> QED
    BY <1>3, <1>4, <1>5, <1>6, <1>7, <1>8 DEF u

LEMMA RoomReads == RoomFile!ReadsKeepGood
<1> SUFFICES ASSUME NEW content, NEW read, NEW t, NEW id, NEW at, NEW op \in Rooms!RoomOps,
                    RoomStands(content, t), ~RoomFile!AnswerTo(read, op, id, at).saves
             PROVE  RoomStands(content, Append(t, RoomFile!Entry(read, op, id, at)))
    BY DEF RoomFile!ReadsKeepGood
<1> DEFINE e == RoomFile!Entry(read, op, id, at)
           u == Append(t, e)
<1>1. e.reply # "ok"
    BY RoomAnswers DEF RoomFile!Entry
<1>2. RoomFile!IsTrail(t)
    BY DEF RoomFile!IsTrail, RoomStands
<1> HIDE DEF e
<1>3. /\ RoomFile!IsTrail(u) /\ \A i \in DOMAIN t : u[i] = t[i]
      /\ CreatedIn(u) = CreatedIn(t) /\ RevokedIn(u) = RevokedIn(t)
      /\ VisitsIn(u) = VisitsIn(t) /\ VisitsIn(t) \subseteq DOMAIN t
      /\ DoneIn(u, "validate_access") = DoneIn(t, "validate_access")
    BY <1>1, <1>2, RoomFile!Appended, VisitsGrow
<1> HIDE DEF u
<1>4. RoomStands(content, u)
    BY <1>3 DEF RoomStands, RoomFile!IsTrail
<1> QED
    BY <1>4 DEF u, e

LEMMA RoomSaves == RoomFile!SavesKeepGood
<1> SUFFICES ASSUME NEW content, NEW t, NEW value, NEW e,
                    RoomStands(content, t), RoomFile!Computed(value, e, content)
             PROVE  RoomStands(RoomFile!Whole(value), Append(t, e))
    BY DEF RoomFile!SavesKeepGood
<1>1. PICK op, id, at :
          /\ op \in Rooms!RoomOps
          /\ RoomFile!AnswerTo(content, op, id, at).saves
          /\ value = RoomFile!AnswerTo(content, op, id, at).value
          /\ e = RoomFile!Entry(content, op, id, at)
    BY DEF RoomFile!Computed
<1> DEFINE u == Append(t, e)
           n == Len(t) + 1
           room == content.value
           whole == RoomFile!Whole(value)
<1>2. /\ e.op = op /\ e.reply = "ok" /\ e.at = at
      /\ \/ op.name = "create_room" /\ value = Rooms!NewRoom(op, [id |-> id, at |-> at])
         \/ /\ op.name = "revoke_room" /\ content.kind = "whole"
            /\ value = [room EXCEPT !.status = "REVOKED"]
         \/ /\ op.name = "validate_access" /\ content.kind = "whole"
            /\ Rooms!IsActive(room, at)
            /\ value = [room EXCEPT !.logs = Append(@, at)]
    BY <1>1, RoomAnswers DEF RoomFile!Entry
<1>3. RoomFile!IsTrail(t)
    BY DEF RoomFile!IsTrail, RoomStands
<1>4. /\ Len(t) \in Nat /\ n \in Nat /\ RoomFile!IsTrail(u) /\ u[n] = e
      /\ \A i \in DOMAIN t : u[i] = t[i]
      /\ DoneIn(t, "validate_access") \subseteq 1 .. Len(t)
      /\ CreatedIn(t) \in 0 .. Len(t) /\ RevokedIn(t) \in 0 .. Len(t)
    BY <1>3, RoomFile!Appended, DoneGrows
<1>5. /\ op.name = "revoke_room" =>
            /\ CreatedIn(u) = CreatedIn(t) /\ VisitsIn(u) = VisitsIn(t) /\ RevokedIn(u) = n
            /\ DoneIn(u, "validate_access") = DoneIn(t, "validate_access")
      /\ op.name = "create_room" =>
            /\ CreatedIn(u) = n /\ RevokedIn(u) < n /\ VisitsIn(u) = {}
      /\ op.name = "validate_access" =>
            /\ CreatedIn(u) = CreatedIn(t) /\ RevokedIn(u) = RevokedIn(t)
            /\ VisitsIn(u) = VisitsIn(t) \cup {n}
      /\ VisitsIn(t) \subseteq DOMAIN t /\ n \notin VisitsIn(t)
    BY <1>2, <1>3, VisitsGrow
<1>6. whole.kind = "whole" /\ whole.value = value
    BY DEF RoomFile!Whole
<1> SUFFICES RoomStands(whole, u)
    BY DEF whole, u
<1> HIDE DEF u, n, room, whole
<1>7. CASE op.name = "create_room"
    <2>1. ARoom(value) /\ value.logs = <<>>
        <3> DEFINE dates == {d \in EvidenceDates : Rooms!Within(d, op.period)}
                   hashes == {b \in DOMAIN Blocks : Rooms!Within(Blocks[b], op.period)}
                   expires == at + op.days
        <3>1. value = [status |-> "ACTIVE", expires |-> expires, token |-> id,
                       dates |-> dates, hashes |-> hashes, logs |-> <<>>]
            BY <1>2, <1>7 DEF Rooms!NewRoom
        <3> HIDE DEF dates, hashes, expires
        <3>2. <<>> \in Seq({})
            OBVIOUS
        <3> QED
            BY <3>1, <3>2 DEF ARoom
    <2>2. Len(<<>>) = 0 /\ IsFiniteSet({}) /\ Cardinality({}) = 0
        BY FS_EmptySet
    <2>3. ~(RevokedIn(u) > CreatedIn(u))
        <3>1. RevokedIn(u) \in Nat
            BY <1>4, DoneGrows
        <3> QED
            BY <1>4, <1>5, <1>7, <3>1
    <2> QED
        BY <1>4, <1>5, <1>6, <1>7, <2>1, <2>2, <2>3 DEF RoomStands, RoomFile!IsTrail
<1>8. CASE op.name = "revoke_room"
    <2>1. ARoom(room)
        BY <1>2, <1>8 DEF RoomStands, room
    <2>2. ARoom(value) /\ value.logs = room.logs /\ value.status = "REVOKED"
        BY <1>2, <1>8, <2>1 DEF ARoom
    <2>3. \A v \in DoneIn(u, "validate_access") : v < RevokedIn(u)
        BY <1>4, <1>5, <1>8 DEF n
    <2> QED
        BY <1>2, <1>4, <1>5, <1>6, <1>8, <2>2, <2>3 DEF RoomStands, RoomFile!IsTrail, room
<1>9. CASE op.name = "validate_access"
    <2>1. ARoom(room) /\ room.status = "ACTIVE"
        BY <1>2, <1>9 DEF RoomStands, Rooms!IsActive, room
    <2>2. PICK S : room.logs \in Seq(S)
        BY <2>1 DEF ARoom
    <2>3. /\ room.logs \in Seq(S \cup {at}) /\ Append(room.logs, at) \in Seq(S \cup {at})
          /\ Len(Append(room.logs, at)) = Len(room.logs) + 1
          /\ \A k \in DOMAIN room.logs :
                k \in DOMAIN Append(room.logs, at) /\ Append(room.logs, at)[k] = room.logs[k]
          /\ Len(room.logs) + 1 \in DOMAIN Append(room.logs, at)
          /\ Append(room.logs, at)[Len(room.logs) + 1] = at
        BY <2>2
    <2>4. ARoom(value) /\ value.logs = Append(room.logs, at)
        BY <1>2, <1>9, <2>1, <2>3 DEF ARoom
    <2>5. ~(RevokedIn(u) > CreatedIn(u))
        BY <1>2, <1>5, <1>9, <2>1 DEF RoomStands, room
    <2>6. CreatedIn(u) # 0 =>
              /\ IsFiniteSet(VisitsIn(u)) /\ Len(value.logs) = Cardinality(VisitsIn(u))
              /\ \A v \in VisitsIn(u) :
                    \E k \in DOMAIN value.logs : value.logs[k] = u[v].at
        <3> SUFFICES ASSUME CreatedIn(u) # 0
                     PROVE  /\ IsFiniteSet(VisitsIn(u))
                            /\ Len(value.logs) = Cardinality(VisitsIn(u))
                            /\ \A v \in VisitsIn(u) :
                                  \E k \in DOMAIN value.logs : value.logs[k] = u[v].at
            OBVIOUS
        <3>1. /\ IsFiniteSet(VisitsIn(t)) /\ Len(room.logs) = Cardinality(VisitsIn(t))
              /\ \A v \in VisitsIn(t) : \E k \in DOMAIN room.logs : room.logs[k] = t[v].at
            BY <1>5, <1>9 DEF RoomStands, room
        <3>2. /\ IsFiniteSet(VisitsIn(u)) /\ Cardinality(VisitsIn(u)) = Cardinality(VisitsIn(t)) + 1
            BY <1>5, <1>9, <3>1, FS_AddElement
        <3>3. \A v \in VisitsIn(u) : \E k \in DOMAIN value.logs : value.logs[k] = u[v].at
            BY <1>2, <1>4, <1>5, <1>9, <2>3, <2>4, <3>1
        <3> QED
            BY <2>3, <2>4, <3>1, <3>2, <3>3
    <2> QED
        BY <1>4, <1>6, <2>4, <2>5, <2>6 DEF RoomStands, RoomFile!IsTrail
<1> QED
    BY <1>2, <1>7, <1>8, <1>9

RoomInv == focus = "rooms" => RoomFile!Serial

LEMMA RoomInit == Start => RoomInv
<1> SUFFICES ASSUME Start PROVE RoomInv
    OBVIOUS
<1>1. RoomFile!Init /\ trail = <<>>
    BY DEF Start, Vendors!Init, Vendors!Register!Init, RoomFile!Init,
           Vendors!Register!Absent, RoomFile!Absent, Vendors!Register!Idle, RoomFile!Idle
<1>2. DOMAIN <<>> = {} /\ RoomFile!IsTrail(<<>>)
    BY RoomFile!EmptyTrail
<1>3. CreatedIn(<<>>) = 0 /\ RevokedIn(<<>>) = 0
    BY <1>2 DEF CreatedIn, RevokedIn, DoneIn, Rooms!Newest
<1>4. RoomStands(RoomFile!Absent, <<>>)
    BY <1>2, <1>3 DEF RoomStands, RoomFile!Absent, RoomFile!IsTrail
<1> QED
    BY <1>1, <1>4, RoomFile!SerialInit DEF RoomInv

LEMMA RoomStep == RoomInv /\ [Serve]_<<focus, registry, package, vars>> => RoomInv'
<1> SUFFICES ASSUME RoomInv, [Serve]_<<focus, registry, package, vars>>, focus' = "rooms"
             PROVE  RoomInv'
    BY DEF RoomInv
<1>1. focus = "rooms" /\ (RoomFile!Next \/ UNCHANGED RoomFile!vars)
    <2>1. focus = "rooms" /\ (Rooms!Next \/ UNCHANGED registry)
        BY DEF Serve
    <2>2. CASE UNCHANGED registry
        BY <2>1, <2>2 DEF registry, RoomFile!vars
    <2>3. CASE Rooms!Next
        BY <2>1, <2>3
        DEF Rooms!Next, Rooms!Register!Next, RoomFile!Next,
            Rooms!Register!Call, RoomFile!Call, Rooms!Register!Read, RoomFile!Read,
            Rooms!Register!Answered, RoomFile!Answered,
            Rooms!Register!Truncate, RoomFile!Truncate,
            Rooms!Register!Write, RoomFile!Write, Rooms!Register!Stop, RoomFile!Stop,
            Rooms!Register!Tick, RoomFile!Tick, Rooms!Register!AtRest, RoomFile!AtRest,
            Rooms!Register!Whole, RoomFile!Whole, Rooms!Register!Torn, RoomFile!Torn,
            Rooms!Register!Idle, RoomFile!Idle
    <2> QED
        BY <2>1, <2>2, <2>3
<1>2. RoomFile!Serial'
    BY <1>1, RoomFile!SerialStep, RoomSaves, RoomReads DEF RoomInv
<1> QED
    BY <1>2 DEF RoomInv

LEMMA RoomInvariant == Served => []RoomInv
    BY RoomInit, RoomStep, PTL DEF Served

(***************************************************************************)
(* While calls do not overlap and none is cut off, a revoked room is not   *)
(* active again and lets nobody in, until it is created anew.              *)
(***************************************************************************)
THEOREM RevocationStands == Served => []RevocationHolds
<1>1. RoomInv => RevocationHolds
    <2> SUFFICES ASSUME RoomInv, focus = "rooms", quiet
                 PROVE  Rooms!RevocationHolds
        BY DEF RevocationHolds, Rooms!RevocationHolds
    <2>1. PICK content : RoomStands(content, trail)
        BY RoomFile!SerialIsGood DEF RoomInv
    <2>2. Rooms!Register!AtRest => RoomStands(file, trail)
        BY RoomFile!SerialIsGood DEF RoomInv, Rooms!Register!AtRest, RoomFile!AtRest
    <2>3. Rooms!Created = CreatedIn(trail) /\ Rooms!Revoked = RevokedIn(trail)
        BY DEF Rooms!Created, Rooms!Revoked, Rooms!Done, CreatedIn, RevokedIn, DoneIn
    <2>4. Rooms!Done("validate_access") = DoneIn(trail, "validate_access")
        BY DEF Rooms!Done, DoneIn
    <2> QED
        BY <2>1, <2>2, <2>3, <2>4 DEF Rooms!RevocationHolds, RoomStands
<1> QED
    BY <1>1, RoomInvariant, PTL

-----------------------------------------------------------------------------
(***************************************************************************)
(* The log of a room, however calls overlap: the times in it are of visits *)
(* that were granted.                                                      *)
(***************************************************************************)
GrantsIn(t) == {t[v].at : v \in DoneIn(t, "validate_access")}

LogStands(content, t) ==
    /\ \E S : t \in Seq(S)
    /\ content.kind = "whole" =>
          /\ ARoom(content.value)
          /\ \A k \in DOMAIN content.value.logs : content.value.logs[k] \in GrantsIn(t)

LogFile == INSTANCE JsonRegisterProofs
    WITH Ops <- Rooms!RoomOps, Serve <- Rooms!ServeRoom, Good <- LogStands

(* A call that returns adds its time where it is a visit, and nothing else. *)
LEMMA GrantsGrow ==
    ASSUME NEW t, RoomFile!IsTrail(t), NEW e
    PROVE  /\ GrantsIn(t) \subseteq GrantsIn(Append(t, e))
           /\ e.op.name = "validate_access" /\ e.reply = "ok" => e.at \in GrantsIn(Append(t, e))
           /\ \A g \in GrantsIn(Append(t, e)) :
                 g \in GrantsIn(t) \/ (e.op.name = "validate_access" /\ e.reply = "ok" /\ g = e.at)
<1> DEFINE u == Append(t, e)
           n == Len(t) + 1
<1>1. /\ Len(t) \in Nat /\ n \in Nat /\ u[n] = e
      /\ \A i \in DOMAIN t : u[i] = t[i]
      /\ \A name :
            /\ DoneIn(t, name) \subseteq 1 .. Len(t)
            /\ DoneIn(t, name) \subseteq DOMAIN t
            /\ ~(e.op.name = name /\ e.reply = "ok") => DoneIn(u, name) = DoneIn(t, name)
            /\ e.op.name = name /\ e.reply = "ok" => DoneIn(u, name) = DoneIn(t, name) \cup {n}
    BY DoneGrows, RoomFile!Appended
<1> HIDE DEF u, n
<1>2. /\ GrantsIn(t) \subseteq GrantsIn(u)
      /\ e.op.name = "validate_access" /\ e.reply = "ok" => e.at \in GrantsIn(u)
      /\ \A g \in GrantsIn(u) :
            g \in GrantsIn(t) \/ (e.op.name = "validate_access" /\ e.reply = "ok" /\ g = e.at)
    BY <1>1 DEF GrantsIn
<1> QED
    BY <1>2 DEF u

(* What a save makes of the log. *)
LEMMA LogSaved ==
    ASSUME NEW content, NEW value, NEW e, LogFile!Computed(value, e, content),
           content.kind = "whole" => ARoom(content.value)
    PROVE  /\ e.reply = "ok" /\ ARoom(value)
           /\ \/ value.logs = <<>>
              \/ content.kind = "whole" /\ value.logs = content.value.logs
              \/ /\ content.kind = "whole" /\ e.op.name = "validate_access"
                 /\ value.logs = Append(content.value.logs, e.at)
<1>1. PICK op, id, at :
          /\ op \in Rooms!RoomOps
          /\ RoomFile!AnswerTo(content, op, id, at).saves
          /\ value = RoomFile!AnswerTo(content, op, id, at).value
          /\ e = RoomFile!Entry(content, op, id, at)
    BY DEF LogFile!Computed, LogFile!AnswerTo, RoomFile!AnswerTo, LogFile!Entry, RoomFile!Entry
<1> DEFINE room == content.value
<1>2. /\ e.op = op /\ e.reply = "ok" /\ e.at = at
      /\ \/ op.name = "create_room" /\ value = Rooms!NewRoom(op, [id |-> id, at |-> at])
         \/ /\ op.name = "revoke_room" /\ content.kind = "whole"
            /\ value = [room EXCEPT !.status = "REVOKED"]
         \/ /\ op.name = "validate_access" /\ content.kind = "whole"
            /\ value = [room EXCEPT !.logs = Append(@, at)]
    BY <1>1, RoomAnswers DEF RoomFile!Entry
<1>3. content.kind = "whole" => ARoom(room)
    OBVIOUS
<1> HIDE DEF room
<1>4. CASE op.name = "create_room"
    <2> DEFINE dates == {d \in EvidenceDates : Rooms!Within(d, op.period)}
               hashes == {b \in DOMAIN Blocks : Rooms!Within(Blocks[b], op.period)}
               expires == at + op.days
    <2>1. value = [status |-> "ACTIVE", expires |-> expires, token |-> id,
                   dates |-> dates, hashes |-> hashes, logs |-> <<>>]
        BY <1>2, <1>4 DEF Rooms!NewRoom
    <2> HIDE DEF dates, hashes, expires
    <2>2. <<>> \in Seq({})
        OBVIOUS
    <2> QED
        BY <1>2, <2>1, <2>2 DEF ARoom
<1>5. CASE op.name = "revoke_room"
    BY <1>2, <1>3, <1>5 DEF ARoom, room
<1>6. CASE op.name = "validate_access"
    <2>1. ARoom(room) /\ content.kind = "whole" /\ value = [room EXCEPT !.logs = Append(@, at)]
        BY <1>2, <1>3, <1>6
    <2>2. PICK S : room.logs \in Seq(S)
        BY <2>1 DEF ARoom
    <2>3. room.logs \in Seq(S \cup {at}) /\ Append(room.logs, at) \in Seq(S \cup {at})
        BY <2>2
    <2>4. value = [status |-> room.status, expires |-> room.expires, token |-> room.token,
                   dates |-> room.dates, hashes |-> room.hashes, logs |-> Append(room.logs, at)]
        BY <2>1 DEF ARoom
    <2>5. ARoom(value) /\ value.logs = Append(room.logs, at)
        BY <2>3, <2>4 DEF ARoom
    <2> QED
        BY <1>2, <1>6, <2>1, <2>5 DEF room
<1> QED
    BY <1>2, <1>4, <1>5, <1>6

LEMMA LogSaves == LogFile!SavesKeepGood
<1> SUFFICES ASSUME NEW content, NEW t, NEW value, NEW e,
                    LogStands(content, t), LogFile!Computed(value, e, content)
             PROVE  LogStands(LogFile!Whole(value), Append(t, e))
    BY DEF LogFile!SavesKeepGood
<1> DEFINE u == Append(t, e)
           whole == LogFile!Whole(value)
<1>1. RoomFile!IsTrail(t)
    BY DEF RoomFile!IsTrail, LogStands
<1>2. RoomFile!IsTrail(u) /\ GrantsIn(t) \subseteq GrantsIn(u)
    BY <1>1, RoomFile!Appended, GrantsGrow
<1>3. e.op.name = "validate_access" /\ e.reply = "ok" => e.at \in GrantsIn(u)
    BY <1>1, GrantsGrow
<1>4. whole.kind = "whole" /\ whole.value = value
    BY DEF LogFile!Whole
<1>5. /\ e.reply = "ok" /\ ARoom(value)
      /\ \/ value.logs = <<>>
         \/ content.kind = "whole" /\ value.logs = content.value.logs
         \/ /\ content.kind = "whole" /\ e.op.name = "validate_access"
            /\ value.logs = Append(content.value.logs, e.at)
    BY LogSaved DEF LogStands
<1> SUFFICES LogStands(whole, u)
    BY DEF whole, u
<1> HIDE DEF u, whole
<1>6. \A k \in DOMAIN value.logs : value.logs[k] \in GrantsIn(u)
    <2>1. CASE value.logs = <<>>
        <3>1. DOMAIN <<>> = {}
            OBVIOUS
        <3> QED
            BY <2>1, <3>1
    <2>2. CASE content.kind = "whole" /\ value.logs = content.value.logs
        BY <1>2, <2>2 DEF LogStands
    <2>3. CASE /\ content.kind = "whole" /\ e.op.name = "validate_access"
               /\ value.logs = Append(content.value.logs, e.at)
        <3> DEFINE logs == content.value.logs
        <3>1. /\ \E S : logs \in Seq(S)
              /\ \A k \in DOMAIN logs : logs[k] \in GrantsIn(u)
            BY <1>2, <2>3 DEF LogStands, ARoom
        <3>2. value.logs = Append(logs, e.at)
            BY <2>3
        <3> HIDE DEF logs
        <3>3. PICK S : logs \in Seq(S)
            BY <3>1
        <3>4. \A k \in DOMAIN Append(logs, e.at) :
                  (k \in DOMAIN logs /\ Append(logs, e.at)[k] = logs[k]) \/ Append(logs, e.at)[k] = e.at
            <4>1. logs \in Seq(S \cup {e.at}) /\ e.at \in S \cup {e.at}
                BY <3>3
            <4> QED
                BY <4>1
        <3> QED
            BY <1>3, <1>5, <2>3, <3>1, <3>2, <3>4
    <2> QED
        BY <1>5, <2>1, <2>2, <2>3
<1> QED
    BY <1>2, <1>4, <1>5, <1>6 DEF LogStands, RoomFile!IsTrail

(* Calls that return later leave the grants where they are. *)
LEMMA LogOutlives ==
    ASSUME NEW content, NEW t, NEW u, RoomFile!IsTrail(u), GrantsIn(t) \subseteq GrantsIn(u),
           LogStands(content, t)
    PROVE  LogStands(content, u)
    BY DEF LogStands, RoomFile!IsTrail

LEMMA LogReads == LogFile!ReadsKeepGood
<1> SUFFICES ASSUME NEW content, NEW t, NEW e, LogStands(content, t)
             PROVE  LogStands(content, Append(t, e))
    BY DEF LogFile!ReadsKeepGood
<1>1. RoomFile!IsTrail(t)
    BY DEF RoomFile!IsTrail, LogStands
<1> QED
    BY <1>1, RoomFile!Appended, GrantsGrow, LogOutlives

LEMMA LogSettles == LogFile!SettlesGood
<1> SUFFICES ASSUME NEW content, NEW t, NEW d, NEW e
             PROVE  /\ LogStands(content, t) => LogStands(content, Append(t, d))
                    /\ RoomFile!IsTrail(t) /\ LogStands(content, Append(t, e))
                          => LogStands(content, Append(Append(t, d), e))
    BY DEF LogFile!SettlesGood, LogFile!IsTrail, RoomFile!IsTrail
<1>1. ASSUME LogStands(content, t) PROVE LogStands(content, Append(t, d))
    <2>1. RoomFile!IsTrail(t)
        BY <1>1 DEF RoomFile!IsTrail, LogStands
    <2> QED
        BY <1>1, <2>1, RoomFile!Appended, GrantsGrow, LogOutlives
<1>2. ASSUME RoomFile!IsTrail(t), LogStands(content, Append(t, e))
      PROVE  LogStands(content, Append(Append(t, d), e))
    <2> DEFINE between == Append(t, d)
    <2>1. RoomFile!IsTrail(between) /\ GrantsIn(t) \subseteq GrantsIn(between)
        BY <1>2, RoomFile!Appended, GrantsGrow
    <2> HIDE DEF between
    <2>2. /\ RoomFile!IsTrail(Append(between, e)) /\ GrantsIn(between) \subseteq GrantsIn(Append(between, e))
          /\ e.op.name = "validate_access" /\ e.reply = "ok" => e.at \in GrantsIn(Append(between, e))
        BY <2>1, RoomFile!Appended, GrantsGrow
    <2>3. GrantsIn(Append(t, e)) \subseteq GrantsIn(Append(between, e))
        BY <1>2, <2>1, <2>2, GrantsGrow
    <2>4. LogStands(content, Append(between, e))
        BY <1>2, <2>2, <2>3, LogOutlives
    <2> QED
        BY <2>4 DEF between
<1> QED
    BY <1>1, <1>2

LogInv == focus = "rooms" => LogFile!Serial /\ LogFile!Throughout

LEMMA LogInit == Start => LogInv
<1>1. LogStands(LogFile!Absent, <<>>)
    BY RoomFile!EmptyTrail DEF LogStands, LogFile!Absent, RoomFile!IsTrail
<1>2. Start => LogFile!Init
    BY DEF Start, Vendors!Init, Vendors!Register!Init, LogFile!Init,
           Vendors!Register!Absent, LogFile!Absent, Vendors!Register!Idle, LogFile!Idle
<1> QED
    BY <1>1, <1>2, LogFile!SerialInit, LogFile!ThroughoutInit DEF LogInv

LEMMA LogStep == LogInv /\ [Serve]_<<focus, registry, package, vars>> => LogInv'
<1> SUFFICES ASSUME LogInv, [Serve]_<<focus, registry, package, vars>>, focus' = "rooms"
             PROVE  LogInv'
    BY DEF LogInv
<1>1. focus = "rooms" /\ (LogFile!Next \/ UNCHANGED LogFile!vars)
    <2>1. focus = "rooms" /\ (Rooms!Next \/ UNCHANGED registry)
        BY DEF Serve
    <2>2. CASE UNCHANGED registry
        BY <2>1, <2>2 DEF registry, LogFile!vars
    <2>3. CASE Rooms!Next
        BY <2>1, <2>3
        DEF Rooms!Next, Rooms!Register!Next, LogFile!Next,
            Rooms!Register!Call, LogFile!Call, Rooms!Register!Read, LogFile!Read,
            Rooms!Register!Answered, LogFile!Answered,
            Rooms!Register!Truncate, LogFile!Truncate,
            Rooms!Register!Write, LogFile!Write, Rooms!Register!Stop, LogFile!Stop,
            Rooms!Register!Tick, LogFile!Tick, Rooms!Register!AtRest, LogFile!AtRest,
            Rooms!Register!Whole, LogFile!Whole, Rooms!Register!Torn, LogFile!Torn,
            Rooms!Register!Idle, LogFile!Idle
    <2> QED
        BY <2>1, <2>2, <2>3
<1>2. \A t : LogFile!IsTrail(t) => LogStands(LogFile!Torn, t)
    BY DEF LogFile!IsTrail, LogStands, LogFile!Torn
<1>3. LogFile!Serial'
    BY <1>1, LogFile!SerialStep, LogSaves, LogReads DEF LogInv
<1>4. LogFile!Throughout'
    BY <1>1, <1>2, LogFile!ThroughoutStep, LogSaves, LogReads, LogSettles DEF LogInv
<1> QED
    BY <1>3, <1>4 DEF LogInv

LEMMA LogInvariant == Served => []LogInv
    BY LogInit, LogStep, PTL DEF Served

(***************************************************************************)
(* The log of a room is of granted visits: however calls overlap, it has   *)
(* nothing of a refused attempt; while they do not and none is cut off, it *)
(* has one entry for every visit that was granted since it was created.    *)
(***************************************************************************)
THEOREM GrantsAreLogged == Served => []OnlyGrantsAreLogged
<1>1. RoomInv /\ LogInv => OnlyGrantsAreLogged
    <2> SUFFICES ASSUME RoomInv, LogInv, focus = "rooms"
                 PROVE  Rooms!OnlyGrantsAreLogged
        BY DEF OnlyGrantsAreLogged
    <2>1. \A name : Rooms!Done(name) = DoneIn(trail, name)
        BY DEF Rooms!Done, DoneIn
    <2>2. file.kind = "whole" => \A k \in DOMAIN file.value.logs : file.value.logs[k] \in GrantsIn(trail)
        BY DEF LogInv, LogFile!Throughout, LogStands
    <2>3. file.kind = "whole" =>
              \A k \in DOMAIN file.value.logs :
                  \E v \in Rooms!Done("validate_access") : trail[v].at = file.value.logs[k]
        BY <2>1, <2>2 DEF GrantsIn
    <2>4. ASSUME quiet, Rooms!Register!AtRest PROVE RoomStands(file, trail)
        BY <2>4, RoomFile!SerialIsGood DEF RoomInv, Rooms!Register!AtRest, RoomFile!AtRest
    <2>5. /\ Rooms!Created = CreatedIn(trail)
          /\ {v \in Rooms!Done("validate_access") : v > Rooms!Created} = VisitsIn(trail)
        BY <2>1 DEF Rooms!Created, CreatedIn, VisitsIn
    <2>6. Rooms!Cardinality(VisitsIn(trail)) = Cardinality(VisitsIn(trail))
        BY DEF Rooms!Cardinality, Cardinality
    <2> QED
        BY <2>3, <2>4, <2>5, <2>6 DEF Rooms!OnlyGrantsAreLogged, RoomStands
<1> QED
    BY <1>1, RoomInvariant, LogInvariant, PTL

-----------------------------------------------------------------------------
(***************************************************************************)
(* The review campaign: it shows the last decision on each entitlement     *)
(* since it was created.                                                   *)
(***************************************************************************)
MadeIn(t) == Reviews!Newest(DoneIn(t, "create"))
DecisionsIn(t, i) == {d \in DoneIn(t, "decide") : d > MadeIn(t) /\ t[d].op.item = i}
Shown(t, i) ==
    LET last == Reviews!Newest(DecisionsIn(t, i))
    IN  IF last = 0 THEN Reviews!Unsigned
        ELSE [decision |-> t[last].op.decision, by |-> t[last].op.by]

ACampaign(camp) ==
    /\ camp = [status |-> camp.status, items |-> camp.items, signature |-> camp.signature]
    /\ camp.items = [i \in DOMAIN camp.items |-> camp.items[i]] /\ DOMAIN camp.items \subseteq Items

ReviewStands(content, t) ==
    /\ \E S : t \in Seq(S)
    /\ content.kind = "whole" => ACampaign(content.value)
    /\ MadeIn(t) # 0 =>
          /\ content.kind = "whole"
          /\ \A i \in DOMAIN content.value.items : content.value.items[i] = Shown(t, i)

ReviewFile == INSTANCE JsonRegisterProofs
    WITH Ops <- Reviews!ReviewOps, Serve <- Reviews!ServeReview, Good <- ReviewStands,
         MaxCalls <- ReviewCalls, MaxTime <- ReviewTime

LEMMA ReviewNewest ==
    ASSUME NEW n \in Nat, NEW S, S \subseteq 1 .. n
    PROVE  /\ Reviews!Newest(S) \in 0 .. n /\ (Reviews!Newest(S) # 0 => Reviews!Newest(S) \in S)
           /\ Reviews!Newest(S \cup {n + 1}) = n + 1
<1>1. \A T : Reviews!Newest(T) = Rooms!Newest(T)
    BY DEF Reviews!Newest, Rooms!Newest
<1>2. ASSUME S # {} PROVE Reviews!Newest(S) \in S
    <2>1. \E i \in S : \A j \in S : j <= i
        BY <1>2, RoomFile!HasLast
    <2> QED
        BY <1>2, <2>1 DEF Reviews!Newest
<1>3. S = {} => Reviews!Newest(S) = 0
    BY DEF Reviews!Newest
<1> QED
    BY <1>1, <1>2, <1>3, RoomNewest

(* A decision or a sign-off finds a campaign that was read whole. *)
LEMMA ReviewAnswers ==
    ASSUME NEW content, NEW op \in Reviews!ReviewOps, NEW id, NEW at
    PROVE  LET response == Reviews!ServeReview(content, op, [id |-> id, at |-> at])
               camp   == content.value
           IN  /\ ~response.saves => response.reply # "ok"
               /\ response.saves =>
                     /\ response.reply = "ok"
                     /\ \/ /\ op.name = "create" /\ op.items \subseteq Items
                           /\ response.value = Reviews!Campaign(op.items)
                        \/ /\ op.name = "decide" /\ content.kind = "whole"
                           /\ op.item \in DOMAIN camp.items
                           /\ response.value = Reviews!Decided(camp, op.item, op.decision, op.by)
                        \/ /\ op.name = "signoff" /\ content.kind = "whole"
                           /\ Reviews!IsComplete(camp)
                           /\ response.value = Reviews!Signed(camp, op.by, at)
    BY DEF Reviews!ServeReview, Reviews!ReviewOps, Reviews!Save, Reviews!Refuse

(* What a call that returns adds to what was done and decided. *)
LEMMA DecisionsGrow ==
    ASSUME NEW t, RoomFile!IsTrail(t), NEW e
    PROVE  LET u == Append(t, e)
               n == Len(t) + 1
           IN  /\ e.reply # "ok" \/ e.op.name = "signoff" =>
                     MadeIn(u) = MadeIn(t) /\ \A i : Shown(u, i) = Shown(t, i)
               /\ e.reply = "ok" /\ e.op.name = "create" =>
                     MadeIn(u) = n /\ \A i : Shown(u, i) = Reviews!Unsigned
               /\ e.reply = "ok" /\ e.op.name = "decide" =>
                     /\ MadeIn(u) = MadeIn(t)
                     /\ \A i : i # e.op.item => Shown(u, i) = Shown(t, i)
                     /\ Shown(u, e.op.item) = [decision |-> e.op.decision, by |-> e.op.by]
<1> DEFINE u == Append(t, e)
           n == Len(t) + 1
<1>1. /\ Len(t) \in Nat /\ n \in Nat /\ u[n] = e
      /\ \A i \in DOMAIN t : u[i] = t[i]
      /\ \A name :
            /\ DoneIn(t, name) \subseteq 1 .. Len(t)
            /\ DoneIn(t, name) \subseteq DOMAIN t
            /\ ~(e.op.name = name /\ e.reply = "ok") => DoneIn(u, name) = DoneIn(t, name)
            /\ e.op.name = name /\ e.reply = "ok" => DoneIn(u, name) = DoneIn(t, name) \cup {n}
    BY DoneGrows, RoomFile!Appended
<1> HIDE DEF u
<1>2. MadeIn(t) \in 0 .. Len(t) /\ (e.reply = "ok" /\ e.op.name = "create" => MadeIn(u) = n)
    BY <1>1, ReviewNewest DEF MadeIn
<1>3. ~(e.op.name = "create" /\ e.reply = "ok") => MadeIn(u) = MadeIn(t)
    BY <1>1 DEF MadeIn
<1>4. ASSUME NEW i, DecisionsIn(u, i) = DecisionsIn(t, i) PROVE Shown(u, i) = Shown(t, i)
    <2>1. DecisionsIn(t, i) \subseteq 1 .. Len(t) /\ DecisionsIn(t, i) \subseteq DOMAIN t
        BY <1>1 DEF DecisionsIn
    <2>2. Reviews!Newest(DecisionsIn(t, i)) # 0 => Reviews!Newest(DecisionsIn(t, i)) \in DOMAIN t
        BY <1>1, <2>1, ReviewNewest
    <2> QED
        BY <1>1, <1>4, <2>2 DEF Shown
<1>5. ASSUME e.reply # "ok" \/ e.op.name = "signoff", NEW i PROVE Shown(u, i) = Shown(t, i)
    <2>1. DecisionsIn(u, i) = DecisionsIn(t, i)
        BY <1>1, <1>3, <1>5 DEF DecisionsIn
    <2> QED
        BY <1>4, <2>1
<1>6. ASSUME e.reply = "ok", e.op.name = "create", NEW i PROVE Shown(u, i) = Reviews!Unsigned
    <2>1. DecisionsIn(u, i) = {}
        BY <1>1, <1>2, <1>6 DEF DecisionsIn
    <2> QED
        BY <2>1 DEF Shown, Reviews!Newest
<1>7. ASSUME e.reply = "ok", e.op.name = "decide"
      PROVE  /\ \A i : i # e.op.item => Shown(u, i) = Shown(t, i)
             /\ Shown(u, e.op.item) = [decision |-> e.op.decision, by |-> e.op.by]
    <2>1. DoneIn(u, "decide") = DoneIn(t, "decide") \cup {n} /\ MadeIn(u) = MadeIn(t) /\ n > MadeIn(t)
        BY <1>1, <1>2, <1>3, <1>7
    <2>2. ASSUME NEW i, i # e.op.item PROVE Shown(u, i) = Shown(t, i)
        <3>1. DecisionsIn(u, i) = DecisionsIn(t, i)
            BY <1>1, <2>1, <2>2 DEF DecisionsIn
        <3> QED
            BY <1>4, <3>1
    <2>3. Shown(u, e.op.item) = [decision |-> e.op.decision, by |-> e.op.by]
        <3>1. /\ DecisionsIn(u, e.op.item) = DecisionsIn(t, e.op.item) \cup {n}
              /\ DecisionsIn(t, e.op.item) \subseteq 1 .. Len(t)
            BY <1>1, <2>1 DEF DecisionsIn
        <3>2. Reviews!Newest(DecisionsIn(t, e.op.item) \cup {n}) = n
            BY <1>1, <3>1, ReviewNewest
        <3>3. Reviews!Newest(DecisionsIn(u, e.op.item)) = n /\ n # 0
            BY <1>1, <3>1, <3>2
        <3> QED
            BY <1>1, <3>3 DEF Shown
    <2> QED
        BY <2>2, <2>3
<1> QED
    BY <1>2, <1>3, <1>5, <1>6, <1>7 DEF u

LEMMA ReviewReads == ReviewFile!ReadsKeepGood
<1> SUFFICES ASSUME NEW content, NEW read, NEW t, NEW id, NEW at, NEW op \in Reviews!ReviewOps,
                    ReviewStands(content, t), ~ReviewFile!AnswerTo(read, op, id, at).saves
             PROVE  ReviewStands(content, Append(t, ReviewFile!Entry(read, op, id, at)))
    BY DEF ReviewFile!ReadsKeepGood
<1> DEFINE e == ReviewFile!Entry(read, op, id, at)
           u == Append(t, e)
<1>1. e.reply # "ok"
    BY ReviewAnswers DEF ReviewFile!Entry, ReviewFile!AnswerTo
<1> HIDE DEF e
<1>2. RoomFile!IsTrail(t)
    BY DEF RoomFile!IsTrail, ReviewStands
<1>3. RoomFile!IsTrail(u)
    BY <1>2, RoomFile!Appended
<1>4. MadeIn(u) = MadeIn(t) /\ \A i : Shown(u, i) = Shown(t, i)
    BY <1>1, <1>2, DecisionsGrow
<1> HIDE DEF u
<1>5. ReviewStands(content, u)
    BY <1>3, <1>4 DEF ReviewStands, RoomFile!IsTrail
<1> QED
    BY <1>5 DEF u, e

(* What a save makes of a campaign. *)
LEMMA CampaignSaved ==
    ASSUME NEW content, NEW value, NEW e, ReviewFile!Computed(value, e, content),
           content.kind = "whole" => ACampaign(content.value)
    PROVE  LET camp == content.value
               op   == e.op
           IN  /\ e.reply = "ok" /\ ACampaign(value)
               /\ \/ /\ op.name = "create" /\ value.signature = Reviews!None
                     /\ \A i \in DOMAIN value.items : value.items[i] = Reviews!Unsigned
                  \/ /\ op.name = "decide" /\ content.kind = "whole"
                     /\ value.signature = camp.signature
                     /\ DOMAIN value.items = DOMAIN camp.items /\ op.item \in DOMAIN camp.items
                     /\ value.items[op.item] = [decision |-> op.decision, by |-> op.by]
                     /\ \A i \in DOMAIN camp.items : i # op.item => value.items[i] = camp.items[i]
                  \/ /\ op.name = "signoff" /\ content.kind = "whole" /\ Reviews!IsComplete(camp)
                     /\ value.items = camp.items /\ value.signature.items = camp.items
<1>1. PICK op, id, at :
          /\ op \in Reviews!ReviewOps
          /\ ReviewFile!AnswerTo(content, op, id, at).saves
          /\ value = ReviewFile!AnswerTo(content, op, id, at).value
          /\ e = ReviewFile!Entry(content, op, id, at)
    BY DEF ReviewFile!Computed
<1> DEFINE camp == content.value
<1>2. /\ e.op = op /\ e.reply = "ok"
      /\ \/ /\ op.name = "create" /\ op.items \subseteq Items
            /\ value = Reviews!Campaign(op.items)
         \/ /\ op.name = "decide" /\ content.kind = "whole" /\ op.item \in DOMAIN camp.items
            /\ value = Reviews!Decided(camp, op.item, op.decision, op.by)
         \/ /\ op.name = "signoff" /\ content.kind = "whole" /\ Reviews!IsComplete(camp)
            /\ value = Reviews!Signed(camp, op.by, at)
    BY <1>1, ReviewAnswers DEF ReviewFile!Entry, ReviewFile!AnswerTo
<1>3. content.kind = "whole" => ACampaign(camp)
    OBVIOUS
<1> HIDE DEF camp
<1>4. CASE op.name = "create"
    <2> DEFINE items == [i \in op.items |-> Reviews!Unsigned]
    <2>1. value = [status |-> "ACTIVE", items |-> items, signature |-> Reviews!None]
        BY <1>2, <1>4 DEF Reviews!Campaign
    <2>2. /\ items = [i \in DOMAIN items |-> items[i]] /\ DOMAIN items \subseteq Items
          /\ \A i \in DOMAIN items : items[i] = Reviews!Unsigned
        BY <1>2, <1>4
    <2> HIDE DEF items
    <2> QED
        BY <1>2, <1>4, <2>1, <2>2 DEF ACampaign
<1>5. CASE op.name = "decide"
    <2> DEFINE said == [decision |-> op.decision, by |-> op.by]
               items == [camp.items EXCEPT ![op.item] = said]
    <2>1. ACampaign(camp) /\ op.item \in DOMAIN camp.items /\ content.kind = "whole"
        BY <1>2, <1>3, <1>5
    <2>2. value = [camp EXCEPT !.items = items]
        BY <1>2, <1>5 DEF Reviews!Decided
    <2>3. /\ items = [i \in DOMAIN items |-> items[i]] /\ DOMAIN items = DOMAIN camp.items
          /\ items[op.item] = said
          /\ \A i \in DOMAIN camp.items : i # op.item => items[i] = camp.items[i]
        BY <2>1 DEF ACampaign
    <2> HIDE DEF items, said
    <2>4. /\ value = [status |-> camp.status, items |-> items, signature |-> camp.signature]
        BY <2>1, <2>2 DEF ACampaign
    <2>5. ACampaign(value)
        BY <2>1, <2>3, <2>4 DEF ACampaign
    <2> QED
        BY <1>2, <1>5, <2>1, <2>3, <2>4, <2>5 DEF camp, said
<1>6. CASE op.name = "signoff"
    <2> DEFINE signature == Reviews!Payload(camp, op.by, at)
    <2>1. ACampaign(camp) /\ Reviews!IsComplete(camp) /\ content.kind = "whole"
        BY <1>2, <1>3, <1>6
    <2>2. value = [camp EXCEPT !.status = "COMPLETED", !.signature = signature]
        BY <1>2, <1>6 DEF Reviews!Signed
    <2>3. signature.items = camp.items
        BY DEF Reviews!Payload
    <2> HIDE DEF signature
    <2>4. value = [status |-> "COMPLETED", items |-> camp.items, signature |-> signature]
        BY <2>1, <2>2 DEF ACampaign
    <2>5. ACampaign(value)
        BY <2>1, <2>4 DEF ACampaign
    <2> QED
        BY <1>2, <1>6, <2>1, <2>3, <2>4, <2>5 DEF camp
<1> QED
    BY <1>2, <1>4, <1>5, <1>6

LEMMA ReviewSaves == ReviewFile!SavesKeepGood
<1> SUFFICES ASSUME NEW content, NEW t, NEW value, NEW e,
                    ReviewStands(content, t), ReviewFile!Computed(value, e, content)
             PROVE  ReviewStands(ReviewFile!Whole(value), Append(t, e))
    BY DEF ReviewFile!SavesKeepGood
<1> DEFINE camp == content.value
           op == e.op
           u == Append(t, e)
           n == Len(t) + 1
           whole == ReviewFile!Whole(value)
<1>1. RoomFile!IsTrail(t)
    BY DEF RoomFile!IsTrail, ReviewStands
<1>2. Len(t) \in Nat /\ RoomFile!IsTrail(u)
    BY <1>1, RoomFile!Appended
<1>3. /\ e.reply = "ok" /\ ACampaign(value)
      /\ \/ /\ op.name = "create"
            /\ \A i \in DOMAIN value.items : value.items[i] = Reviews!Unsigned
         \/ /\ op.name = "decide"
            /\ DOMAIN value.items = DOMAIN camp.items /\ op.item \in DOMAIN camp.items
            /\ value.items[op.item] = [decision |-> op.decision, by |-> op.by]
            /\ \A i \in DOMAIN camp.items : i # op.item => value.items[i] = camp.items[i]
         \/ op.name = "signoff" /\ value.items = camp.items
    BY CampaignSaved DEF ReviewStands
<1>4. /\ op.name = "signoff" => MadeIn(u) = MadeIn(t) /\ \A i : Shown(u, i) = Shown(t, i)
      /\ op.name = "create" => MadeIn(u) = n /\ \A i : Shown(u, i) = Reviews!Unsigned
      /\ op.name = "decide" =>
            /\ MadeIn(u) = MadeIn(t)
            /\ \A i : i # op.item => Shown(u, i) = Shown(t, i)
            /\ Shown(u, op.item) = [decision |-> op.decision, by |-> op.by]
    BY <1>1, <1>3, DecisionsGrow
<1>5. whole.kind = "whole" /\ whole.value = value
    BY DEF ReviewFile!Whole
<1>6. MadeIn(t) # 0 => \A i \in DOMAIN camp.items : camp.items[i] = Shown(t, i)
    BY DEF ReviewStands
<1> SUFFICES ReviewStands(whole, u)
    BY DEF whole, u
<1> HIDE DEF camp, op, u, n, whole
<1>7. MadeIn(u) # 0 => \A i \in DOMAIN value.items : value.items[i] = Shown(u, i)
    BY <1>3, <1>4, <1>6
<1> QED
    BY <1>2, <1>3, <1>5, <1>7 DEF ReviewStands, RoomFile!IsTrail

ReviewInv == focus = "reviews" => ReviewFile!Serial

(* What Reviews does is what a register does. *)
LEMMA ReviewStarts == Start => ReviewFile!Init /\ file = ReviewFile!Absent /\ trail = <<>>
    BY DEF Start, Vendors!Init, Vendors!Register!Init, ReviewFile!Init,
           Vendors!Register!Absent, ReviewFile!Absent, Vendors!Register!Idle, ReviewFile!Idle

LEMMA ReviewMoves ==
    ASSUME focus' = "reviews", [Serve]_<<focus, registry, package, vars>>
    PROVE  focus = "reviews" /\ (ReviewFile!Next \/ UNCHANGED ReviewFile!vars)
<1>1. focus = "reviews" /\ (Reviews!Next \/ UNCHANGED registry)
    BY DEF Serve
<1>2. CASE UNCHANGED registry
    BY <1>1, <1>2 DEF registry, ReviewFile!vars
<1>3. CASE Reviews!Next
    BY <1>1, <1>3
    DEF Reviews!Next, Reviews!Register!Next, ReviewFile!Next,
        Reviews!Register!Call, ReviewFile!Call, Reviews!Register!Read, ReviewFile!Read,
        Reviews!Register!Answered, ReviewFile!Answered,
        Reviews!Register!Truncate, ReviewFile!Truncate,
        Reviews!Register!Write, ReviewFile!Write, Reviews!Register!Stop, ReviewFile!Stop,
        Reviews!Register!Tick, ReviewFile!Tick, Reviews!Register!AtRest, ReviewFile!AtRest,
        Reviews!Register!Whole, ReviewFile!Whole, Reviews!Register!Torn, ReviewFile!Torn,
        Reviews!Register!Idle, ReviewFile!Idle
<1> QED
    BY <1>1, <1>2, <1>3

LEMMA ReviewInit == Start => ReviewInv
<1>1. DOMAIN <<>> = {} /\ RoomFile!IsTrail(<<>>)
    BY RoomFile!EmptyTrail
<1>2. MadeIn(<<>>) = 0
    BY <1>1 DEF MadeIn, DoneIn, Reviews!Newest
<1>3. ReviewStands(ReviewFile!Absent, <<>>)
    BY <1>1, <1>2 DEF ReviewStands, ReviewFile!Absent, RoomFile!IsTrail
<1> QED
    BY <1>3, ReviewStarts, ReviewFile!SerialInit DEF ReviewInv

LEMMA ReviewStep == ReviewInv /\ [Serve]_<<focus, registry, package, vars>> => ReviewInv'
<1> SUFFICES ASSUME ReviewInv, [Serve]_<<focus, registry, package, vars>>, focus' = "reviews"
             PROVE  ReviewInv'
    BY DEF ReviewInv
<1>1. ReviewFile!Serial'
    BY ReviewMoves, ReviewFile!SerialStep, ReviewSaves, ReviewReads DEF ReviewInv
<1> QED
    BY <1>1 DEF ReviewInv

LEMMA ReviewInvariant == Served => []ReviewInv
    BY ReviewInit, ReviewStep, PTL DEF Served

(***************************************************************************)
(* While calls do not overlap and none is cut off, the campaign shows, for *)
(* each entitlement, the last acknowledged decision since it was created.  *)
(***************************************************************************)
THEOREM ReviewsStand == Served => []DecisionsStand
<1>1. ReviewInv => DecisionsStand
    <2> SUFFICES ASSUME ReviewInv, focus = "reviews", quiet, Reviews!Register!AtRest
                 PROVE  Reviews!DecisionsStand
        BY DEF DecisionsStand, Reviews!DecisionsStand
    <2>1. ReviewStands(file, trail)
        BY ReviewFile!SerialIsGood DEF ReviewInv, Reviews!Register!AtRest, ReviewFile!AtRest
    <2>2. /\ Reviews!Created = MadeIn(trail)
          /\ \A i : {d \in Reviews!Done("decide") : d > Reviews!Created /\ trail[d].op.item = i}
                        = DecisionsIn(trail, i)
        BY DEF Reviews!Created, Reviews!Done, MadeIn, DoneIn, DecisionsIn
    <2> QED
        BY <2>1, <2>2 DEF Reviews!DecisionsStand, ReviewStands, Shown
<1> QED
    BY <1>1, ReviewInvariant, PTL

-----------------------------------------------------------------------------
(***************************************************************************)
(* The signature of a campaign, however calls overlap: what is signed was  *)
(* decided, all of it, and differs from what is shown only after a later   *)
(* decision.                                                               *)
(***************************************************************************)
Covered(camp) ==
    LET signed == camp.signature.items
    IN  /\ DOMAIN signed = DOMAIN camp.items /\ DOMAIN signed # {}
        /\ \A i \in DOMAIN signed : signed[i].decision # "PENDING"

(* One of the decisions shown was acknowledged after a sign-off. *)
Outdated(camp, t) ==
    \E d \in DoneIn(t, "decide"), s \in DoneIn(t, "signoff") :
        /\ s < d
        /\ camp.items[t[d].op.item] = [decision |-> t[d].op.decision, by |-> t[d].op.by]

SignedStands(content, t) ==
    /\ \E S : t \in Seq(S)
    /\ content.kind = "whole" =>
          /\ ACampaign(content.value)
          /\ content.value.signature # Reviews!None =>
                /\ Covered(content.value) /\ DoneIn(t, "signoff") # {}
                /\ content.value.signature.items # content.value.items
                       => Outdated(content.value, t)

SignedFile == INSTANCE JsonRegisterProofs
    WITH Ops <- Reviews!ReviewOps, Serve <- Reviews!ServeReview, Good <- SignedStands,
         MaxCalls <- ReviewCalls, MaxTime <- ReviewTime

(* In a complete campaign nothing is pending. *)
LEMMA CompleteIsDecided ==
    ASSUME NEW camp, ACampaign(camp), Reviews!IsComplete(camp)
    PROVE  /\ DOMAIN camp.items # {}
           /\ \A i \in DOMAIN camp.items : camp.items[i].decision # "PENDING"
<1> DEFINE P == {i \in DOMAIN camp.items : camp.items[i].decision = "PENDING"}
<1>1. IsFiniteSet(P)
    <2>1. P \subseteq Items
        BY DEF ACampaign
    <2> QED
        BY <2>1, FS_Subset, RegistriesAssumption
<1>2. DOMAIN camp.items # {} /\ Cardinality(P) = 0
    <2>1. Reviews!Cardinality(P) = Cardinality(P)
        BY DEF Reviews!Cardinality, Cardinality
    <2> QED
        BY <2>1 DEF Reviews!IsComplete, Reviews!PendingCount
<1> HIDE DEF P
<1>3. P = {}
    BY <1>1, <1>2, FS_EmptySet
<1> QED
    BY <1>2, <1>3 DEF P

LEMMA SignedSaves == SignedFile!SavesKeepGood
<1> SUFFICES ASSUME NEW content, NEW t, NEW value, NEW e,
                    SignedStands(content, t), SignedFile!Computed(value, e, content)
             PROVE  SignedStands(SignedFile!Whole(value), Append(t, e))
    BY DEF SignedFile!SavesKeepGood
<1> DEFINE camp == content.value
           op == e.op
           u == Append(t, e)
           n == Len(t) + 1
           whole == SignedFile!Whole(value)
<1>1. RoomFile!IsTrail(t)
    BY DEF RoomFile!IsTrail, SignedStands
<1>2. ReviewFile!Computed(value, e, content)
    BY DEF ReviewFile!Computed, SignedFile!Computed, ReviewFile!AnswerTo, SignedFile!AnswerTo,
           ReviewFile!Entry, SignedFile!Entry
<1>3. /\ e.reply = "ok" /\ ACampaign(value)
      /\ \/ op.name = "create" /\ value.signature = Reviews!None
         \/ /\ op.name = "decide" /\ content.kind = "whole"
            /\ value.signature = camp.signature
            /\ DOMAIN value.items = DOMAIN camp.items
            /\ value.items[op.item] = [decision |-> op.decision, by |-> op.by]
         \/ /\ op.name = "signoff" /\ content.kind = "whole" /\ Reviews!IsComplete(camp)
            /\ value.items = camp.items /\ value.signature.items = camp.items
    BY <1>2, CampaignSaved DEF SignedStands
<1>4. /\ Len(t) \in Nat /\ n \in Nat /\ u[n] = e
      /\ \A name :
            /\ DoneIn(t, name) \subseteq 1 .. Len(t)
            /\ ~(e.op.name = name /\ e.reply = "ok") => DoneIn(u, name) = DoneIn(t, name)
            /\ e.op.name = name /\ e.reply = "ok" => DoneIn(u, name) = DoneIn(t, name) \cup {n}
    <2>1. /\ Len(t) \in Nat /\ n \in Nat /\ u[n] = e /\ DOMAIN t = 1 .. Len(t)
          /\ DOMAIN u = DOMAIN t \cup {n} /\ n \notin DOMAIN t
          /\ \A i \in DOMAIN t : u[i] = t[i]
        BY <1>1, RoomFile!Appended
    <2> HIDE DEF u, n
    <2>2. ASSUME NEW name
          PROVE  /\ DoneIn(t, name) \subseteq 1 .. Len(t)
                 /\ ~(e.op.name = name /\ e.reply = "ok") => DoneIn(u, name) = DoneIn(t, name)
                 /\ e.op.name = name /\ e.reply = "ok"
                       => DoneIn(u, name) = DoneIn(t, name) \cup {n}
        BY <2>1 DEF DoneIn
    <2> QED
        BY <2>1, <2>2
<1>5. RoomFile!IsTrail(u)
    BY <1>1, RoomFile!Appended
<1>6. whole.kind = "whole" /\ whole.value = value
    BY DEF SignedFile!Whole
<1>7. content.kind = "whole" =>
          /\ ACampaign(camp)
          /\ camp.signature # Reviews!None => Covered(camp) /\ DoneIn(t, "signoff") # {}
    BY DEF SignedStands
<1> SUFFICES SignedStands(whole, u)
    BY DEF whole, u
<1> HIDE DEF camp, op, u, n, whole
<1>8. ASSUME value.signature # Reviews!None
      PROVE  /\ Covered(value) /\ DoneIn(u, "signoff") # {}
             /\ value.signature.items # value.items => Outdated(value, u)
    <2>1. CASE op.name = "decide"
        <3>1. /\ value.signature = camp.signature /\ DOMAIN value.items = DOMAIN camp.items
              /\ value.items[op.item] = [decision |-> op.decision, by |-> op.by]
              /\ Covered(camp) /\ DoneIn(t, "signoff") # {}
            BY <1>3, <1>7, <1>8, <2>1
        <3>2. PICK s \in DoneIn(t, "signoff") : TRUE
            BY <3>1
        <3>3. s \in DoneIn(u, "signoff") /\ n \in DoneIn(u, "decide") /\ s < n
            BY <1>3, <1>4, <2>1 DEF op, n
        <3>4. Outdated(value, u)
            BY <1>4, <3>1, <3>3 DEF Outdated, op
        <3> QED
            BY <3>1, <3>3, <3>4 DEF Covered
    <2>2. CASE op.name = "signoff"
        <3>1. /\ value.items = camp.items /\ value.signature.items = camp.items
              /\ ACampaign(camp) /\ Reviews!IsComplete(camp)
            BY <1>3, <1>7, <2>2
        <3>2. Covered(value)
            BY <3>1, CompleteIsDecided DEF Covered
        <3>3. n \in DoneIn(u, "signoff")
            BY <1>3, <1>4, <2>2 DEF op
        <3> QED
            BY <3>1, <3>2, <3>3
    <2> QED
        BY <1>3, <1>8, <2>1, <2>2
<1> QED
    BY <1>3, <1>5, <1>6, <1>8 DEF SignedStands, RoomFile!IsTrail

(* Calls that return later leave what was done where it is. *)
LEMMA SignedOutlives ==
    ASSUME NEW content, NEW t, NEW d, SignedStands(content, t)
    PROVE  SignedStands(content, Append(t, d))
<1> DEFINE u == Append(t, d)
<1>1. RoomFile!IsTrail(t)
    BY DEF RoomFile!IsTrail, SignedStands
<1>2. /\ \A i \in DOMAIN t : i \in DOMAIN u /\ u[i] = t[i]
      /\ \A name : DoneIn(t, name) \subseteq DoneIn(u, name) /\ DoneIn(t, name) \subseteq DOMAIN t
    <2>1. \A i \in DOMAIN t : i \in DOMAIN u /\ u[i] = t[i]
        BY <1>1, RoomFile!Appended
    <2> HIDE DEF u
    <2> QED
        BY <2>1 DEF DoneIn
<1>3. RoomFile!IsTrail(u)
    BY <1>1, RoomFile!Appended
<1> HIDE DEF u
<1>4. \A camp : Outdated(camp, t) => Outdated(camp, u)
    BY <1>2 DEF Outdated
<1>5. SignedStands(content, u)
    BY <1>2, <1>3, <1>4 DEF SignedStands, RoomFile!IsTrail
<1> QED
    BY <1>5 DEF u

LEMMA SignedReads == SignedFile!ReadsKeepGood
    BY SignedOutlives DEF SignedFile!ReadsKeepGood

(* And a call that returns later than others is done after them. *)
LEMMA SignedWaits ==
    ASSUME NEW content, NEW t, NEW d, NEW e, RoomFile!IsTrail(t),
           SignedStands(content, Append(t, e))
    PROVE  SignedStands(content, Append(Append(t, d), e))
<1> DEFINE before == Append(t, e)
           between == Append(t, d)
           after == Append(between, e)
           n == Len(t) + 1
<1>1. /\ Len(t) \in Nat /\ RoomFile!IsTrail(between) /\ Len(between) = n
      /\ RoomFile!IsTrail(after) /\ RoomFile!IsTrail(before)
    BY RoomFile!Appended
<1>2. /\ DOMAIN before = DOMAIN t \cup {n} /\ before[n] = e /\ DOMAIN t = 1 .. Len(t)
      /\ \A i \in DOMAIN t : before[i] = t[i]
    BY RoomFile!Appended
<1>3. DOMAIN between = DOMAIN t \cup {n} /\ \A i \in DOMAIN t : between[i] = t[i]
    BY RoomFile!Appended
<1> HIDE DEF between
<1>4. /\ DOMAIN after = DOMAIN between \cup {n + 1} /\ after[n + 1] = e
      /\ \A i \in DOMAIN between : after[i] = between[i]
    BY <1>1, RoomFile!Appended
<1> HIDE DEF before, after
<1> DEFINE moved(i) == IF i = n THEN n + 1 ELSE i
<1>5. ASSUME NEW name, NEW i \in DoneIn(before, name)
      PROVE  /\ moved(i) \in DoneIn(after, name) /\ after[moved(i)] = before[i]
             /\ i \in Nat /\ i <= n
    <2>1. i \in DOMAIN t \/ i = n
        BY <1>2 DEF DoneIn
    <2> QED
        BY <1>1, <1>2, <1>3, <1>4, <2>1 DEF DoneIn
<1>6. ASSUME NEW camp, Outdated(camp, before) PROVE Outdated(camp, after)
    <2>1. PICK k \in DoneIn(before, "decide"), s \in DoneIn(before, "signoff") :
              /\ s < k
              /\ camp.items[before[k].op.item]
                    = [decision |-> before[k].op.decision, by |-> before[k].op.by]
        BY <1>6 DEF Outdated
    <2>2. moved(s) < moved(k)
        BY <1>1, <1>5, <2>1
    <2>3. /\ moved(k) \in DoneIn(after, "decide") /\ after[moved(k)] = before[k]
          /\ moved(s) \in DoneIn(after, "signoff")
        BY <1>5
    <2> HIDE DEF moved
    <2> QED
        BY <2>1, <2>2, <2>3 DEF Outdated
<1>7. DoneIn(before, "signoff") # {} => DoneIn(after, "signoff") # {}
    BY <1>5
<1>8. SignedStands(content, after)
    BY <1>1, <1>6, <1>7 DEF SignedStands, RoomFile!IsTrail, before
<1> QED
    BY <1>8 DEF after, between

LEMMA SignedSettles == SignedFile!SettlesGood
<1>1. \A t : SignedFile!IsTrail(t) => RoomFile!IsTrail(t)
    BY DEF SignedFile!IsTrail, RoomFile!IsTrail
<1> QED
    BY <1>1, SignedOutlives, SignedWaits DEF SignedFile!SettlesGood

SignedInv == focus = "reviews" => SignedFile!Serial /\ SignedFile!Throughout

LEMMA SignedInit == Start => SignedInv
<1>1. RoomFile!IsTrail(<<>>)
    BY RoomFile!EmptyTrail
<1>2. SignedStands(SignedFile!Absent, <<>>)
    BY <1>1 DEF SignedStands, SignedFile!Absent, RoomFile!IsTrail
<1>3. Start => SignedFile!Init
    BY DEF Start, Vendors!Init, Vendors!Register!Init, SignedFile!Init,
           Vendors!Register!Absent, SignedFile!Absent, Vendors!Register!Idle, SignedFile!Idle
<1> QED
    BY <1>2, <1>3, SignedFile!SerialInit, SignedFile!ThroughoutInit DEF SignedInv

LEMMA SignedStep == SignedInv /\ [Serve]_<<focus, registry, package, vars>> => SignedInv'
<1> SUFFICES ASSUME SignedInv, [Serve]_<<focus, registry, package, vars>>, focus' = "reviews"
             PROVE  SignedInv'
    BY DEF SignedInv
<1>1. focus = "reviews" /\ (SignedFile!Next \/ UNCHANGED SignedFile!vars)
    <2>1. focus = "reviews" /\ (Reviews!Next \/ UNCHANGED registry)
        BY DEF Serve
    <2>2. CASE UNCHANGED registry
        BY <2>1, <2>2 DEF registry, SignedFile!vars
    <2>3. CASE Reviews!Next
        BY <2>1, <2>3
        DEF Reviews!Next, Reviews!Register!Next, SignedFile!Next,
            Reviews!Register!Call, SignedFile!Call, Reviews!Register!Read, SignedFile!Read,
            Reviews!Register!Answered, SignedFile!Answered,
            Reviews!Register!Truncate, SignedFile!Truncate,
            Reviews!Register!Write, SignedFile!Write, Reviews!Register!Stop, SignedFile!Stop,
            Reviews!Register!Tick, SignedFile!Tick, Reviews!Register!AtRest, SignedFile!AtRest,
            Reviews!Register!Whole, SignedFile!Whole, Reviews!Register!Torn, SignedFile!Torn,
            Reviews!Register!Idle, SignedFile!Idle
    <2> QED
        BY <2>1, <2>2, <2>3
<1>2. \A t : SignedFile!IsTrail(t) => SignedStands(SignedFile!Torn, t)
    BY DEF SignedFile!IsTrail, SignedStands, SignedFile!Torn
<1>3. SignedFile!Serial'
    BY <1>1, SignedFile!SerialStep, SignedSaves, SignedReads DEF SignedInv
<1>4. SignedFile!Throughout'
    BY <1>1, <1>2, SignedFile!ThroughoutStep, SignedSaves, SignedReads, SignedSettles
    DEF SignedInv
<1> QED
    BY <1>3, <1>4 DEF SignedInv

LEMMA SignedInvariant == Served => []SignedInv
    BY SignedInit, SignedStep, PTL DEF Served

(***************************************************************************)
(* However the requests overlap, a signature covers every entitlement of   *)
(* the campaign, each decided, and what it no longer describes was decided *)
(* after a sign-off.                                                       *)
(***************************************************************************)
THEOREM SignaturesAreEarned == Served => []NothingSignedUnreviewed
<1>1. SignedInv => NothingSignedUnreviewed
    <2> SUFFICES ASSUME SignedInv, focus = "reviews"
                 PROVE  Reviews!NothingSignedUnreviewed
        BY DEF NothingSignedUnreviewed
    <2>1. SignedStands(file, trail)
        BY DEF SignedInv, SignedFile!Throughout
    <2>2. \A name : Reviews!Done(name) = DoneIn(trail, name)
        BY DEF Reviews!Done, DoneIn
    <2> QED
        BY <2>1, <2>2 DEF Reviews!NothingSignedUnreviewed, SignedStands, Covered, Outdated
<1> QED
    BY <1>1, SignedInvariant, PTL

-----------------------------------------------------------------------------
(***************************************************************************)
(* The export of a room.  Reached is what a table has of a control when    *)
(* the places in left are still to be looked at or hashed; Walk is the     *)
(* crosswalk that the evidence determines.                                 *)
(***************************************************************************)
Reached(c, left, evidence) ==
    {<<p, evidence[p].version>> :
        p \in {q \in Dates \X Controls[c] : <<c, q>> \notin left /\ Package!Usable(evidence[q])}}

Walk(evidence) ==
    [c \in DOMAIN Controls |->
        [status |-> Package!EvidenceStatus(Controls[c], {a[1][2] : a \in Reached(c, {}, evidence)}),
         artifacts |-> Reached(c, {}, evidence)]]

SelectedIn(crosswalks) ==
    UNION {{a[1] : a \in crosswalks[1][c].artifacts} : c \in DOMAIN Controls}

Building == {"matrix", "csv", "summary"}

PackShape ==
    /\ \E S : tables \in Seq(S)
    /\ stage \in {"idle", "pack", "done"} \cup Building
    /\ todo \subseteq Package!Everything /\ verified \subseteq Package!Everything
    /\ \A x, y \in verified : x = y /\ x \notin todo
    /\ verified # {} => stage \in Building
    /\ stage = "idle" => table = Package!Blank
    /\ stage \in {"idle", "matrix"} <=> tables = <<>>
    /\ stage \notin {"pack", "done"} => DOMAIN zip = {}
    /\ stage = "done" => SelectedIn(tables) \subseteq DOMAIN zip

(* While nothing moves: what is built, and what is packed, is determined. *)
PackExact ==
    /\ stage \in Building =>
          table = [c \in DOMAIN Controls |-> Reached(c, todo \cup verified, tree)]
    /\ \A x \in verified : Package!Usable(tree[x[2]])
    /\ \A i \in DOMAIN tables : tables[i] = Walk(tree)
    /\ \A place \in DOMAIN zip : place \in SelectedIn(tables) /\ zip[place] = tree[place]

PackInv == focus = "package" => PackShape /\ (still => PackExact)

LEMMA InEverything ==
    ASSUME NEW c, NEW p
    PROVE  <<c, p>> \in Package!Everything
               <=> c \in DOMAIN Controls /\ p \in Dates \X Controls[c]
<1>1. ASSUME <<c, p>> \in Package!Everything PROVE c \in DOMAIN Controls /\ p \in Dates \X Controls[c]
    <2>1. PICK d \in DOMAIN Controls : <<c, p>> \in {<<d, q>> : q \in Dates \X Controls[d]}
        BY <1>1 DEF Package!Everything
    <2>2. PICK q \in Dates \X Controls[d] : <<c, p>> = <<d, q>>
        BY <2>1
    <2>3. c = d /\ p = q
        BY <2>2
    <2> QED
        BY <2>1, <2>2, <2>3
<1>2. ASSUME c \in DOMAIN Controls, p \in Dates \X Controls[c] PROVE <<c, p>> \in Package!Everything
    BY <1>2 DEF Package!Everything
<1> QED
    BY <1>1, <1>2

LEMMA BlankReached ==
    \A evidence : Package!Blank = [c \in DOMAIN Controls |-> Reached(c, Package!Everything, evidence)]
<1> SUFFICES ASSUME NEW evidence, NEW c \in DOMAIN Controls
             PROVE  Reached(c, Package!Everything, evidence) = {}
    BY DEF Package!Blank
<1>1. \A q \in Dates \X Controls[c] : <<c, q>> \in Package!Everything
    BY InEverything
<1> QED
    BY <1>1 DEF Reached

LEMMA PackInit == Start => PackInv
<1> SUFFICES ASSUME Start PROVE PackInv
    OBVIOUS
<1>1. /\ stage = "idle" /\ todo = {} /\ verified = {} /\ table = Package!Blank
      /\ tables = <<>> /\ zip = <<>>
    BY DEF Start, Package!Init
<1>2. <<>> \in Seq({}) /\ DOMAIN <<>> = {}
    OBVIOUS
<1> QED
    BY <1>1, <1>2 DEF PackInv, PackShape, PackExact, Building

LEMMA CollectPacks ==
    ASSUME PackShape, Package!Collect
    PROVE  PackShape' /\ ~still'
    BY DEF Package!Collect, PackShape

LEMMA BeginPacks ==
    ASSUME PackShape, Package!Begin
    PROVE  PackShape' /\ PackExact'
<1>1. /\ stage = "idle" /\ stage' = "matrix" /\ todo' = Package!Everything
      /\ UNCHANGED <<tree, verified, table, tables, zip>>
    BY DEF Package!Begin
<1>2. verified = {} /\ table = Package!Blank /\ tables = <<>> /\ DOMAIN zip = {}
    BY <1>1 DEF PackShape, Building
<1>3. PackShape'
    BY <1>1, <1>2 DEF PackShape, Building
<1>4. table' = [c \in DOMAIN Controls |-> Reached(c, todo' \cup verified', tree')]
    <2>1. todo' \cup verified' = Package!Everything
        BY <1>1, <1>2
    <2> QED
        BY <1>1, <1>2, <2>1, BlankReached
<1>5. DOMAIN tables' = {} /\ DOMAIN zip' = {} /\ verified' = {}
    BY <1>1, <1>2
<1> QED
    BY <1>3, <1>4, <1>5 DEF PackExact

LEMMA ExaminePacks ==
    ASSUME PackShape, NEW c \in DOMAIN Controls, NEW p, Package!Examine(c, p)
    PROVE  PackShape' /\ (PackExact => PackExact')
<1> DEFINE x == <<c, p>>
<1>1. /\ stage \in Building /\ verified = {} /\ x \in todo /\ todo' = todo \ {x}
      /\ verified' = IF Package!Usable(tree[p]) THEN {x} ELSE {}
      /\ UNCHANGED <<tree, stage, table, tables, zip, still>>
    BY DEF Package!Examine, Building
<1>2. PackShape'
    <2> HIDE DEF x
    <2> QED
        BY <1>1 DEF PackShape, Building
<1>3. ASSUME PackExact PROVE PackExact'
    <2>1. ASSUME NEW d \in DOMAIN Controls
          PROVE  Reached(d, todo' \cup verified', tree) = Reached(d, todo \cup verified, tree)
        <3>1. ASSUME NEW q, Package!Usable(tree[q])
              PROVE  <<d, q>> \in todo' \cup verified' <=> <<d, q>> \in todo \cup verified
            <4>1. <<d, q>> = x => q = p
                OBVIOUS
            <4> HIDE DEF x
            <4> QED
                BY <1>1, <3>1, <4>1
        <3> QED
            BY <3>1 DEF Reached
    <2>2. table' = [d \in DOMAIN Controls |-> Reached(d, todo' \cup verified', tree')]
        BY <1>1, <1>3, <2>1 DEF PackExact
    <2>3. \A y \in verified' : Package!Usable(tree'[y[2]])
        BY <1>1
    <2> QED
        BY <1>1, <1>3, <2>2, <2>3 DEF PackExact
<1> QED
    BY <1>2, <1>3

LEMMA HashPacks ==
    ASSUME PackShape, NEW c \in DOMAIN Controls, NEW p, Package!Hash(c, p)
    PROVE  PackShape' /\ (PackExact => PackExact')
<1> DEFINE x == <<c, p>>
           found == <<p, tree[p].version>>
<1>1. /\ x \in verified /\ verified' = {}
      /\ table' = [table EXCEPT ![c] = @ \cup {found}]
      /\ UNCHANGED <<tree, stage, todo, tables, zip, still>>
    BY DEF Package!Hash
<1>2. verified = {x} /\ x \notin todo /\ stage \in Building
    BY <1>1 DEF PackShape
<1>3. PackShape'
    <2> HIDE DEF x, found
    <2> QED
        BY <1>1, <1>2 DEF PackShape, Building
<1>4. ASSUME PackExact PROVE PackExact'
    <2>1. p \in Dates \X Controls[c] /\ Package!Usable(tree[p])
        <3>1. x \in Package!Everything
            BY <1>1 DEF PackShape
        <3>2. Package!Usable(tree[x[2]])
            BY <1>1, <1>4 DEF PackExact
        <3> QED
            BY <3>1, <3>2, InEverything
    <2>2. Reached(c, todo', tree) = Reached(c, todo \cup verified, tree) \cup {found}
        <3>1. ASSUME NEW q \in Dates \X Controls[c]
              PROVE  <<c, q>> \notin todo <=> <<c, q>> \notin todo \cup verified \/ q = p
            <4>1. <<c, q>> = x <=> q = p
                OBVIOUS
            <4> HIDE DEF x
            <4> QED
                BY <1>2, <4>1
        <3>2. {q \in Dates \X Controls[c] : <<c, q>> \notin todo /\ Package!Usable(tree[q])}
                 = {q \in Dates \X Controls[c] :
                        <<c, q>> \notin todo \cup verified /\ Package!Usable(tree[q])} \cup {p}
            BY <2>1, <3>1
        <3>3. todo' = todo
            BY <1>1
        <3> HIDE DEF x
        <3> QED
            BY <3>2, <3>3 DEF Reached
    <2>3. ASSUME NEW d \in DOMAIN Controls, d # c
          PROVE  Reached(d, todo', tree) = Reached(d, todo \cup verified, tree)
        <3>1. ASSUME NEW q PROVE <<d, q>> \in todo <=> <<d, q>> \in todo \cup verified
            BY <1>2, <2>3
        <3>2. todo' = todo
            BY <1>1
        <3> QED
            BY <3>1, <3>2 DEF Reached
    <2> HIDE DEF x, found
    <2>4. table = [d \in DOMAIN Controls |-> Reached(d, todo \cup verified, tree)]
        BY <1>2, <1>4 DEF PackExact
    <2>5. table' = [d \in DOMAIN Controls |-> Reached(d, todo', tree)]
        BY <1>1, <2>2, <2>3, <2>4
    <2>6. todo' \cup verified' = todo' /\ tree' = tree
        BY <1>1
    <2>7. table' = [d \in DOMAIN Controls |-> Reached(d, todo' \cup verified', tree')]
        BY <2>5, <2>6
    <2> QED
        BY <1>1, <1>4, <2>7 DEF PackExact
<1> QED
    BY <1>3, <1>4

LEMMA BuiltPacks ==
    ASSUME PackShape, Package!Built
    PROVE  PackShape' /\ (PackExact => PackExact')
<1>1. /\ stage \in Building /\ todo = {} /\ verified = {}
      /\ tables' = Append(tables, Package!Crosswalk)
      /\ stage' \in {"csv", "summary", "pack"}
      /\ todo' = (IF stage = "summary" THEN {} ELSE Package!Everything)
      /\ stage' = "pack" <=> stage = "summary"
      /\ table' = Package!Blank
      /\ UNCHANGED <<tree, verified, zip, still>>
    BY DEF Package!Built, Building
<1>2. DOMAIN zip = {}
    BY <1>1 DEF PackShape, Building
<1>3. /\ \E S : tables' \in Seq(S)
      /\ tables' # <<>>
      /\ \A i \in DOMAIN tables' :
            \/ i \in DOMAIN tables /\ tables'[i] = tables[i]
            \/ tables'[i] = Package!Crosswalk
    <2>1. PICK S : tables \in Seq(S)
        BY DEF PackShape
    <2> DEFINE one == Package!Crosswalk
    <2>2. tables' = Append(tables, one)
        BY <1>1
    <2> HIDE DEF one
    <2>3. tables \in Seq(S \cup {one}) /\ Append(tables, one) \in Seq(S \cup {one})
        BY <2>1
    <2>4. /\ Append(tables, one) # <<>>
          /\ \A i \in DOMAIN Append(tables, one) :
                \/ i \in DOMAIN tables /\ Append(tables, one)[i] = tables[i]
                \/ Append(tables, one)[i] = one
        BY <2>1
    <2> QED
        BY <2>2, <2>3, <2>4 DEF one
<1>4. PackShape'
    BY <1>1, <1>2, <1>3 DEF PackShape, Building
<1>5. ASSUME PackExact PROVE PackExact'
    <2>1. table = [c \in DOMAIN Controls |-> Reached(c, {}, tree)]
        <3>1. todo \cup verified = {}
            BY <1>1
        <3> QED
            BY <1>1, <1>5, <3>1 DEF PackExact
    <2>2. Package!Crosswalk = Walk(tree)
        BY <2>1 DEF Package!Crosswalk, Walk
    <2>3. \A i \in DOMAIN tables' : tables'[i] = Walk(tree')
        BY <1>1, <1>3, <1>5, <2>2 DEF PackExact
    <2>4. stage' \in Building =>
              table' = [c \in DOMAIN Controls |-> Reached(c, todo' \cup verified', tree')]
        <3> SUFFICES ASSUME stage' \in Building
                     PROVE  table' = [c \in DOMAIN Controls |-> Reached(c, todo' \cup verified', tree')]
            OBVIOUS
        <3>1. todo' \cup verified' = Package!Everything
            BY <1>1 DEF Building
        <3> QED
            BY <1>1, <3>1, BlankReached
    <2> QED
        BY <1>1, <1>2, <2>3, <2>4 DEF PackExact
<1> QED
    BY <1>4, <1>5

LEMMA PackPacks ==
    ASSUME PackShape, NEW p, Package!Pack(p)
    PROVE  PackShape' /\ (PackExact => PackExact')
<1>1. /\ stage = "pack" /\ p \in SelectedIn(tables) \ DOMAIN zip
      /\ zip' = [q \in DOMAIN zip \cup {p} |-> IF q = p THEN tree[p] ELSE zip[q]]
      /\ UNCHANGED <<tree, stage, todo, verified, table, tables, still>>
    BY DEF Package!Pack, Package!Selected, SelectedIn
<1>2. PackShape'
    BY <1>1 DEF PackShape, Building
<1>3. /\ DOMAIN zip' = DOMAIN zip \cup {p} /\ zip'[p] = tree[p]
      /\ \A q \in DOMAIN zip : zip'[q] = zip[q]
    BY <1>1
<1>4. PackExact => PackExact'
    BY <1>1, <1>3 DEF PackExact, Building
<1> QED
    BY <1>2, <1>4

LEMMA FinishPacks ==
    ASSUME PackShape, Package!Finish
    PROVE  PackShape' /\ (PackExact => PackExact')
<1>1. /\ stage = "pack" /\ SelectedIn(tables) \subseteq DOMAIN zip /\ stage' = "done"
      /\ UNCHANGED <<tree, todo, verified, table, tables, zip, still>>
    BY DEF Package!Finish, Package!Selected, SelectedIn
<1> QED
    BY <1>1 DEF PackShape, PackExact, Building

LEMMA PackStep == PackInv /\ [Serve]_<<focus, registry, package, vars>> => PackInv'
<1> SUFFICES ASSUME PackInv, [Serve]_<<focus, registry, package, vars>>, focus' = "package"
             PROVE  PackShape' /\ (still' => PackExact')
    BY DEF PackInv
<1>1. focus = "package" /\ (Package!Next \/ UNCHANGED package)
    BY DEF Serve
<1>2. PackShape /\ (still => PackExact)
    BY <1>1 DEF PackInv
<1>3. CASE UNCHANGED package
    BY <1>2, <1>3 DEF package, PackShape, PackExact
<1>4. CASE Package!Collect
    BY <1>2, <1>4, CollectPacks
<1>5. CASE Package!Begin
    BY <1>2, <1>5, BeginPacks
<1>6. CASE Package!Built
    <2>1. still' = still
        BY <1>6 DEF Package!Built
    <2> QED
        BY <1>2, <1>6, <2>1, BuiltPacks
<1>7. CASE Package!Finish
    <2>1. still' = still
        BY <1>7 DEF Package!Finish
    <2> QED
        BY <1>2, <1>7, <2>1, FinishPacks
<1>8. ASSUME NEW p \in Package!Places, Package!Pack(p) PROVE PackShape' /\ (still' => PackExact')
    <2>1. still' = still
        BY <1>8 DEF Package!Pack
    <2> QED
        BY <1>2, <1>8, <2>1, PackPacks
<1>9. ASSUME NEW p \in Package!Places, NEW c \in DOMAIN Controls, Package!Examine(c, p)
      PROVE  PackShape' /\ (still' => PackExact')
    <2>1. still' = still
        BY <1>9 DEF Package!Examine
    <2> QED
        BY <1>2, <1>9, <2>1, ExaminePacks
<1>10. ASSUME NEW p \in Package!Places, NEW c \in DOMAIN Controls, Package!Hash(c, p)
       PROVE  PackShape' /\ (still' => PackExact')
    <2>1. still' = still
        BY <1>10 DEF Package!Hash
    <2> QED
        BY <1>2, <1>10, <2>1, HashPacks
<1> QED
    BY <1>1, <1>3, <1>4, <1>5, <1>6, <1>7, <1>8, <1>9, <1>10 DEF Package!Next

LEMMA PackInvariant == Served => []PackInv
    BY PackInit, PackStep, PTL DEF Served

(***************************************************************************)
(* While nothing moves, the three crosswalks agree, what they list is      *)
(* there and verifies, and the package holds just what they list.          *)
(***************************************************************************)
THEOREM ExportIsExact == Served => []ExactAtRest
<1>1. PackInv => ExactAtRest
    <2> SUFFICES ASSUME PackInv, focus = "package", still, tables # <<>>
                 PROVE  /\ \A one, other \in Package!Range(tables) : one = other
                        /\ \A c \in DOMAIN Controls : \A a \in tables[1][c].artifacts :
                              tree[a[1]].version = a[2] /\ tree[a[1]].valid
                        /\ \A place \in DOMAIN zip :
                              place \in Package!Selected /\ zip[place] = tree[place]
                        /\ stage = "done" => DOMAIN zip = Package!Selected
        BY DEF ExactAtRest, Package!ExactAtRest
    <2>1. PackShape /\ PackExact
        BY DEF PackInv
    <2>2. \A one, other \in Package!Range(tables) : one = other
        BY <2>1 DEF PackExact, Package!Range
    <2>3. tables[1] = Walk(tree)
        <3>1. PICK S : tables \in Seq(S)
            BY <2>1 DEF PackShape
        <3>2. 1 \in DOMAIN tables
            BY <3>1
        <3> QED
            BY <2>1, <3>2 DEF PackExact
    <2>4. ASSUME NEW c \in DOMAIN Controls, NEW a \in tables[1][c].artifacts
          PROVE  tree[a[1]].version = a[2] /\ tree[a[1]].valid
        <3>1. a \in Reached(c, {}, tree)
            BY <2>3 DEF Walk
        <3>2. PICK p : a = <<p, tree[p].version>> /\ Package!Usable(tree[p])
            BY <3>1 DEF Reached
        <3> QED
            BY <3>2 DEF Package!Usable
    <2>5. Package!Selected = SelectedIn(tables)
        BY DEF Package!Selected, SelectedIn
    <2>6. /\ \A place \in DOMAIN zip : place \in SelectedIn(tables) /\ zip[place] = tree[place]
          /\ stage = "done" => SelectedIn(tables) \subseteq DOMAIN zip
        BY <2>1 DEF PackShape, PackExact
    <2> QED
        BY <2>2, <2>4, <2>5, <2>6
<1> QED
    BY <1>1, PackInvariant, PTL
=============================================================================
