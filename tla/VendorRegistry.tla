--------------------------- MODULE VendorRegistry ---------------------------
(***************************************************************************)
(* The vendor registry of one tenant (vendor_risk.py): one JSON list that  *)
(* the dashboard's threads and the command line read and rewrite.          *)
(***************************************************************************)
EXTENDS VendorRisk, Sequences

CONSTANTS
    Callers, MaxCalls, MaxTime,
    VendorIds,      \* vendor_id
    Profiles        \* what a request says of a vendor: yes, tier, class,
                    \* report, and until, the day its report ends

VARIABLES file, now, calls, started, trail, moves, quiet

None == [kind |-> "none"]

VendorOps ==
    [name: {"save_vendor"}, vendor: VendorIds, profile: Profiles]
    \cup [name: {"get_vendor"}, vendor: VendorIds]
    \cup [name: {"generate_cc92_report"}]

(* Mutant of ListVendors: the file is taken for good and not read again. *)
ForgetVendors(content) == <<>>

(* list_vendors: a file that is absent or does not parse is an empty list. *)
ListVendors(content) == IF content.kind = "whole" THEN content.value ELSE <<>>

(* A vendor as it is stored: the verdict is the one of the day it was saved. *)
Assessed(profile, at) ==
    LET v == [yes |-> profile.yes, tier |-> profile.tier, class |-> profile.class,
              report |-> profile.report, left |-> profile.until - at]
    IN  [profile |-> profile, verdict |-> EvaluateRisk(v)]

(* save_vendor: the vendor's entry is replaced, or a new one is added. *)
Saved(vendors, id, stored) ==
    [v \in DOMAIN vendors \cup {id} |-> IF v = id THEN stored ELSE vendors[v]]

Cc92Report(vendors) ==
    LET With(status) == {v \in DOMAIN vendors : vendors[v].verdict.status = status}
        gaps == {v \in DOMAIN vendors : vendors[v].verdict.findings \cap Critical # {}}
    IN  [total |-> Cardinality(DOMAIN vendors),
         approved |-> With("APPROVED"),
         rejected |-> With("REJECTED"),
         gaps |-> gaps,
         compliant |-> gaps = {} /\ With("REJECTED") = {}]

ServeVendor(content, op, call) ==
    LET vendors == ListVendors(content)
        stored  == IF op.name = "save_vendor" THEN Assessed(op.profile, call.at) ELSE None
        found   == IF op.name = "get_vendor" /\ op.vendor \in DOMAIN vendors
                   THEN vendors[op.vendor] ELSE None
    IN  CASE op.name = "save_vendor" ->
                [reply |-> stored, saves |-> TRUE,
                 value |-> Saved(vendors, op.vendor, stored)]
          [] op.name = "get_vendor" -> [reply |-> found, saves |-> FALSE, value |-> None]
          [] OTHER -> [reply |-> Cc92Report(vendors), saves |-> FALSE, value |-> None]

Register == INSTANCE JsonRegister WITH Ops <- VendorOps, Serve <- ServeVendor

Init == Register!Init
Next == Register!Next

-----------------------------------------------------------------------------
Saves == {i \in DOMAIN trail : trail[i].op.name = "save_vendor"}
LastSaves == {i \in Saves : \A j \in Saves : trail[j].op.vendor = trail[i].op.vendor => j <= i}

(***************************************************************************)
(* As long as calls do not overlap and none is cut off, a vendor whose     *)
(* save returned is in the registry, as its last save assessed it, and     *)
(* nothing else is: save_vendor writes the whole list back, so each save   *)
(* answers for the vendors of all the others.                              *)
(***************************************************************************)
NoVendorLost ==
    quiet /\ Register!AtRest /\ Saves # {} =>
        /\ file.kind = "whole"
        /\ \A i \in LastSaves : /\ trail[i].op.vendor \in DOMAIN file.value
                                /\ file.value[trail[i].op.vendor] = trail[i].reply
        /\ DOMAIN file.value = {trail[i].op.vendor : i \in Saves}

(***************************************************************************)
(* A CC9.2 report that calls the organisation compliant while a vendor     *)
(* with a critical gap had been saved, and not assessed better since, was  *)
(* made from a file that could not be read, or after saves that            *)
(* overlapped.                                                             *)
(***************************************************************************)
ComplianceIsBacked ==
    \A r \in DOMAIN trail :
        LET before == {i \in Saves : i < r}
            latest == {i \in before : \A j \in before :
                          trail[j].op.vendor = trail[i].op.vendor => j <= i}
        IN  /\ trail[r].op.name = "generate_cc92_report"
            /\ trail[r].reply.compliant
            /\ \E i \in latest : trail[i].reply.verdict.findings \cap Critical # {}
            => trail[r].found = "torn" \/ ~quiet
=============================================================================
