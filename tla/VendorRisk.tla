----------------------------- MODULE VendorRisk -----------------------------
(***************************************************************************)
(* How a vendor is assessed (vendor_risk.py): the questionnaire's score,   *)
(* what the tier requires, and the status that follows.                    *)
(***************************************************************************)
EXTENDS Integers, FiniteSets, FiniteSetsExt

Weight ==
    [has_soc2_type2 |-> 25, enforces_mfa |-> 15, soc2_clean_opinion |-> 10,
     encrypts_data_at_rest |-> 10, encrypts_data_in_transit |-> 10,
     has_annual_pentest |-> 10, has_incident_response_plan |-> 5,
     has_business_continuity_plan |-> 5, dpa_executed |-> 5,
     has_background_checks |-> 5]

(* Two questions of the questionnaire carry no weight and are left out.    *)
Questions == DOMAIN Weight

Tiers == {"TIER_1_CRITICAL", "TIER_2_HIGH", "TIER_3_MEDIUM", "TIER_4_LOW"}
Classes == {"RESTRICTED", "CONFIDENTIAL", "INTERNAL", "PUBLIC"}

Lower(a, b) == IF a <= b THEN a ELSE b
Higher(a, b) == IF a >= b THEN a ELSE b

CalculateScore(yes) == Lower(100, MapThenSumSet(LAMBDA q : Weight[q], yes))

(***************************************************************************)
(* What is known of a vendor: yes is the set of questions answered so,     *)
(* report is how soc2_valid_until is written, and left the whole days to   *)
(* that date.  A date without a time zone cannot be subtracted from now;   *)
(* the TypeError is taken for a malformed date.                            *)
(***************************************************************************)
Vendors(reports, days) ==
    [yes: SUBSET Questions, tier: Tiers, class: Classes, report: reports, left: days]

Dated(v) == v.report = "zoned"

FindingsOf(v) ==
    LET tier1 == v.tier = "TIER_1_CRITICAL" IN
    {f \in {"expired", "expiring", "malformed", "no_report", "no_dpa", "no_mfa", "no_encryption"} :
        CASE f = "expired"   -> Dated(v) /\ v.left < 0
          [] f = "expiring"  -> Dated(v) /\ v.left \in 0..60
          [] f = "malformed" -> v.report \in {"plain", "garbage"}
          [] f = "no_report" -> v.report = "none" /\ v.tier \in {"TIER_1_CRITICAL", "TIER_2_HIGH"}
          [] f = "no_dpa"    -> tier1 /\ "dpa_executed" \notin v.yes
                                      /\ v.class \in {"RESTRICTED", "CONFIDENTIAL"}
          [] f = "no_mfa"    -> tier1 /\ "enforces_mfa" \notin v.yes
          [] OTHER           -> tier1 /\ "encrypts_data_at_rest" \notin v.yes}

Critical == {"expired", "no_dpa", "no_mfa", "no_encryption"}

Penalty ==
    [expired |-> 20, expiring |-> 0, malformed |-> 0, no_report |-> 15,
     no_dpa |-> 15, no_mfa |-> 15, no_encryption |-> 10]

RiskScore(v) ==
    LET base == CalculateScore(v.yes) - MapThenSumSet(LAMBDA f : Penalty[f], FindingsOf(v))
    IN  Higher(0, Lower(100, base))

StatusOf(v) ==
    IF FindingsOf(v) \cap Critical # {}
    THEN IF RiskScore(v) >= 50 THEN "CONDITIONAL" ELSE "REJECTED"
    ELSE IF RiskScore(v) >= 80 THEN "APPROVED" ELSE "UNDER_REVIEW"

EvaluateRisk(v) ==
    [score |-> RiskScore(v), status |-> StatusOf(v), findings |-> FindingsOf(v)]
=============================================================================
