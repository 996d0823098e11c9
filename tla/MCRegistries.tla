---------------------------- MODULE MCRegistries ----------------------------
(***************************************************************************)
(* Registries for TLC: values of its constants.                            *)
(***************************************************************************)
EXTENDS Registries, TLC

MCProfiles ==
    [yes: {{"has_soc2_type2", "enforces_mfa", "encrypts_data_at_rest"}},
     tier: {"TIER_1_CRITICAL"}, class: {"INTERNAL"}, report: {"zoned"}, until: {0, 1}]

MCPeriods == {<<1, 1>>, <<1, 2>>}
MCBlocks == [b1 |-> 1, b2 |-> 2]
MCControls == [one |-> {"iam"}, both |-> {"iam", "logs"}, custom |-> {}]

Alike == Permutations(Callers) \cup Permutations(Items) \cup Permutations(VendorIds)
=============================================================================
