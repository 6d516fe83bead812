----------------------------- MODULE MCCampaign -----------------------------
(* Symmetry for model checking the campaign: scripts are interchangeable.   *)
EXTENDS CampaignAudit, TLC

Scripts == Permutations(Runners)
=============================================================================
