----------------------------- MODULE MCCampaign -----------------------------
(***************************************************************************)
(* Two bugs.  One may be asked for under its raw name, with an underscore, *)
(* which the helper never finds: it turns underscores into spaces.         *)
(***************************************************************************)
EXTENDS Campaign

RawNames == {"Spectre_v1", "Meltdown"}
AllNames == {"Spectre v1", "Meltdown", "Spectre_v1"}
Display == [Spectre_v1 |-> "Spectre v1", Meltdown |-> "Meltdown"]
Asked == {{}, {"Meltdown"}, {"Meltdown", "Spectre v1"}, {"Spectre_v1"}}
=============================================================================
