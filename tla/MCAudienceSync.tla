---------------------------- MODULE MCAudienceSync ----------------------------
(* Two workers; LEO Ads audiences of two campaigns, and external audiences of *)
(* one of them, replayed by a second execution.                              *)
EXTENDS AudienceSync

CONSTANTS j1, j2, c1, c2, m1, m2

MCJobs == {j1, j2}
MCCampaigns == {c1, c2}
MCProfiles == {m1, m2}

Target(c, p, e) == [campaign |-> c, platform |-> p, execution |-> e]
MCTargets ==
  {Target(c1, "leo_ads", 1), Target(c2, "leo_ads", 1),
   Target(c1, "meta_ads", 1), Target(c1, "meta_ads", 2),
   Target(c2, "google_ads", None), Target(c2, "tiktok_ads", None)}
MCSynced == {c1}
=============================================================================
