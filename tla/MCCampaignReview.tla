--------------------------- MODULE MCCampaignReview ---------------------------
(* Two requests in flight over a campaign with two plans and two terms.     *)
EXTENDS CampaignReview, TLC

CONSTANTS q1, q2, p1, p2, t1, t2

MCRequests == {q1, q2}
MCPlans == {p1, p2}
MCTerms == {t1, t2}
Symmetry ==
  Permutations(MCRequests) \cup Permutations(MCPlans) \cup Permutations(MCTerms)
=============================================================================
