------------------------- MODULE MCCampaignExecution -------------------------
(* Small instances of CampaignExecution for TLC.                           *)
EXTENDS CampaignExecution

CONSTANTS j1, j2, r1, r2

\* One activation op and one workflow op may be retried once.
Retries == [o \in Jobs \cup Runs |-> IF o \in {j1, r1} THEN 1 ELSE 0]
=============================================================================
