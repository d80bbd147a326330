---------------------------- MODULE ServedAudiences ----------------------------
(***************************************************************************)
(* What the synchronisation of a tenant's LEO Ads audiences promises,      *)
(* without jobs, sessions, locks and retries: an audience is replaced in   *)
(* one step by members that were all eligible at one moment, never by      *)
(* older ones than it has, and the serving keys follow in the same step.   *)
(***************************************************************************)
EXTENDS Naturals

CONSTANTS Campaigns, Profiles

VARIABLES
  eligible, \* [Campaigns -> profiles]
  epoch,    \* number of changes of eligibility
  leo,      \* [Campaigns -> members and the epoch they were read in]
  keys,     \* profiles with a serving key
  reading   \* snapshots that have been read and not published

vars == <<eligible, epoch, leo, keys, reading>>

Members == UNION {leo[c].members : c \in Campaigns}

Init ==
  /\ eligible \in [Campaigns -> SUBSET Profiles] /\ epoch = 0
  /\ leo \in [Campaigns -> [members : SUBSET Profiles, epoch : {0}]]
  /\ keys = Members
  /\ reading = {}

Change ==
  /\ eligible' \in [Campaigns -> SUBSET Profiles]
  /\ epoch' = epoch + 1
  /\ UNCHANGED <<leo, keys, reading>>

Snapshot(c) == [campaign |-> c, members |-> eligible[c], epoch |-> epoch]

Read(c) ==
  /\ reading' = reading \cup {Snapshot(c)}
  /\ UNCHANGED <<eligible, epoch, leo, keys>>

\* A snapshot may be given up, and one that is published may be used again, by
\* another reader of the same moment.
Drop ==
  /\ reading' \in SUBSET reading
  /\ UNCHANGED <<eligible, epoch, leo, keys>>

Publish(s) ==
  /\ s.epoch >= leo[s.campaign].epoch
  /\ leo' = [leo EXCEPT ![s.campaign] =
                [members |-> s.members, epoch |-> s.epoch]]
  /\ keys' = Members'
  /\ reading' \in SUBSET reading
  /\ UNCHANGED <<eligible, epoch>>

Next ==
  \/ Change \/ Drop
  \/ \E c \in Campaigns : Read(c)
  \/ \E s \in reading : Publish(s)

Spec == Init /\ [][Next]_vars

-----------------------------------------------------------------------------
\* What follows: the serving keys are those of the members, and an audience that
\* was read since the last change of eligibility has the eligible members.
UpToDate ==
  /\ keys = Members
  /\ \A c \in Campaigns :
       leo[c].epoch = epoch /\ epoch # 0 => leo[c].members = eligible[c]
=============================================================================
