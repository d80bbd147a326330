---------------------------- MODULE DispatchLedger ----------------------------
(***************************************************************************)
(* What the dispatch ledger of a campaign promises, without runs, locks,   *)
(* batches and retries: a row says what happened to its recipient, a       *)
(* decided recipient gets no message any more, and the ledger of a paid    *)
(* channel (Intents) announces each message before it goes.                *)
(***************************************************************************)
EXTENDS Naturals

CONSTANTS
  Recipients,
  NoConsent,  \* recipients that may not be written to
  Intents     \* is a message announced by a committed row?

VARIABLES
  suppressed, \* recipients that have unsubscribed
  row,        \* the committed rows
  delivered   \* how often the provider took a message for each

vars == <<suppressed, row, delivered>>

Decided == {"Sent", "Suppressed"}
Open == {"absent", "Failed", "Skipped"}

Init ==
  /\ suppressed = {}
  /\ row = [p \in Recipients |-> "absent"]
  /\ delivered = [p \in Recipients |-> 0]

Unsubscribe(p) ==
  /\ suppressed' = suppressed \cup {p}
  /\ UNCHANGED <<row, delivered>>

\* A message goes out.  On a paid channel an announced one, once.
Announced(p) == row[p] = "Sending" /\ delivered[p] = 0

Deliver(p) ==
  /\ p \notin NoConsent
  /\ IF Intents THEN Announced(p) ELSE row[p] \in Open
  /\ delivered' = [delivered EXCEPT ![p] = @ + 1]
  /\ UNCHANGED <<suppressed, row>>

\* What may be written over an undecided row: the truth.
May(p, status) ==
  \/ status = "Sent" /\ delivered[p] > 0
  \/ status = "Suppressed" /\ p \in suppressed /\ row[p] \in Open
  \/ status = "Skipped" /\ p \in NoConsent
  \/ status = "Failed" /\ p \notin NoConsent /\ (Intents => Announced(p))
  \/ /\ status = "Sending" /\ Intents
     /\ p \notin NoConsent /\ row[p] \in Open /\ delivered[p] = 0

\* One transaction, for any number of recipients.
Commit ==
  /\ row' \in [Recipients -> Decided \cup Open \cup {"Sending"}]
  /\ \A p \in Recipients :
       row'[p] # row[p] => row[p] \notin Decided /\ May(p, row'[p])
  /\ UNCHANGED <<suppressed, delivered>>

Next ==
  \/ \E p \in Recipients : Unsubscribe(p) \/ Deliver(p)
  \/ Commit

Spec == Init /\ [][Next]_vars

-----------------------------------------------------------------------------
\* What follows: no message without consent, none unrecorded on a paid channel
\* and never a second one there, and no row says more than what happened.
Truthful ==
  \A p \in Recipients :
    /\ row[p] = "Sent" => delivered[p] > 0
    /\ row[p] = "Suppressed" => p \in suppressed
    /\ delivered[p] > 0 => p \notin NoConsent
    /\ Intents => /\ delivered[p] <= 1
                  /\ delivered[p] = 1 => row[p] \in {"Sending", "Sent"}
=============================================================================
