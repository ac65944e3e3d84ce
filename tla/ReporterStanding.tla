--------------------------- MODULE ReporterStanding ---------------------------
(***************************************************************************)
(* A reporter's standing over a history of reports: what                   *)
(* refreshCredibilityProfile makes of the counts it takes from the         *)
(* database, as reports are filed, confirmed and judged one after another  *)
(* and months pass.                                                        *)
(*                                                                         *)
(* The reports are counts, as they are to the code: which report has which *)
(* outcome is left out, so an outcome may go with any class.               *)
(***************************************************************************)
EXTENDS Credibility

CONSTANTS MaxReports,   \* bounds the history
          Qualities,    \* the quality a report may be filed with
          Given,        \* the outcomes verdicts give, of those that count
          Silences      \* the months that may pass without a report

VARIABLES count,         \* the reports of each class
          quality,       \* the sum of the reports' quality
          corroborated,  \* the reports with two corroborations at least
          outcomes,      \* the reports with each outcome that counts
          months         \* since the last report

vars == << count, quality, corroborated, outcomes, months >>

-----------------------------------------------------------------------------
Reports == Total(count)

(* avg(quality_score) as round() leaves it: in tenths, 0 without reports.  *)
Average == IF Reports = 0 THEN 0 ELSE RoundDiv(10 * quality, Reports)

With(outcome) == IF outcome \in Given THEN outcomes[outcome] ELSE 0

Stats ==
    [confirmed_true |-> count.confirmed_true, likely_true |-> count.likely_true,
     inconclusive |-> count.inconclusive, false |-> count.false, malicious |-> count.malicious,
     quality |-> Average, corroborated |-> corroborated, validated |-> With("validated"),
     action_taken |-> With("action_taken"), months |-> months]

Score == CredibilityScore(Stats)
Tier == RatingTier(Score)
Restriction == RestrictionLevel(count)

Init ==
    /\ count = [class \in Classes |-> 0]
    /\ quality = 0 /\ corroborated = 0 /\ months = 0
    /\ outcomes = [outcome \in Given |-> 0]

(* A report is filed next to so many others, and classified at once.  One  *)
(* who is banned cannot.                                                   *)
Create(q, nearby) ==
    /\ Reports < MaxReports
    /\ Restriction # "ban"
    /\ LET class == InitialClassification([corroborations |-> nearby, confidence |-> 0,
                                           quality |-> q])
       IN  count' = [count EXCEPT ![class] = @ + 1]
    /\ quality' = quality + q
    /\ corroborated' = corroborated + (IF nearby >= 2 THEN 1 ELSE 0)
    /\ months' = 0
    /\ UNCHANGED outcomes

(* A report has its second confirmation.                                   *)
Confirm(class) ==
    /\ count[class] > 0 /\ corroborated < Reports
    /\ corroborated' = corroborated + 1
    /\ count' = IF class = "inconclusive"
                THEN [count EXCEPT ![class] = @ - 1, !.likely_true = @ + 1] ELSE count
    /\ UNCHANGED << quality, outcomes, months >>

(* The outcome a verdict gives to a report, in the place of one it had;    *)
(* the other outcomes do not count.                                        *)
Outcome(now) ==
    \E before \in Given \cup {"pending"} :
        /\ before \in Given => outcomes[before] > 0
        /\ outcomes' = [o \in Given |-> outcomes[o] - (IF o = before THEN 1 ELSE 0)
                                                   + (IF o = now THEN 1 ELSE 0)]
        /\ With("validated")' + With("action_taken")' <= Reports

(* A reviewer judges a report; a verdict that is not final is derived anew *)
(* from the signals before the next refresh, which leaves the counts as    *)
(* they were.                                                              *)
Classify(from, to, outcome) ==
    /\ count[from] > 0 /\ from # to
    /\ count' = [count EXCEPT ![from] = @ - 1, ![to] = @ + 1]
    /\ Outcome(outcome)
    /\ UNCHANGED << quality, corroborated, months >>

FallSilent(silence) ==
    /\ months = 0 /\ Reports > 0
    /\ months' = silence
    /\ UNCHANGED << count, quality, corroborated, outcomes >>

Next ==
    \/ \E q \in Qualities, nearby \in 0..2 : Create(q, nearby)
    \/ \E class \in Classes : Confirm(class)
    \/ \E from \in Classes, to \in {"confirmed_true", "false", "malicious"},
          outcome \in Given \cup {"pending"} : Classify(from, to, outcome)
    \/ \E silence \in Silences : FallSilent(silence)

Spec == Init /\ [][Next]_vars

-----------------------------------------------------------------------------
(* The score is one of the profile's, and no count is negative.            *)
TypeOK ==
    /\ count \in [Classes -> 0..MaxReports]
    /\ Score \in 0..100 /\ Tier \in Tiers /\ Restriction \in Levels
    /\ corroborated \in 0..Reports
    /\ outcomes \in [Given -> 0..MaxReports]

(* Nobody has the tier whose reports are spread unreviewed with fewer than *)
(* four reports, or without one that is true: quality, corroboration and   *)
(* outcomes do not suffice, and a few reports count in part.               *)
HighTierIsEarned ==
    Tier = "high" => /\ Reports >= 4
                     /\ count.confirmed_true + count.likely_true >= 1

(* A report that turns out to be malicious never makes its reporter more   *)
(* credible, whatever outcome goes with the verdict.                       *)
MaliciousNeverRaises ==
    [][count'["malicious"] > count["malicious"] => Score' <= Score]_vars

Severity(level) ==
    CASE level = "none" -> 0 [] level = "warning" -> 1 [] level = "temporary_restriction" -> 2
      [] level = "shadow_restriction" -> 3 [] level = "ban" -> 4

(* Nothing but a verdict on a report that had been judged eases a          *)
(* restriction: no filing, confirming or waiting does, and no verdict on   *)
(* an open report, however many there are.  (Of five false reports one     *)
(* judged malicious does ease it: five false ones are a                    *)
(* shadow_restriction, four and a malicious one a temporary_restriction.)  *)
RestrictionNeverEases ==
    [][count' # count =>
         \/ \E from \in {"false", "malicious"} : count'[from] < count[from]
         \/ Severity(Restriction') >= Severity(Restriction)]_vars
=============================================================================
