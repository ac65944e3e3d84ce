----------------------------- MODULE ReportSpread -----------------------------
(***************************************************************************)
(* How far a report is spread as what speaks for it and against it grows:  *)
(* buildDistributionDecision is asked anew with every confirmation, flag   *)
(* and verdict (refreshReportSignals), and by then the report's signals,   *)
(* its reporter's standing and the last hour's reports may all be others.  *)
(*                                                                         *)
(* The state is what the decision is made from.  One thing changes at a    *)
(* time, so that a step shows what it alone does to the decision.          *)
(***************************************************************************)
EXTENDS Credibility, Sequences

CONSTANTS Confidences, Qualities,   \* the values that differ, in hundredths
          MaxConfirmations, MaxRecent

VARIABLE input

Inputs ==
    [severity : Severities, tier : Tiers, level : Levels, running : BOOLEAN,
     corroborations : 0..MaxConfirmations, confidence : Confidences, quality : Qualities,
     recent : 1..MaxRecent]

(* A report is evaluated first when it is created.  Nobody banned creates  *)
(* one, and only a temporary restriction has an end.                       *)
Init ==
    input \in {in \in Inputs : /\ in.corroborations = 0 /\ in.level # "ban"
                               /\ in.running = (in.level = "temporary_restriction")}

Decided == Distribution(input)

-----------------------------------------------------------------------------
Confirm ==
    /\ input.corroborations < MaxConfirmations
    /\ input' = [input EXCEPT !.corroborations = @ + 1]

TierOrder == << "low", "mid", "high" >>
TierRises ==
    \E i \in 1..2 : /\ input.tier = TierOrder[i]
                    /\ input' = [input EXCEPT !.tier = TierOrder[i + 1]]
TierFalls ==
    \E i \in 2..3 : /\ input.tier = TierOrder[i]
                    /\ input' = [input EXCEPT !.tier = TierOrder[i - 1]]

LevelOrder == << "none", "warning", "temporary_restriction", "shadow_restriction", "ban" >>
Restrict ==
    \E i \in 1..4 : /\ input.level = LevelOrder[i]
                    /\ input' = [input EXCEPT !.level = LevelOrder[i + 1],
                                 !.running = LevelOrder[i + 1] = "temporary_restriction"]
RestrictionEnds == input.running /\ input' = [input EXCEPT !.running = FALSE]

(* The reporter files another report within the hour.                      *)
ReportAgain ==
    /\ input.level # "ban"
    /\ input.recent < MaxRecent
    /\ input' = [input EXCEPT !.recent = @ + 1]

Next == Confirm \/ TierRises \/ TierFalls \/ Restrict \/ RestrictionEnds \/ ReportAgain

Spec == Init /\ [][Next]_input

-----------------------------------------------------------------------------
Scopes == {"none", "nearby_only", "feed_only", "nearby_priority", "nearby_push", "map_and_feed",
           "network_priority"}

(* Every input has a decision; "network" is not among them.                *)
TypeOK == input \in Inputs /\ Decided \in [scope : Scopes, review : BOOLEAN]

(* The scopes a report of one severity may have, from the narrowest.       *)
Width(decided) ==
    CASE decided.scope = "none" -> 0
      [] decided.scope = "nearby_only" -> 1
      [] decided.scope \in {"feed_only", "nearby_priority", "nearby_push", "map_and_feed"} -> 2
      [] decided.scope = "network_priority" -> 3

(* What speaks for a report, a confirmation or its reporter's tier, never  *)
(* narrows its audience and never sends it to a reviewer.                  *)
SupportNeverNarrows ==
    [][input'.corroborations > input.corroborations \/ TierRises =>
         /\ Width(Decided') >= Width(Decided)
         /\ Decided'.review => Decided.review]_input

(* What speaks against it, a restriction, a lower tier or a fourth report  *)
(* within the hour, never widens its audience and never spares it a        *)
(* reviewer; a warning alone does neither.                                 *)
DoubtNeverWidens ==
    [][Restrict \/ TierFalls \/ ReportAgain =>
         /\ Width(Decided') <= Width(Decided)
         /\ Decided.review => Decided'.review]_input
=============================================================================
