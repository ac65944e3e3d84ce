----------------------------- MODULE Credibility -----------------------------
(***************************************************************************)
(* How a reporter is scored and how far a report is spread: the functions  *)
(* of credibility.logic.js, over the counts refreshCredibilityProfile      *)
(* takes from the database.                                                *)
(*                                                                         *)
(* JavaScript's numbers are integers here: an average is in tenths, as     *)
(* round() leaves it, and a fraction is rounded by Math.round, half up.    *)
(***************************************************************************)
EXTENDS Integers

Classes == {"confirmed_true", "likely_true", "inconclusive", "false", "malicious"}
Outcomes == {"pending", "validated", "action_taken", "dismissed", "no_action"}
Severities == {"critical", "high", "medium", "low"}
Tiers == {"low", "mid", "high"}
Levels == {"none", "warning", "temporary_restriction", "shadow_restriction", "ban"}

DefaultScore == 50

Least(a, b) == IF a <= b THEN a ELSE b
Clamp(value, low, high) == IF value < low THEN low ELSE IF value > high THEN high ELSE value

(* Math.round(n / d), d > 0                                                *)
RoundDiv(n, d) == (2 * n + d) \div (2 * d)

-----------------------------------------------------------------------------
Total(stats) == stats.confirmed_true + stats.likely_true + stats.inconclusive
                + stats.false + stats.malicious

RatingTier(score) ==
    IF score >= 80 THEN "high" ELSE IF score >= 45 THEN "mid" ELSE "low"

(* Fault: a report past a threshold is compared with = where >= is meant.  *)
RestrictionAtExactly(stats) ==
    IF stats.malicious >= 3 THEN "ban"
    ELSE IF stats.malicious >= 2 \/ stats.false >= 5 THEN "shadow_restriction"
    ELSE IF stats.malicious >= 1 \/ stats.false = 3 THEN "temporary_restriction"
    ELSE IF stats.false >= 1 THEN "warning"
    ELSE "none"

RestrictionLevel(stats) ==
    IF stats.malicious >= 3 THEN "ban"
    ELSE IF stats.malicious >= 2 \/ stats.false >= 5 THEN "shadow_restriction"
    ELSE IF stats.malicious >= 1 \/ stats.false >= 3 THEN "temporary_restriction"
    ELSE IF stats.false >= 1 THEN "warning"
    ELSE "none"

InactivityPenalty(months) == Least(12, 2 * months)

(* The ratio of true reports, a likely one counting three quarters.        *)
ConsistencyAdjustment(stats) ==
    LET signals == 5 * (4 * stats.confirmed_true + 3 * stats.likely_true)
        total == Total(stats)
    IN  IF total < 2 THEN 0
        ELSE IF signals >= 16 * total THEN 8
        ELSE IF signals >= 13 * total THEN 4
        ELSE IF signals >= 9 * total THEN 0
        ELSE -6

QualityBoost(average) == Clamp(RoundDiv(average - 500, 80), -6, 6)

RawScore(stats) ==
    DefaultScore + 7 * stats.confirmed_true + 4 * stats.likely_true
    - 3 * stats.false - 18 * stats.malicious
    + QualityBoost(stats.quality)
    + Least(12, 2 * stats.corroborated)
    + Least(8, 2 * stats.validated + 3 * stats.action_taken)
    + ConsistencyAdjustment(stats)
    - InactivityPenalty(stats.months)

(* The fewer the reports, the nearer the score to the default.             *)
CredibilityScore(stats) ==
    Clamp(DefaultScore + RoundDiv((RawScore(stats) - DefaultScore) * Least(Total(stats), 5), 5),
          0, 100)

-----------------------------------------------------------------------------
(* deriveInitialClassification; the confidence in hundredths.              *)
InitialClassification(signals) ==
    IF \/ signals.corroborations >= 2
       \/ signals.corroborations >= 1 /\ (signals.confidence >= 65 \/ signals.quality >= 70)
      THEN "likely_true" ELSE "inconclusive"

Decision(scope, review) == [scope |-> scope, review |-> review]

Strong(input) == input.corroborations >= 2 \/ input.confidence >= 85
Moderate(input) ==
    input.corroborations >= 1 \/ input.confidence >= 75 \/ input.quality >= 70
Trusted(input) == input.tier = "high"

(* Fault: the middle tier is asked for before the signals.                 *)
BySeverityMidFirst(input) ==
    CASE input.severity = "critical" ->
         IF Trusted(input) THEN Decision("network_priority", FALSE)
         ELSE IF input.tier = "mid" THEN Decision("nearby_priority", TRUE)
         ELSE IF Strong(input) THEN Decision("network_priority", FALSE)
         ELSE Decision("nearby_only", TRUE)
      [] input.severity # "critical" -> Decision("nearby_only", FALSE)

(* A report of a reporter who may be heard, by its severity.               *)
BySeverity(input) ==
    CASE input.severity = "critical" ->
         IF Trusted(input) \/ Strong(input) THEN Decision("network_priority", FALSE)
         ELSE IF input.tier = "mid" \/ Moderate(input) THEN Decision("nearby_priority", TRUE)
         ELSE Decision("nearby_only", TRUE)
      [] input.severity = "high" ->
         IF Trusted(input) \/ Moderate(input) THEN Decision("nearby_push", FALSE)
         ELSE Decision("nearby_only", TRUE)
      [] input.severity = "medium" ->
         IF Trusted(input) \/ Moderate(input) THEN Decision("map_and_feed", FALSE)
         ELSE Decision("nearby_only", FALSE)
      [] input.severity = "low" -> Decision("feed_only", FALSE)

(* buildDistributionDecision: who sees a report, and whether a reviewer    *)
(* must look at it.  A report has one of the four severities, so what the  *)
(* code has for the others is never reached.                               *)
Distribution(input) ==
    IF input.level = "ban" THEN Decision("none", TRUE)
    ELSE IF \/ input.level = "shadow_restriction"
            \/ input.level = "temporary_restriction" /\ input.running
      THEN Decision("nearby_only", TRUE)
    ELSE IF input.severity # "low" /\ input.recent >= 4 THEN Decision("nearby_only", TRUE)
    ELSE BySeverity(input)
=============================================================================
