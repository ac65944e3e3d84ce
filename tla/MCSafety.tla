------------------------------- MODULE MCSafety -------------------------------
(***************************************************************************)
(* Model-checking instance of the parts whose properties need no fairness: *)
(* the phone's fixes of a journey (JourneySync), emergency screens         *)
(* (EmergencyPhone) and passive detection (PassiveGuardian); phone codes   *)
(* (OtpChallenge); and of reports the standing of the reporter             *)
(* (ReporterStanding), the decision on their audience (ReportSpread) and   *)
(* their review (ReportReview).  They have no variable, no item of storage *)
(* and no table in common, so what holds of each alone holds of all        *)
(* together; a behaviour shows one of them, chosen by part.                *)
(***************************************************************************)
EXTENDS EmergencyPhone, FiniteSets, TLC

CONSTANTS Callbacks, NumJourneys, MaxFixes, Poor, MaxPending,
          Places, Zoned, Interval, MaxRuns, MaxTime,
          OtpCalls, MaxCodes, MaxAttempts,
          MaxReports, StandingQualities, Given, Silences,
          Confidences, SpreadQualities, MaxConfirmations, MaxRecent,
          ReviewReports, ReviewCalls, Others, NoReport

ASSUME JourneyAssumption ==
    /\ NumJourneys \in Nat /\ MaxFixes \in Nat /\ Poor \subseteq 1..MaxFixes
    /\ MaxPending \in Nat \ {0}
ASSUME GuardianAssumption ==
    /\ Zoned \subseteq Places /\ None \notin Places
    /\ Interval \in Nat \ {0} /\ MaxRuns \in Nat \ {0} /\ MaxTime \in Nat \ {0}
ASSUME OtpAssumption ==
    IsFiniteSet(OtpCalls) /\ MaxCodes \in Nat /\ MaxAttempts \in Nat \ {0}
ASSUME ReportAssumption ==
    /\ Given \subseteq {"validated", "action_taken"} /\ NoReport \notin ReviewReports
    /\ IsFiniteSet(ReviewCalls) /\ Others \in Nat
    /\ MaxReports \in Nat /\ StandingQualities \subseteq 0..100 /\ Silences \subseteq Nat
    /\ MaxConfirmations \in Nat /\ MaxRecent \in Nat

VARIABLES part,
          queue, fixCalls, discard, current, status, taken, recorded, owed,
          clock, home, place, watched, run, runs, heeded, ref, alarm,
          made, consumed, codesExpired, attempts, verification, accepted, rejected, spent,
          count, quality, corroborated, outcomes, months,
          input,
          class, confirmed, level, call

Journey == INSTANCE JourneySync WITH call <- fixCalls
Guardian == INSTANCE PassiveGuardian WITH
    Unknown <- None, Weight <- [p \in Places |-> IF p \in Zoned THEN 44 ELSE 0]
Otp == INSTANCE OtpChallenge WITH
    Calls <- OtpCalls, expired <- codesExpired, call <- verification
Standing == INSTANCE ReporterStanding WITH Qualities <- StandingQualities
Spread == INSTANCE ReportSpread WITH Qualities <- SpreadQualities
Review == INSTANCE ReportReview WITH Reports <- ReviewReports, Calls <- ReviewCalls

journeyVars == << queue, fixCalls, discard, current, status, taken, recorded, owed >>
guardianVars == << clock, home, place, watched, run, runs, heeded, ref, alarm >>
otpVars ==
    << made, consumed, codesExpired, attempts, verification, accepted, rejected, spent >>
standingVars == << count, quality, corroborated, outcomes, months >>
reviewVars == << class, confirmed, level, call >>

phoneVars == << journeyVars, vars, guardianVars, otpVars >>
reportVars == << standingVars, input, reviewVars >>

(* What is only compared for identity.  Alerts and reports may share their *)
(* values, since no behaviour shows both.                                  *)
ASSUME SharedValues == Alerts = ReviewReports
Interchangeable == Permutations(Alerts) \cup Permutations(ReviewCalls)

-----------------------------------------------------------------------------
(* The input of the decision is varied only where the decision is taken.   *)
SafetyInit ==
    /\ part \in {"journey", "emergency", "guardian", "otp", "standing", "spread", "review"}
    /\ Journey!Init /\ Init /\ Guardian!Init /\ Otp!Init
    /\ Standing!Init /\ Spread!Init /\ Review!Init
    /\ part # "spread" =>
          input = CHOOSE in \in Spread!Inputs : in.corroborations = 0 /\ in.level = "none"
                                                /\ ~in.running

JourneyNext ==
    /\ part = "journey" /\ Journey!Next
    /\ UNCHANGED << part, vars, guardianVars, otpVars, reportVars >>

EmergencyNext ==
    /\ part = "emergency" /\ Next
    /\ UNCHANGED << part, journeyVars, guardianVars, otpVars, reportVars >>

GuardianNext ==
    /\ part = "guardian" /\ Guardian!Next
    /\ UNCHANGED << part, journeyVars, vars, otpVars, reportVars >>

OtpNext ==
    /\ part = "otp" /\ Otp!Next
    /\ UNCHANGED << part, journeyVars, vars, guardianVars, reportVars >>

StandingNext ==
    /\ part = "standing" /\ Standing!Next
    /\ UNCHANGED << part, phoneVars, input, reviewVars >>

SpreadNext ==
    /\ part = "spread" /\ Spread!Next
    /\ UNCHANGED << part, phoneVars, standingVars, reviewVars >>

ReviewNext ==
    /\ part = "review" /\ Review!Next
    /\ UNCHANGED << part, phoneVars, standingVars, input >>

SafetyNext ==
    \/ JourneyNext \/ EmergencyNext \/ GuardianNext \/ OtpNext
    \/ StandingNext \/ SpreadNext \/ ReviewNext

SafetySpec == SafetyInit /\ [][SafetyNext]_<< part, phoneVars, reportVars >>

-----------------------------------------------------------------------------
(* The type invariants of all, each where its part runs: no more fixes in  *)
(* storage than MAX_PENDING, one socket just while the emergency screen is *)
(* up, a score between 0 and 100, a decision for every input.              *)
SafetyTypes ==
    /\ part = "journey" => Journey!TypeOK
    /\ part = "emergency" => TypeOK
    /\ part = "guardian" => Guardian!TypeOK
    /\ part = "otp" => Otp!TypeOK
    /\ part = "standing" => Standing!TypeOK
    /\ part = "spread" => Spread!TypeOK
    /\ part = "review" => Review!TypeOK

(* A failed call of syncJourneyLocation loses no fix and no order: what it *)
(* set out to send is replayed, in the order taken and once, until it is   *)
(* recorded, its journey is over or MAX_PENDING later fixes displace it.   *)
FixesAreKept == Journey!NothingForgotten /\ Journey!QueueInOrder

(* A passive alert is asked for only where the phone is by then, with the  *)
(* watcher it has by then, and in a risk zone.                             *)
AlarmIsDue == Guardian!AlarmIsDue

(* A phone code spent before a call began never serves it, and one code    *)
(* links one number at most, however sign-ins and links interleave.        *)
CodesStaySpent == Otp!SpentStaysSpent /\ Otp!LinkedOnce

(* A reporter's standing is earned.  The tier that spares reports a review *)
(* takes four reports and a true one, a report found malicious never       *)
(* raises the score, and only a verdict on a report that had been judged   *)
(* eases a restriction.                                                    *)
StandingIsEarned ==
    /\ [](part = "standing" => Standing!HighTierIsEarned)
    /\ Standing!MaliciousNeverRaises /\ Standing!RestrictionNeverEases

(* What speaks for a report never narrows its audience, what speaks        *)
(* against it never widens it, and neither turns the need of a reviewer    *)
(* the wrong way.                                                          *)
SpreadIsMonotone == Spread!SupportNeverNarrows /\ Spread!DoubtNeverWidens

(* A final verdict is undone only by a reviewer or by a signal that had    *)
(* read the report before the verdict; later signals never do it.          *)
VerdictIsHeeded == Review!VerdictIsHeeded
=============================================================================
