----------------------------- MODULE ReportReview -----------------------------
(***************************************************************************)
(* The reports of one user, filed, confirmed, flagged and judged at the    *)
(* same time, and the restriction that follows from them: the transactions *)
(* of ReportsService.create, confirm and flag and of                       *)
(* AdminService.classifyReport over credibility.logic.js.                  *)
(*                                                                         *)
(* A transaction is READ COMMITTED and one step per statement that meets   *)
(* another one: it sees what is committed and what it has written itself,  *)
(* and holds the rows it has written until its end.  No other user's       *)
(* report is nearby (one would count like a confirmation), the reports'    *)
(* quality is poor and no machine vouches for them.                        *)
(***************************************************************************)
EXTENDS Credibility, FiniteSets

CONSTANTS Reports, Calls,
          Others,     \* how many other users there are, who may each confirm a report
          NoReport

VARIABLES class,      \* report_classifications; "none" until the report is filed
          confirmed,  \* the rows of report_confirmations
          level,      \* the profile's restriction_level
          call        \* the transactions

vars == << class, confirmed, level, call >>

-----------------------------------------------------------------------------
Final == {"confirmed_true", "false", "malicious"}
Unset == "none"

Idle == [step |-> "idle", kind |-> "signal", report |-> NoReport, read |-> Unset,
         next |-> Unset, confirms |-> 0, level |-> "none"]

(* What a transaction has under way to a report's row, and who has.        *)
Wrote(c, r) == call[c].report = r /\ call[c].step \in {"written", "counted", "scored", "done"}
RowFree(r) == \A c \in Calls : ~Wrote(c, r)
ProfileFree == \A c \in Calls : call[c].step \notin {"scored", "done"}

(* Those who have confirmed it, or are at it.                              *)
Confirming(r) ==
    confirmed[r] + Cardinality({c \in Calls : call[c].report = r /\ call[c].confirms = 1})

Begin(c, kind, r, read, next, confirms, step) ==
    call' = [call EXCEPT ![c] = [Idle EXCEPT !.step = step, !.kind = kind, !.report = r,
                                 !.read = read, !.next = next, !.confirms = confirms]]

(* refreshReportSignals: what is final stays.                              *)
Derive(existing, confirmations) ==
    IF existing \in Final THEN existing
    ELSE InitialClassification([corroborations |-> confirmations, confidence |-> 0,
                                quality |-> 0])

Init ==
    /\ class = [r \in Reports |-> Unset]
    /\ confirmed = [r \in Reports |-> 0]
    /\ level = "none"
    /\ call = [c \in Calls |-> Idle]

-----------------------------------------------------------------------------
(* create: the profile is looked at, the report and its class inserted.    *)
Create(c, r) ==
    /\ call[c] = Idle
    /\ class[r] = Unset /\ RowFree(r)
    /\ level # "ban"
    /\ Begin(c, "create", r, Unset, Derive(Unset, 0), 0, "written")
    /\ UNCHANGED << class, confirmed, level >>

(* Fault: a signal is taken for all that counts.                           *)
SignalAfresh(c, r, confirms) ==
    /\ call[c] = Idle
    /\ class[r] # Unset
    /\ Confirming(r) + confirms <= Others
    /\ Begin(c, "signal", r, class[r], Derive(Unset, confirmed[r] + confirms), confirms, "read")
    /\ UNCHANGED << class, confirmed, level >>

(* confirm and flag: the row is inserted and the report's signals read.  A *)
(* flag confirms nothing, and nor does one who has confirmed before.       *)
Signal(c, r, confirms) ==
    /\ call[c] = Idle
    /\ class[r] # Unset
    /\ Confirming(r) + confirms <= Others
    /\ Begin(c, "signal", r, class[r], Derive(class[r], confirmed[r] + confirms), confirms, "read")
    /\ UNCHANGED << class, confirmed, level >>

(* classifyReport: the report is read, and the verdict is what is written. *)
Classify(c, r, verdict) ==
    /\ call[c] = Idle
    /\ class[r] # Unset
    /\ Begin(c, "verdict", r, class[r], verdict, 0, "read")
    /\ UNCHANGED << class, confirmed, level >>

(* upsertReportClassification waits for the row, and writes what was       *)
(* decided before.                                                         *)
Write(c) ==
    /\ call[c].step = "read" /\ RowFree(call[c].report)
    /\ call' = [call EXCEPT ![c].step = "written"]
    /\ UNCHANGED << class, confirmed, level >>

-----------------------------------------------------------------------------
(* refreshCredibilityProfile. *)

(* A report as this transaction sees it.                                   *)
Seen(c, r) == IF Wrote(c, r) THEN call[c].next ELSE class[r]

Tally(rows) ==
    LET of(classes) == {r \in Reports : rows[r] \in classes}
    IN  [malicious |-> Cardinality(of({"malicious"})), false |-> Cardinality(of({"false"}))]

Count(c) ==
    /\ call[c].step = "written"
    /\ call' = [call EXCEPT ![c].step = "counted",
                    ![c].level = RestrictionLevel(Tally([r \in Reports |-> Seen(c, r)]))]
    /\ UNCHANGED << class, confirmed, level >>

(* The profile's upsert waits for its row, with the counts taken before.   *)
WriteProfile(c) ==
    /\ call[c].step = "counted" /\ ProfileFree
    /\ call' = [call EXCEPT ![c].step = "scored"]
    /\ UNCHANGED << class, confirmed, level >>

-----------------------------------------------------------------------------
(* After a verdict the signals are read again, the verdict among them: one *)
(* that is not final gives way to what they say.                           *)
Rederive(c) ==
    /\ call[c].step = "scored" /\ call[c].kind = "verdict"
    /\ call' = [call EXCEPT ![c].step = "done",
                            ![c].next = Derive(@, confirmed[call[c].report])]
    /\ UNCHANGED << class, confirmed, level >>

Commit(c) ==
    LET r == call[c].report IN
    /\ call[c].step = IF call[c].kind = "verdict" THEN "done" ELSE "scored"
    /\ class' = [class EXCEPT ![r] = call[c].next]
    /\ confirmed' = [confirmed EXCEPT ![r] = @ + call[c].confirms]
    /\ level' = call[c].level
    /\ call' = [call EXCEPT ![c] = Idle]

(* A statement fails or the server stops: nothing is written.              *)
RollBack(c) ==
    /\ call[c] # Idle
    /\ call' = [call EXCEPT ![c] = Idle]
    /\ UNCHANGED << class, confirmed, level >>

Next ==
    \E c \in Calls :
        \/ \E r \in Reports :
            \/ Create(c, r)
            \/ \E confirms \in 0..1 : Signal(c, r, confirms)
            \/ \E verdict \in Classes : Classify(c, r, verdict)
        \/ Write(c) \/ Count(c) \/ WriteProfile(c) \/ Rederive(c) \/ Commit(c) \/ RollBack(c)

Spec == Init /\ [][Next]_vars

-----------------------------------------------------------------------------
TypeOK ==
    /\ class \in [Reports -> Classes \cup {Unset}]
    /\ confirmed \in [Reports -> 0..Others]
    /\ level \in Levels
    /\ call \in [Calls -> [step : {"idle", "read", "written", "counted", "scored", "done"},
                           kind : {"create", "signal", "verdict"},
                           report : Reports \cup {NoReport},
                           read : Classes \cup {Unset}, next : Classes \cup {Unset},
                           confirms : 0..1, level : Levels]]

AtRest == \A c \in Calls : call[c] = Idle

(* The restriction of the profile is the one the classifications call for: *)
(* "shadow_restriction (2+ malicious OR 5+ false reports)" and so on.  It  *)
(* holds when one transaction runs at a time, roll-backs included.         *)
RestrictionMatches == AtRest => level = RestrictionLevel(Tally(class))

(* What a reviewer has said for good is undone only by a reviewer, or by a *)
(* confirmation or flag that had read the report before that was said; no  *)
(* number of signals that come later does it.                              *)
VerdictIsHeeded ==
    [][\A r \in Reports :
         class[r] \in Final /\ class'[r] # class[r] =>
            \E c \in Calls : /\ call[c].report = r /\ call'[c] = Idle
                             /\ call[c].kind = "verdict" \/ call[c].read # class[r]]_vars
=============================================================================
