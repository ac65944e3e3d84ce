--------------------------- MODULE PassiveGuardian ---------------------------
(***************************************************************************)
(* Home's passive detection: runGuardianCheck, evaluateGuardianRisk and    *)
(* the score of the nearby safety mesh.                                    *)
(*                                                                         *)
(* The check is an effect of Home.  Every fix and every change of what     *)
(* else it depends on, here the watch session, runs it anew, and the run   *)
(* under way is then no longer heeded (its 'active' flag) but goes on.  A  *)
(* ref remembers when and where the last check was made, so that one place *)
(* is not checked twice within PASSIVE_GUARDIAN_CHECK_INTERVAL_MS; it is   *)
(* set before the network is asked, and lives as long as Home is mounted.  *)
(*                                                                         *)
(* Places are further apart than PASSIVE_GUARDIAN_CHECK_DISTANCE_M; which  *)
(* signals are cached of the devices nearby, and how fast the phone moves, *)
(* is left open: every score they can have is tried.                       *)
(***************************************************************************)
EXTENDS Integers

CONSTANTS Places,    \* where the phone may be
          Weight,    \* the heaviest risk zone at each place, 0 where there is none
          Unknown,   \* no fix yet
          Interval,  \* ticks between two checks of one place
          MaxRuns,   \* bound on the runs of the effect
          MaxTime    \* bound on the clock

VARIABLES clock,
          home,    \* Home is mounted
          place,   \* lastKnownLocation
          watched, \* activeWatchSession is set
          run,     \* the runs of the effect, in the order they were begun
          runs,    \* how many there have been
          heeded,  \* the one whose 'active' flag is set, 0 if none
          ref,     \* lastGuardianCheckRef
          alarm    \* history: the check that raised the last alarm of this mount

vars == << clock, home, place, watched, run, runs, heeded, ref, alarm >>

-----------------------------------------------------------------------------
(* getZoneWeight, getTimeScore                                             *)
Weights == {0, 12, 18, 22, 34, 44}
TimeScores == {0, 10, 18}

(* buildNearbySafetyMeshContext: the score of so many devices nearby of    *)
(* which so many are still, some of them close.                            *)
SuddenDivergence(motion, nearby, still) ==
    motion = "running" /\ nearby >= 2 /\ 5 * still >= 3 * nearby

CollectiveStillness(motion, nearby, still) ==
    motion = "stationary" /\ nearby >= 3 /\ 4 * still >= 3 * nearby

MeshScore(motion, nearby, still, close) ==
    LET score == (IF SuddenDivergence(motion, nearby, still) THEN 18 ELSE 0)
               + (IF CollectiveStillness(motion, nearby, still) THEN 12 ELSE 0)
               + (IF close >= 2 /\ motion = "running" THEN 8 ELSE 0)
    IN  IF score > 24 THEN 24 ELSE score

MeshScores ==
    LET motions == {"stationary", "walking", "running", "driving", "unknown"}
        counts == {c \in (0..4) \X (0..4) \X (0..4) : c[3] <= c[2] /\ c[2] <= c[1]}
    IN  {0} \cup {MeshScore(m, c[1], c[2], c[3]) : m \in motions, c \in counts}

(* evaluateGuardianRisk calls for a soft alert.                            *)
SoftAlert(check, time, mesh) ==
    Weight[check.place] + time + (IF check.watched THEN 0 ELSE 8) + mesh >= 56

-----------------------------------------------------------------------------
NoCheck == [since |-> 0, place |-> Unknown]
Over == [at |-> "over", since |-> 0, place |-> Unknown, watched |-> FALSE, last |-> NoCheck]

(* This place was checked less than an interval ago.                       *)
Fresh(last, now, p) == last # NoCheck /\ now - last.since < Interval /\ last.place = p

Init ==
    /\ clock = 1 /\ home = FALSE /\ ref = NoCheck /\ alarm = NoCheck
    /\ place = Unknown /\ watched = FALSE
    /\ run = [r \in 1..MaxRuns |-> Over] /\ runs = 0 /\ heeded = 0

(* The effect runs with the phone at p, and the last run is unheeded.  A   *)
(* place that was checked just now is left alone.                          *)
RunEffect(p, w, last) ==
    /\ runs < MaxRuns /\ runs' = runs + 1
    /\ heeded' = runs + 1
    /\ place' = p /\ watched' = w
    /\ run' = [run EXCEPT ![runs + 1] =
                IF p # Unknown /\ Fresh(last, clock, p) THEN Over
                ELSE [at |-> "permission", since |-> clock, place |-> p,
                      watched |-> w, last |-> last]]

(* setLastKnownLocation: the phone has moved, or stands where it stood.    *)
NewFix(p) ==
    /\ home /\ RunEffect(p, watched, ref)
    /\ UNCHANGED << clock, home, ref, alarm >>

(* A trusted watcher is found, or the watch session ends.                  *)
WatchChanges ==
    /\ home /\ RunEffect(place, ~watched, ref)
    /\ UNCHANGED << clock, home, ref, alarm >>

(* getAppPermissionSnapshot and, without a fix, getCurrentLocation.        *)
Permitted(r) ==
    /\ run[r].at = "permission"
    /\ \E p \in IF run[r].place = Unknown THEN Places ELSE {run[r].place} :
        IF Fresh(run[r].last, run[r].since, p)
          THEN run' = [run EXCEPT ![r] = Over] /\ UNCHANGED ref
          ELSE /\ ref' = [since |-> run[r].since, place |-> p]
               /\ run' = [run EXCEPT ![r].at = "scoring", ![r].place = p]
    /\ UNCHANGED << clock, home, place, watched, runs, heeded, alarm >>

(* Fault: the run goes on to createAlert although it is not heeded.        *)
AssessUnheeded(r) ==
    /\ run[r].at = "scoring"
    /\ \E time \in TimeScores, mesh \in MeshScores :
        IF SoftAlert(run[r], time, mesh)
          THEN /\ run' = [run EXCEPT ![r].at = "creating"]
               /\ alarm' = [since |-> run[r].since, place |-> run[r].place]
          ELSE run' = [run EXCEPT ![r] = Over] /\ UNCHANGED alarm
    /\ UNCHANGED << clock, home, place, watched, runs, heeded, ref >>

(* The risk zones and the mesh's signals have come.  A run that is heeded  *)
(* and finds the risk high enough asks the server for a passive alert.     *)
Assess(r) ==
    /\ run[r].at = "scoring"
    /\ \E time \in TimeScores, mesh \in MeshScores :
        IF r = heeded /\ SoftAlert(run[r], time, mesh)
          THEN /\ run' = [run EXCEPT ![r].at = "creating"]
               /\ alarm' = [since |-> run[r].since, place |-> run[r].place]
          ELSE run' = [run EXCEPT ![r] = Over] /\ UNCHANGED alarm
    /\ UNCHANGED << clock, home, place, watched, runs, heeded, ref >>

(* Permission is refused, or a request fails: the map surface stays quiet. *)
Quiet(r) ==
    /\ run[r].at # "over"
    /\ run' = [run EXCEPT ![r] = Over]
    /\ UNCHANGED << clock, home, place, watched, runs, heeded, ref, alarm >>

(* Home goes with its ref; what its runs still do has no effect.           *)
Unmount ==
    /\ home' = FALSE /\ ref' = NoCheck /\ alarm' = NoCheck /\ heeded' = 0
    /\ run' = [r \in 1..MaxRuns |-> Over]
    /\ UNCHANGED << clock, place, watched, runs >>

(* createAlert has answered: if it is still heeded the emergency screen    *)
(* takes Home's place.                                                     *)
Created(r) ==
    /\ run[r].at = "creating"
    /\ IF r = heeded THEN Unmount
       ELSE /\ run' = [run EXCEPT ![r] = Over]
            /\ UNCHANGED << clock, home, place, watched, runs, heeded, ref, alarm >>

(* The user turns to another screen, and comes back to Home.               *)
LeaveHome == home /\ Unmount

ComeHome ==
    /\ ~home /\ home' = TRUE
    /\ RunEffect(place, watched, NoCheck)
    /\ UNCHANGED << clock, ref, alarm >>

Tick ==
    /\ clock < MaxTime /\ clock' = clock + 1
    /\ UNCHANGED << home, place, watched, run, runs, heeded, ref, alarm >>

-----------------------------------------------------------------------------
Next ==
    \/ \E p \in Places : NewFix(p)
    \/ WatchChanges
    \/ \E r \in 1..MaxRuns : Permitted(r) \/ Assess(r) \/ Quiet(r) \/ Created(r)
    \/ LeaveHome \/ ComeHome \/ Tick

Spec == Init /\ [][Next]_vars

-----------------------------------------------------------------------------
TypeOK ==
    /\ clock \in 1..MaxTime /\ home \in BOOLEAN /\ watched \in BOOLEAN
    /\ place \in Places \cup {Unknown}
    /\ runs \in 0..MaxRuns /\ heeded \in 0..runs /\ (heeded # 0 => home)
    /\ \A c \in {ref, alarm} : c.since \in 0..clock /\ c.place \in Places \cup {Unknown}
    /\ \A r \in 1..MaxRuns :
        /\ run[r].at \in {"over", "permission", "scoring", "creating"}
        /\ run[r].at # "over" => home /\ r <= runs /\ run[r].since \in 1..clock

(* A passive alert is asked for only where the phone is, with the watcher  *)
(* it has, and in a risk zone: neither the hour nor the devices nearby     *)
(* raise one by themselves.                                                *)
AlarmIsDue ==
    [][\A r \in 1..MaxRuns :
        run[r].at = "scoring" /\ run'[r].at = "creating" =>
            /\ home /\ place \in {run[r].place, Unknown} /\ run[r].watched = watched
            /\ Weight[run[r].place] > 0]_vars
=============================================================================
