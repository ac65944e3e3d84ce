------------------------------ MODULE MCProgress ------------------------------
(***************************************************************************)
(* Model-checking instance of the three parts that must get something      *)
(* through: the fan-out of an alert event to contacts                      *)
(* (NotificationFanout), the uploads of a session's locations              *)
(* (LocationQueue) and an organization's broadcasts (Broadcasts).  They    *)
(* have no variable and no table in common, so what holds of each alone    *)
(* holds of all together; a behaviour shows one of them, chosen by part.   *)
(***************************************************************************)
EXTENDS MCNotificationFanout

CONSTANTS NumSessions, MaxFixes, MaxUploadFailures, MaxBuffer, MaxBatches,
          Calls, Keys, Members, PoolSize, MaxFailures

ASSUME LocationAssumption ==
    /\ NumSessions \in Nat /\ MaxFixes \in Nat /\ MaxUploadFailures \in Nat
    /\ MaxBuffer \in Nat \ {0} /\ MaxBatches \in Nat \ {0}
ASSUME BroadcastAssumption ==
    IsFiniteSet(Calls) /\ PoolSize \in Nat \ {0} /\ MaxFailures \in Nat

VARIABLES part,
          session, last, buffer, batches, flight, timer, takenIn, uploaded, uploadFailures,
          at, key, alerts, deliveries, broadcastAudited, failures

Location == INSTANCE LocationQueue WITH
    MaxFailures <- MaxUploadFailures, failures <- uploadFailures
Broadcast == INSTANCE Broadcasts WITH audited <- broadcastAudited

locationVars ==
    << session, last, buffer, batches, flight, timer, takenIn, uploaded, uploadFailures >>
broadcastVars == << at, key, alerts, deliveries, broadcastAudited, failures >>

-----------------------------------------------------------------------------
AtFanout == part = "fanout"
AtLocation == part = "location"
AtBroadcast == part = "broadcast"

(* The keys are varied only where broadcasts are made.                     *)
ProgressInit ==
    /\ part \in {"fanout", "location", "broadcast"}
    /\ Init /\ Location!Init /\ Broadcast!Init
    /\ ~AtBroadcast => key = [c \in Calls |-> CHOOSE k \in Keys : TRUE]

FanoutNext ==
    /\ AtFanout /\ Next /\ UNCHANGED << part, locationVars, broadcastVars >>

LocationNext ==
    /\ AtLocation /\ Location!Next /\ UNCHANGED << part, vars, broadcastVars >>

BroadcastNext ==
    /\ AtBroadcast /\ Broadcast!Next /\ UNCHANGED << part, vars, locationVars >>

ProgressNext == FanoutNext \/ LocationNext \/ BroadcastNext

(* The fairness of each part, while it runs.                               *)
ProgressSpec ==
    /\ ProgressInit
    /\ [][ProgressNext]_<< part, vars, locationVars, broadcastVars >>
    /\ \A j \in Jobs : WF_vars(AtFanout /\ Work(j))
    /\ WF_locationVars(AtLocation /\ Location!TimerFires)
    /\ WF_locationVars(AtLocation /\ (Location!UploadSucceeds \/ Location!UploadFails))
    /\ \A c \in Calls : SF_broadcastVars(AtBroadcast /\ Broadcast!Proceed(c))

-----------------------------------------------------------------------------
(* The type invariants of all, with the starts BullMQ may make of a job    *)
(* and the caps of the phone's batches and of the server's pool.           *)
ProgressTypes == TypeOK /\ Location!TypeOK /\ Broadcast!TypeOK

(* Nothing is lost half-way.  No failed upload loses a fix of the session, *)
(* nor does a fix taken during one get lost, until twice the buffer has    *)
(* been taken since.  A broadcast exists once per dedupe key, with a       *)
(* delivery for each member and its audit row, though calls overlap and    *)
(* statements fail.                                                        *)
NothingIsLost == Location!NothingForgotten /\ Broadcast!BroadcastIsWhole

(* A fix whose upload failed is uploaded in the end, while the session     *)
(* lasts and the server answers again.                                     *)
FailedIsRetried == Location!FailedIsRetried

(* While the pool has a connection more than there are broadcasts under    *)
(* way, each is answered, although each takes two connections.             *)
BroadcastEnds == Broadcast!BroadcastEnds
=============================================================================
