------------------------------ MODULE Broadcasts ------------------------------
(***************************************************************************)
(* Broadcasts of one organization (OrganizationsService.createBroadcast)   *)
(* and the connections they need.  A broadcast is written in a transaction *)
(* that holds a connection of DbService's pool, and its audit row by       *)
(* recordAudit, which asks the pool for another one while the transaction  *)
(* is open.  The pool hands out a connection when it has one and lets the  *)
(* others wait, without a limit of time.                                   *)
(*                                                                         *)
(* The dedupe key of a broadcast is unique: whoever inserts a key that an  *)
(* open transaction has inserted waits for its end.                        *)
(***************************************************************************)
EXTENDS Naturals, FiniteSets

CONSTANTS Calls,      \* requests for a broadcast
          Keys,       \* their dedupe keys
          Members,    \* the active members of the organization
          PoolSize,   \* connections in the pool, 10 unless configured
          MaxFailures \* bound on the statements that fail

VARIABLES at,         \* how far each call has come
          key,        \* its dedupe key
          alerts,     \* the calls whose organization_alerts row is committed
          deliveries, \* committed alert_deliveries
          audited,    \* the calls whose organization_audit_logs row is committed
          failures

vars == << at, key, alerts, deliveries, audited, failures >>

-----------------------------------------------------------------------------
(* "connected": the transaction has its connection.  "inserted": the alert *)
(* and the deliveries are written and recordAudit waits for a connection.  *)
(* "auditing": it has one.                                                 *)
Stages == {"idle", "called", "connected", "inserted", "auditing", "audited", "sent", "failed"}

Holding(c) ==
    IF at[c] \in {"connected", "inserted", "audited"} THEN 1
    ELSE IF at[c] = "auditing" THEN 2 ELSE 0
Used == LET held(n) == Cardinality({c \in Calls : Holding(c) >= n}) IN held(1) + held(2)

(* Fault: one connection more.                                             *)
OneMore == Used <= PoolSize

Available == Used < PoolSize

(* Fault: the error path forgets the ROLLBACK.                             *)
WritingStill(c) == at[c] \in {"inserted", "auditing", "audited", "failed"}

(* The keys of open transactions, and of committed alerts.                 *)
Writing(c) == at[c] \in {"inserted", "auditing", "audited"}
KeyHeld(k) == \E c \in Calls : Writing(c) /\ key[c] = k
KeyTaken(k) == \E c \in alerts : key[c] = k

Init ==
    /\ at = [c \in Calls |-> "idle"]
    /\ key \in [Calls -> Keys]
    /\ alerts = {} /\ deliveries = {} /\ audited = {} /\ failures = 0

Goto(c, stage) == at' = [at EXCEPT ![c] = stage]

-----------------------------------------------------------------------------
(* requireMembership, whose connection is given back before anything else. *)
RequireMembership(c) ==
    /\ at[c] = "idle" /\ Available
    /\ Goto(c, "called")
    /\ UNCHANGED << key, alerts, deliveries, audited, failures >>

(* transaction: pool.connect and BEGIN.                                    *)
Connect(c) ==
    /\ at[c] = "called" /\ Available
    /\ Goto(c, "connected")
    /\ UNCHANGED << key, alerts, deliveries, audited, failures >>

(* The alert and a delivery per member; a key that is taken is an error.   *)
Insert(c) ==
    /\ at[c] = "connected" /\ ~KeyHeld(key[c])
    /\ Goto(c, IF KeyTaken(key[c]) THEN "failed" ELSE "inserted")
    /\ UNCHANGED << key, alerts, deliveries, audited, failures >>

(* recordAudit gets a connection from the pool.                            *)
AuditConnect(c) ==
    /\ at[c] = "inserted" /\ Available
    /\ Goto(c, "auditing")
    /\ UNCHANGED << key, alerts, deliveries, audited, failures >>

(* Its row is committed at once, and the connection given back.            *)
RecordAudit(c) ==
    /\ at[c] = "auditing"
    /\ audited' = audited \cup {c}
    /\ Goto(c, "audited")
    /\ UNCHANGED << key, alerts, deliveries, failures >>

(* A statement fails, or COMMIT does: ROLLBACK, and the connections go     *)
(* back to the pool.  The audit row stays.                                 *)
Fail(c) ==
    /\ at[c] \in {"connected", "auditing", "audited"} /\ failures < MaxFailures
    /\ failures' = failures + 1
    /\ Goto(c, "failed")
    /\ UNCHANGED << key, alerts, deliveries, audited >>

Commit(c) ==
    /\ at[c] = "audited"
    /\ alerts' = alerts \cup {c}
    /\ deliveries' = deliveries \cup {[call |-> c, to |-> m] : m \in Members}
    /\ Goto(c, "sent")
    /\ UNCHANGED << key, audited, failures >>

Proceed(c) ==
    Connect(c) \/ Insert(c) \/ AuditConnect(c) \/ RecordAudit(c) \/ Commit(c)

Next == \E c \in Calls : RequireMembership(c) \/ Proceed(c) \/ Fail(c)

Spec == Init /\ [][Next]_vars

(* The pool serves whoever waits in turn, and so does the lock of a key.   *)
(* A call waits for one thing at a time.                                   *)
FairSpec == Spec /\ \A c \in Calls : SF_vars(Proceed(c))

-----------------------------------------------------------------------------
(* The pool never hands out more connections than it has.                  *)
TypeOK ==
    /\ at \in [Calls -> Stages] /\ key \in [Calls -> Keys]
    /\ alerts \subseteq Calls /\ audited \subseteq Calls
    /\ deliveries \subseteq [call : Calls, to : Members]
    /\ failures \in 0..MaxFailures
    /\ Used <= PoolSize

(* A broadcast exists once per key, whole, with a delivery for each member *)
(* and with its audit row, though calls overlap and statements fail.       *)
BroadcastIsWhole ==
    /\ \A c, d \in alerts : key[c] = key[d] => c = d
    /\ \A c \in alerts : c \in audited /\ \A m \in Members : [call |-> c, to |-> m] \in deliveries
    /\ \A d \in deliveries : d.call \in alerts

(* Whoever asks for a broadcast is answered: "Creates an organization-wide *)
(* broadcast and fans it out to active members."                           *)
BroadcastEnds == \A c \in Calls : at[c] = "called" ~> at[c] \in {"sent", "failed"}
=============================================================================
