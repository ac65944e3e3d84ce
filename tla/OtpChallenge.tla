----------------------------- MODULE OtpChallenge -----------------------------
(***************************************************************************)
(* The one-time codes of one phone number: createPhoneChallenge, and the   *)
(* two ways AuthService verifies a code.  Signing in (verifyPhoneCode, and *)
(* verifyEmailCode for an address) reads the newest challenge without a    *)
(* lock; linking the number (verifyPhoneLink) reads it FOR UPDATE.         *)
(*                                                                         *)
(* Challenges are numbered in the order of their insertion and each has a  *)
(* code of its own.  A challenge that is requested while a call waits for  *)
(* a lock counts as requested before the call.                             *)
(***************************************************************************)
EXTENDS Naturals, FiniteSets

CONSTANTS Calls,       \* identities of verification requests
          MaxCodes,    \* bound on the challenges requested
          MaxAttempts  \* the number of attempts a challenge stands, 5 in the code

VARIABLES made,      \* the number of challenges inserted
          consumed,  \* the challenges whose consumed_at is set
          expired,   \* the challenges whose expires_at has passed
          attempts,  \* the column attempts of each challenge
          call,      \* the verification requests
          accepted,  \* history: the calls that have been answered with success
          rejected,  \* history: how often each challenge was tried with a wrong code
          spent      \* history: what was consumed when each call began

table == << made, consumed, expired, attempts >>
vars == << made, consumed, expired, attempts, call, accepted, rejected, spent >>

-----------------------------------------------------------------------------
Codes == 1..MaxCodes
Hows == {"signin", "link"}
NoCall == [at |-> "idle", how |-> "signin", code |-> 0, found |-> 0]

Open(i) == i <= made /\ i \notin consumed \cup expired /\ attempts[i] < MaxAttempts

(* order by created_at desc limit 1; 0 when there is none                  *)
Newest ==
    IF \E i \in Codes : Open(i)
      THEN CHOOSE i \in Codes : Open(i) /\ \A k \in Codes : Open(k) => k <= i
      ELSE 0

(* Linking holds the row of its challenge from its SELECT on.              *)
Holds(c) == IF call[c].how = "link" /\ call[c].at = "found" THEN call[c].found ELSE 0
FreeFor(c, i) == \A d \in Calls \ {c} : i = 0 \/ Holds(d) # i

Init ==
    /\ made = 0 /\ consumed = {} /\ expired = {}
    /\ attempts = [i \in Codes |-> 0]
    /\ call = [c \in Calls |-> NoCall]
    /\ accepted = {}
    /\ rejected = [i \in Codes |-> 0]
    /\ spent = [c \in Calls |-> {}]

-----------------------------------------------------------------------------
(* requestOtp and requestPhoneLink.                                        *)
CreatePhoneChallenge ==
    /\ made < MaxCodes
    /\ made' = made + 1
    /\ UNCHANGED << consumed, expired, attempts, call, accepted, rejected, spent >>

Expire(i) ==
    /\ i <= made /\ i \notin expired
    /\ expired' = expired \cup {i}
    /\ UNCHANGED << made, consumed, attempts, call, accepted, rejected, spent >>

(* A code is sent to the server: the one of a challenge, or 0 for another. *)
Submit(c, how, code) ==
    /\ call[c].at = "idle" /\ made > 0 /\ code <= made
    /\ call' = [call EXCEPT ![c] = [at |-> "sent", how |-> how, code |-> code, found |-> 0]]
    /\ spent' = [spent EXCEPT ![c] = consumed]
    /\ UNCHANGED << table, accepted, rejected >>

(* Fault: linking reads without FOR UPDATE, as signing in does.            *)
SelectUnlocked(c) ==
    /\ call[c].at = "sent"
    /\ call' = [call EXCEPT ![c].at = "read", ![c].found = Newest]
    /\ UNCHANGED << table, accepted, rejected, spent >>

(* The SELECT: linking waits for the row, signing in does not.             *)
Select(c) ==
    /\ call[c].at = "sent"
    /\ call[c].how = "link" => FreeFor(c, Newest)
    /\ call' = [call EXCEPT ![c].at = "found", ![c].found = Newest]
    /\ UNCHANGED << table, accepted, rejected, spent >>

(* The code is right: the challenge is consumed, whoever else has consumed *)
(* it since it was read, and the transaction commits.                      *)
Consume(c) ==
    LET i == call[c].found IN
    /\ call[c].at \in {"read", "found"} /\ i # 0 /\ call[c].code = i
    /\ FreeFor(c, i)
    /\ consumed' = consumed \cup {i}
    /\ accepted' = accepted \cup {c}
    /\ call' = [call EXCEPT ![c].at = "accepted"]
    /\ UNCHANGED << made, expired, attempts, rejected, spent >>

(* The code is wrong, or there is no challenge.  The attempt is counted in *)
(* the transaction that the exception then rolls back.                     *)
Reject(c) ==
    LET i == call[c].found IN
    /\ call[c].at \in {"read", "found"} /\ (i = 0 \/ call[c].code # i)
    /\ FreeFor(c, i)
    /\ rejected' = IF i = 0 THEN rejected
                   ELSE [rejected EXCEPT ![i] = @ + 1]
    /\ call' = [call EXCEPT ![c].at = "rejected"]
    /\ UNCHANGED << table, accepted, spent >>

Next ==
    \/ CreatePhoneChallenge
    \/ \E i \in Codes : Expire(i)
    \/ \E c \in Calls :
        \/ \E how \in Hows, code \in 0..MaxCodes : Submit(c, how, code)
        \/ Select(c) \/ Consume(c) \/ Reject(c)

Spec == Init /\ [][Next]_vars

-----------------------------------------------------------------------------
TypeOK ==
    /\ made \in 0..MaxCodes /\ consumed \subseteq 1..made /\ expired \subseteq 1..made
    /\ attempts \in [Codes -> 0..MaxAttempts]
    /\ call \in [Calls -> [at : {"idle", "sent", "read", "found", "accepted", "rejected"},
                           how : Hows, code : 0..MaxCodes, found : 0..MaxCodes]]
    /\ accepted \subseteq Calls
    /\ rejected \in [Codes -> 0..Cardinality(Calls)]
    /\ spent \in [Calls -> SUBSET Codes]

(* Of the calls that link a number, one at most succeeds with a code,      *)
(* however they interleave with each other and with sign-ins.              *)
LinkedOnce ==
    \A c, d \in accepted :
        call[c].how = "link" /\ call[d].how = "link" /\ call[c].code = call[d].code => c = d

(* A code that was spent before a call began never serves it, though later *)
(* challenges come, expire and are consumed in between.                    *)
SpentStaysSpent == \A c \in accepted : call[c].code \notin spent[c]

(* "phone verification query enforces expiry, attempt limit, and consumed  *)
(* state": after as many wrong codes a challenge can no longer be used.    *)
AttemptsCount == \A i \in Codes : rejected[i] >= MaxAttempts => ~Open(i)

(* "Phone authentication uses a one-time code": it lets one call in.       *)
OneTimeCode == \A c, d \in accepted : call[c].code = call[d].code => c = d
=============================================================================
