----------------------------- MODULE JourneySync -----------------------------
(***************************************************************************)
(* The phone's queue of Safe Arrival fixes: journey-sync.ts, the location  *)
(* callbacks that call it and the screen that discards it.                 *)
(*                                                                         *)
(* The queue is one encrypted item in storage.  syncJourneyLocation reads  *)
(* it, sends what it found and its own fix one request at a time, and      *)
(* writes the item anew; discardJourneyUpdates reads and writes it too.    *)
(* Nothing keeps two of these apart: every await lets another callback     *)
(* (foreground watch, background task, geofence task) run.                 *)
(*                                                                         *)
(* A fix is named by the order in which it was taken; recordedAt tells     *)
(* fixes apart in the code.  Whether a fix is near the destination is left *)
(* to the server, which may answer any fix with "arrived".                 *)
(***************************************************************************)
EXTENDS Naturals, Sequences, SequencesExt, Slices

CONSTANTS Callbacks,    \* calls of syncJourneyLocation that may overlap
          NumJourneys,  \* bound on the journeys the traveller starts in turn
          MaxFixes,     \* bound on the fixes taken
          Poor,         \* the fixes the server refuses: accuracy above 100 m
          MaxPending    \* MAX_PENDING

VARIABLES queue,      \* the item 'pending-journey-location-updates'
          call,       \* the calls of syncJourneyLocation
          discard,    \* the call of discardJourneyUpdates
          current,    \* the journey the phone is on (store or secure store), or 0
          status,     \* safety_journeys.status at the server
          taken,      \* fixes taken so far
          recorded,   \* history: the updates the server has recorded
          owed        \* history: the updates a call has set out to send and put by

vars == << queue, call, discard, current, status, taken, recorded, owed >>

-----------------------------------------------------------------------------
Journeys == 1..NumJourneys
Fixes == 1..MaxFixes
Updates == [journey : Journeys, fix : Fixes]

Idle == [at |-> "idle"]
NoDiscard == [at |-> "idle"]

Of(j, updates) == Filter(updates, {i \in DOMAIN updates : updates[i].journey = j})
Besides(j, updates) == Filter(updates, {i \in DOMAIN updates : updates[i].journey # j})

(* items.slice(-MAX_PENDING)                                               *)
Latest(s) == LastOf(s, MaxPending)

(* What a call sends: the journey's queued updates and its own fix, once.  *)
(* The stored queue holds no update twice, so only the fix can be a twin.  *)
Work(found, u) ==
    LET mine == Of(u.journey, found)
    IN  Latest(IF u \in ToSet(mine) THEN mine ELSE Append(mine, u))

WritePending(updates) == queue' = Latest(updates)

Init ==
    /\ queue = << >>
    /\ call = [c \in Callbacks |-> Idle]
    /\ discard = NoDiscard
    /\ current = 0
    /\ status = [j \in Journeys |-> "none"]
    /\ taken = 0
    /\ recorded = {}
    /\ owed = {}

-----------------------------------------------------------------------------
(* The screen: one journey after another; the form to start one is not     *)
(* shown while the last one is being put away.                             *)

StartJourney(j) ==
    /\ current = 0 /\ discard = NoDiscard
    /\ status[j] = "none" /\ \A i \in Journeys : i < j => status[i] # "none"
    /\ status' = [status EXCEPT ![j] = "active"]
    /\ current' = j
    /\ UNCHANGED << queue, call, discard, taken, recorded, owed >>

(* "I've arrived", "I'm safe" or "Cancel journey" has been accepted by the *)
(* server; the screen begins discardJourneyUpdates, whose read is here.    *)
EndJourney(j) ==
    /\ current = j /\ discard = NoDiscard
    /\ status[j] = "active"
    /\ status' = [status EXCEPT ![j] = "over"]
    /\ discard' = [at |-> "write", journey |-> j, found |-> queue]
    /\ UNCHANGED << queue, call, current, taken, recorded, owed >>

(* The write of discardJourneyUpdates, clearBackgroundJourney and          *)
(* setActiveJourney(null).                                                 *)
DiscardWrite ==
    /\ discard.at = "write"
    /\ WritePending(Besides(discard.journey, discard.found))
    /\ discard' = NoDiscard
    /\ current' = 0
    /\ UNCHANGED << call, status, taken, recorded, owed >>

(* The server's minute timer, of which the phone hears nothing.            *)
Expire(j) ==
    /\ status[j] = "active"
    /\ status' = [status EXCEPT ![j] = "over"]
    /\ UNCHANGED << queue, call, discard, current, taken, recorded, owed >>

-----------------------------------------------------------------------------
(* A callback fires with a new fix, or with the fix another callback was   *)
(* given, and calls syncJourneyLocation for the journey the phone is on.   *)
Capture(c) ==
    /\ call[c] = Idle /\ current # 0
    /\ \E f \in {taken, taken + 1} \cap Fixes :
        /\ taken' = f
        /\ call' = [call EXCEPT ![c] = [at |-> "read", own |-> [journey |-> current, fix |-> f]]]
    /\ UNCHANGED << queue, discard, current, status, recorded, owed >>

(* readPending has returned.                                               *)
Read(c) ==
    /\ call[c].at = "read"
    /\ LET u == call[c].own IN
       call' = [call EXCEPT ![c] = [at |-> "send", next |-> 1,
                                    work |-> Work(queue, u),
                                    other |-> Besides(u.journey, queue)]]
    /\ UNCHANGED << queue, discard, current, status, taken, recorded, owed >>

Sending(c) == call[c].work[call[c].next]

(* The call goes on to write the item; heard is what it then returns.      *)
GoWrite(c, keep, heard) ==
    [at |-> "write", keep |-> keep, heard |-> heard, tried |-> ToSet(call[c].work)]

(* Fault: a failed call keeps only what it has not sent yet.               *)
KeepUnsent(c) == call[c].other \o Tail(SubSeq(call[c].work, call[c].next, Len(call[c].work)))

(* What the catch block writes back: everything the call set out to send,  *)
(* what the server has accepted meanwhile included.                        *)
KeepAll(c) == call[c].other \o call[c].work

(* recordLocation at the server, which may find that the traveller is      *)
(* there; its answer reaches the phone.                                    *)
Accepted(c) ==
    /\ call[c].at = "send"
    /\ LET u == Sending(c) IN
       /\ status[u.journey] = "active" /\ u.fix \notin Poor
       /\ recorded' = recorded \cup {u}
       /\ \E answer \in {"active", "over"} :
            /\ status' = [status EXCEPT ![u.journey] = answer]
            /\ call' = [call EXCEPT ![c] =
                  IF answer = "over" \/ @.next = Len(@.work)
                    THEN GoWrite(c, @.other, answer)
                    ELSE [@ EXCEPT !.next = call[c].next + 1]]
    /\ UNCHANGED << queue, discard, current, taken, owed >>

(* The server has recorded the fix; its answer is lost.                    *)
AnswerLost(c) ==
    /\ call[c].at = "send"
    /\ LET u == Sending(c) IN
       /\ status[u.journey] = "active" /\ u.fix \notin Poor
       /\ recorded' = recorded \cup {u}
       /\ \E answer \in {"active", "over"} : status' = [status EXCEPT ![u.journey] = answer]
    /\ call' = [call EXCEPT ![c] = GoWrite(c, KeepAll(c), "nothing")]
    /\ UNCHANGED << queue, discard, current, taken, owed >>

(* No connection, or a 400 for a poor fix, or a 404 for a journey that is  *)
(* over: recordJourneyLocation throws.                                     *)
Fails(c) ==
    /\ call[c].at = "send"
    /\ call' = [call EXCEPT ![c] = GoWrite(c, KeepAll(c), "nothing")]
    /\ UNCHANGED << queue, discard, current, status, taken, recorded, owed >>

(* writePending has returned.                                              *)
Write(c) ==
    /\ call[c].at = "write"
    /\ WritePending(call[c].keep)
    /\ call' = [call EXCEPT ![c] = [at |-> "return", heard |-> @.heard]]
    /\ owed' = IF call[c].heard = "nothing" THEN owed \cup call[c].tried ELSE owed
    /\ UNCHANGED << discard, current, status, taken, recorded >>

(* The callback's continuation: an answer that is not 'active' clears the  *)
(* journey the phone is on, whichever that is by now.                      *)
Return(c) ==
    /\ call[c].at = "return"
    /\ current' = IF call[c].heard = "over" THEN 0 ELSE current
    /\ call' = [call EXCEPT ![c] = Idle]
    /\ UNCHANGED << queue, discard, status, taken, recorded, owed >>

(* The system ends the application; the stored item survives, and so does  *)
(* the journey, in secure storage.                                         *)
Killed ==
    /\ call' = [c \in Callbacks |-> Idle]
    /\ discard' = NoDiscard
    /\ UNCHANGED << queue, current, status, taken, recorded, owed >>

Next ==
    \/ \E j \in Journeys : StartJourney(j) \/ EndJourney(j) \/ Expire(j)
    \/ \E c \in Callbacks :
          \/ Capture(c) \/ Read(c)
          \/ Accepted(c) \/ AnswerLost(c) \/ Fails(c)
          \/ Write(c) \/ Return(c)
    \/ DiscardWrite
    \/ Killed

Spec == Init /\ [][Next]_vars

-----------------------------------------------------------------------------
(* The item in storage never holds more than MAX_PENDING updates.          *)
TypeOK ==
    /\ queue \in Seq(Updates) /\ Len(queue) <= MaxPending
    /\ DOMAIN call = Callbacks
    /\ \A c \in Callbacks : call[c].at \in {"idle", "read", "send", "write", "return"}
    /\ discard.at \in {"idle", "write"}
    /\ current \in {0} \cup Journeys
    /\ status \in [Journeys -> {"none", "active", "over"}]
    /\ taken \in 0..MaxFixes
    /\ recorded \subseteq Updates /\ owed \subseteq Updates

(* The updates of a failed call are retried until the server records it, its   *)
(* journey is over, or MAX_PENDING later fixes have taken its place: the   *)
(* promise of "a later location callback retries" in location.ts.          *)
NothingForgotten ==
    \A u \in owed :
        \/ u \in recorded \cup ToSet(queue)
        \/ status[u.journey] = "over"
        \/ taken - u.fix >= MaxPending

(* The queue is replayed in the order in which the fixes were taken, none  *)
(* of them twice, however often calls fail, are killed or see a fix again. *)
QueueInOrder ==
    \A i, k \in 1..Len(queue) :
        i < k => queue[i].fix <= queue[k].fix /\ queue[i] # queue[k]
=============================================================================
