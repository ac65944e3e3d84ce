---------------------------- MODULE LocationQueue ----------------------------
(***************************************************************************)
(* The upload of an alert's locations: the buffer, the pending batches and *)
(* the flush of location.ts, against LocationsService.ingest.              *)
(*                                                                         *)
(* JavaScript runs a function to its first await, and the only await that  *)
(* lets anything else run here is the upload: a flush is one step up to    *)
(* the request and one from its answer.  All of it is in memory, so a      *)
(* restart begins again with Init.  A fix is named by the order in which   *)
(* it was taken; which fixes are worth taking is left out.                 *)
(***************************************************************************)
EXTENDS Naturals, Sequences, SequencesExt, Slices

CONSTANTS NumSessions,  \* bound on the sessions, which follow one another
          MaxFixes,     \* bound on the fixes taken
          MaxFailures,  \* bound on the uploads that fail
          MaxBuffer,    \* MAX_BUFFER_SIZE
          MaxBatches    \* the cap on pendingUploadBatches, 12 in the code

VARIABLES session,   \* activeSession.sessionId of the store, or 0
          last,      \* the last session there was
          buffer,    \* bufferedLocations
          batches,   \* pendingUploadBatches
          flight,    \* the upload under way (flushInFlight)
          timer,     \* flushTimeout is set
          takenIn,   \* history: the session in which each fix was taken, in order
          uploaded,  \* location_logs
          failures

vars == << session, last, buffer, batches, flight, timer, takenIn, uploaded, failures >>

-----------------------------------------------------------------------------
Fixes == 1..MaxFixes
Sessions == 1..NumSessions
taken == Len(takenIn)

NoFlight == [session |-> 0, payload |-> << >>]

(* compactLocationUploads: a Map keeps the place of the first of equals.   *)
Compact(s) == Filter(s, {i \in DOMAIN s : \A k \in 1..(i - 1) : s[k] # s[i]})

PutBy(s) == Filter(batches, {i \in DOMAIN batches : batches[i].session = s})
Others(s) == Filter(batches, {i \in DOMAIN batches : batches[i].session # s})
PutByFixes(s) == FlattenSeq([i \in 1..Len(PutBy(s)) |-> PutBy(s)[i].fixes])

Init ==
    /\ session = 0 /\ last = 0
    /\ buffer = << >> /\ batches = << >> /\ flight = NoFlight /\ timer = FALSE
    /\ takenIn = << >> /\ uploaded = {} /\ failures = 0

-----------------------------------------------------------------------------
(* Fault: what is under way counts as sent, and the new fixes are dropped. *)
FlushBlind(s, buffered) ==
    /\ buffer' = << >>
    /\ IF s = 0 \/ flight # NoFlight
         THEN UNCHANGED << batches, flight >>
         ELSE LET payload == LastOf(Compact(PutByFixes(s) \o buffered), 4 * MaxBuffer)
              IN  /\ batches' = IF Others(s) # << >> THEN Others(s) ELSE batches
                  /\ flight' = IF payload = << >> THEN NoFlight
                               ELSE [session |-> s, payload |-> payload]

(* flushLocationBuffer to its request, for session s and the buffer as it  *)
(* is by then.  The batches of the session are taken out of the queue only *)
(* when it holds another session's as well.                                *)
Flush(s, buffered) ==
    IF flight # NoFlight
      THEN buffer' = buffered /\ UNCHANGED << batches, flight >>
      ELSE /\ buffer' = << >>
           /\ IF s = 0
                THEN UNCHANGED << batches, flight >>
                ELSE LET payload == LastOf(Compact(PutByFixes(s) \o buffered), 4 * MaxBuffer)
                     IN  /\ batches' = IF Others(s) # << >> THEN Others(s) ELSE batches
                         /\ flight' = IF payload = << >> THEN NoFlight
                                      ELSE [session |-> s, payload |-> payload]

(* queueLocationUpload: a fix of the foreground watch, or one of the       *)
(* background task, which forces a flush.                                  *)
Take(force) ==
    /\ session # 0 /\ taken < MaxFixes
    /\ takenIn' = Append(takenIn, session)
    /\ LET buffered == LastOf(Append(buffer, taken + 1), 2 * MaxBuffer) IN
       IF force \/ Len(buffered) >= MaxBuffer
         THEN Flush(session, buffered) /\ timer' = FALSE
         ELSE buffer' = buffered /\ timer' = TRUE /\ UNCHANGED << batches, flight >>
    /\ UNCHANGED << session, last, uploaded, failures >>

(* BUFFER_FLUSH_MS have passed.                                            *)
TimerFires ==
    /\ timer /\ timer' = FALSE
    /\ Flush(session, buffer)
    /\ UNCHANGED << session, last, takenIn, uploaded, failures >>

(* LocationsService.ingest inserts what it is sent, and the answer comes.  *)
UploadSucceeds ==
    /\ flight # NoFlight
    /\ uploaded' = uploaded \cup {[session |-> flight.session, fix |-> f] : f \in ToSet(flight.payload)}
    /\ flight' = NoFlight
    /\ UNCHANGED << session, last, buffer, batches, timer, takenIn, failures >>

(* Fault: the catch block does not set the timer again.                    *)
PutBackOnly ==
    /\ buffer' = LastOf(flight.payload \o buffer, 2 * MaxBuffer)
    /\ batches' = LastOf(Append(batches, [session |-> flight.session, fixes |-> flight.payload]),
                         MaxBatches)
    /\ flight' = NoFlight
    /\ UNCHANGED timer

(* The catch block: what was sent goes to the buffer and to a batch.       *)
PutBack ==
    /\ buffer' = LastOf(flight.payload \o buffer, 2 * MaxBuffer)
    /\ batches' = LastOf(Append(batches, [session |-> flight.session, fixes |-> flight.payload]),
                         MaxBatches)
    /\ flight' = NoFlight
    /\ timer' = TRUE

(* The upload fails; the server may have inserted it all the same.         *)
UploadFails ==
    /\ flight # NoFlight /\ failures < MaxFailures
    /\ failures' = failures + 1
    /\ \/ UNCHANGED uploaded
       \/ uploaded' = uploaded \cup
              {[session |-> flight.session, fix |-> f] : f \in ToSet(flight.payload)}
    /\ PutBack
    /\ UNCHANGED << session, last, takenIn >>

-----------------------------------------------------------------------------
(* The store.  The effect of the emergency screen that depends on the      *)
(* session is cleaned up with stopBackgroundTracking, which stops the      *)
(* timer and flushes for the session that is active by then.               *)

StartSession ==
    /\ session = 0 /\ last < NumSessions
    /\ session' = last + 1 /\ last' = last + 1
    /\ UNCHANGED << buffer, batches, flight, timer, takenIn, uploaded, failures >>

EndSession ==
    /\ session # 0
    /\ session' = 0
    /\ timer' = FALSE
    /\ Flush(0, buffer)
    /\ UNCHANGED << last, takenIn, uploaded, failures >>

(* The polled session is another one.                                      *)
SwitchSession ==
    /\ session # 0 /\ last < NumSessions
    /\ session' = last + 1 /\ last' = last + 1
    /\ timer' = FALSE
    /\ Flush(last + 1, buffer)
    /\ UNCHANGED << takenIn, uploaded, failures >>

Next ==
    \/ \E force \in BOOLEAN : Take(force)
    \/ TimerFires
    \/ UploadSucceeds \/ UploadFails
    \/ StartSession \/ EndSession \/ SwitchSession

Spec == Init /\ [][Next]_vars

(* The timer fires, and an upload ends one way or the other.               *)
FairSpec == Spec /\ WF_vars(TimerFires) /\ WF_vars(UploadSucceeds \/ UploadFails)

-----------------------------------------------------------------------------
(* The types and the caps: no request carries more than four times the     *)
(* buffer, twelve fixes in the code, of the hundred the server accepts.    *)
TypeOK ==
    /\ session \in {0} \cup Sessions /\ last \in {0} \cup Sessions /\ timer \in BOOLEAN
    /\ ToSet(buffer) \subseteq Fixes /\ Len(buffer) <= 2 * MaxBuffer
    /\ Len(batches) <= MaxBatches
    /\ \A i \in 1..Len(batches) : Len(batches[i].fixes) <= 4 * MaxBuffer
    /\ flight.session \in {0} \cup Sessions /\ Len(flight.payload) <= 4 * MaxBuffer
    /\ ToSet(takenIn) \subseteq Sessions
    /\ uploaded \subseteq [session : Sessions, fix : Fixes] /\ failures \in 0..MaxFailures

Displaced(f) == taken - f >= 2 * MaxBuffer
OnThePhone(f) == f \in ToSet(buffer) \cup ToSet(PutByFixes(session)) \cup ToSet(flight.payload)
Uploaded(f) == [session |-> takenIn[f], fix |-> f] \in uploaded
Waiting(f) ==
    /\ f <= taken /\ takenIn[f] = session
    /\ \E i \in 1..Len(batches) :
          batches[i].session = session /\ f \in ToSet(batches[i].fixes)
Settled(f) == f <= taken /\ (Uploaded(f) \/ takenIn[f] # session \/ Displaced(f))

(* While its session lasts, a fix is uploaded or waits on the phone, in    *)
(* the buffer, a batch or the upload under way, unless twice the buffer    *)
(* has been taken since: neither a failed upload nor a fix taken during an *)
(* upload loses it.                                                        *)
NothingForgotten ==
    \A f \in 1..taken :
        takenIn[f] = session => Uploaded(f) \/ OnThePhone(f) \/ Displaced(f)

(* A fix of a failed upload is uploaded in the end, if its session lasts   *)
(* and the server answers again: "Location capture is still running and    *)
(* will retry."                                                            *)
FailedIsRetried ==
    \A f \in Fixes : Waiting(f) ~> Settled(f)
=============================================================================
