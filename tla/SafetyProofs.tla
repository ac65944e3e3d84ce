------------------------------ MODULE SafetyProofs ------------------------------
(*****************************************************************************)
(* Proofs about MCSafety, for every value of its constants: each of its      *)
(* invariants and action properties, and the types of all its parts.         *)
(*                                                                           *)
(* A behaviour of MCSafety shows one part, and a step of another leaves the  *)
(* part's variables alone.  Each part has an inductive invariant of its own  *)
(* over them (EmergencyInv, StandingInv, ReviewInv, OtpInv, GuardianInv,     *)
(* JourneyTypes and JourneyInv), shown for the part's own steps and then     *)
(* for the specification: a step of MCSafety is one of the part's or none.   *)
(* In order: the emergency screens, the three parts about reports, the       *)
(* one-time codes, passive detection and the journey's fixes.                *)
(*                                                                           *)
(* That no fix of a journey is forgotten is shown for callbacks that run     *)
(* one at a time (Alone); with two of them it is false.                      *)
(*****************************************************************************)
EXTENDS MCSafety, SliceProofs

-----------------------------------------------------------------------------
(* The emergency screens: EmergencyPhone.                                  *)

RequestSet ==
    [at : {"idle", "sent", "answered", "failed"}, id : Alerts \cup {None}, heeded : BOOLEAN]

(* What the screen shows, or a request is about, the server knows; the     *)
(* server answers a request for an alert with one; and a cancellation is   *)
(* of one.                                                                 *)
KnownAlerts ==
    /\ shown # None => alert[shown] # "none"
    /\ \A k \in Kinds : request[k].id # None => alert[request[k].id] # "none"
    /\ \A k \in {"press", "safety", "check"} :
        request[k].at = "answered" => request[k].id # None
    /\ request["cancel"].at = "sent" => request["cancel"].id # None

(* What the screen let go of when it was over stays over.                  *)
DismissedIsOver == \A a \in dismissed : alert[a] = "over"

(* Home's request is heeded only while no session is shown: any other      *)
(* screen has run the cleanup of its effect.                               *)
SyncIsOfHome ==
    request["sync"].at \in {"sent", "answered"} /\ request["sync"].heeded => shown = None

(* A read that is heeded does not answer with an alert that was over when  *)
(* the screen let go of it.                                                *)
ReadsAreFresh ==
    \A k \in {"sync", "poll"} :
        request[k].at = "answered" /\ request[k].heeded => request[k].id \notin dismissed

EmergencyInv ==
    /\ TypeOK /\ RoomFollowsScreen
    /\ KnownAlerts /\ DismissedIsOver /\ SyncIsOfHome /\ ReadsAreFresh

-----------------------------------------------------------------------------
(* The requests after one of them is done and the cleanups have run.       *)
LEMMA DoneWeakens ==
    ASSUME request \in [Kinds -> RequestSet], NEW k, NEW ks, Done(k, ks)
    PROVE  /\ request' \in [Kinds -> RequestSet]
           /\ \A j \in Kinds :
                /\ (request'[j] = NoRequest
                   \/ (request'[j].at = request[j].at /\ request'[j].id = request[j].id))
                /\ request'[j].heeded => request[j].heeded /\ j # k /\ j \notin ks
<1>1. NoRequest \in RequestSet
    BY DEF NoRequest, RequestSet
<1>2. \A j \in Kinds : [request[j] EXCEPT !.heeded = FALSE] \in RequestSet
    BY DEF RequestSet
<1>3. \A j \in Kinds :
        request'[j] = IF j = k THEN NoRequest
                      ELSE IF j \in ks THEN [request[j] EXCEPT !.heeded = FALSE]
                      ELSE request[j]
    BY DEF Done
<1>4. request' \in [Kinds -> RequestSet]
    BY <1>1, <1>2, <1>3 DEF Done
<1>5. ASSUME NEW j \in Kinds
      PROVE  /\ (request'[j] = NoRequest
                \/ (request'[j].at = request[j].at /\ request'[j].id = request[j].id))
             /\ request'[j].heeded => request[j].heeded /\ j # k /\ j \notin ks
    <2>1. CASE j = k
        <3>1. request'[j] = NoRequest
            BY <1>3, <2>1
        <3>2. NoRequest.heeded = FALSE
            BY DEF NoRequest
        <3>3. request'[j].heeded = FALSE
            BY <3>1, <3>2
        <3> QED
            BY <3>1, <3>3
    <2>2. CASE j # k /\ j \in ks
        <3>1. request'[j] = [request[j] EXCEPT !.heeded = FALSE]
            BY <1>3, <2>2
        <3>2. request[j] \in RequestSet
            OBVIOUS
        <3>3. request'[j].heeded = FALSE
            BY <3>1, <3>2 DEF RequestSet
        <3>4. request'[j].at = request[j].at /\ request'[j].id = request[j].id
            BY <3>1, <3>2 DEF RequestSet
        <3> QED
            BY <3>3, <3>4
    <2>3. CASE j # k /\ j \notin ks
        BY <1>3, <2>3
    <2> QED
        BY <2>1, <2>2, <2>3
<1> QED
    BY <1>4, <1>5

(* The conditions on requests that a step keeps when it only takes         *)
(* requests away or their flags.                                           *)
LEMMA WeakenedRequests ==
    ASSUME EmergencyInv,
           request' \in [Kinds -> RequestSet],
           \A j \in Kinds : \/ request'[j] = NoRequest
                            \/ (request'[j].at = request[j].at /\ request'[j].id = request[j].id),
           UNCHANGED alert
    PROVE  /\ \A k \in Kinds : request'[k].id # None => alert'[request'[k].id] # "none"
           /\ \A k \in {"press", "safety", "check"} :
                request'[k].at = "answered" => request'[k].id # None
           /\ request'["cancel"].at = "sent" => request'["cancel"].id # None
<1>1. {"press", "safety", "check"} \subseteq Kinds /\ "cancel" \in Kinds
    BY DEF Kinds
<1> QED
    BY <1>1 DEF EmergencyInv, KnownAlerts, NoRequest

LEMMA ShowKeeps ==
    ASSUME EmergencyInv, NEW k \in Kinds, NEW a \in Alerts, alert[a] # "none", Show(k, a),
           UNCHANGED << server, lost, drops >>
    PROVE  EmergencyInv'
<1>1. request \in [Kinds -> RequestSet]
    BY DEF EmergencyInv, TypeOK, RequestSet
<1>2. PICK ks : Done(k, ks) /\ (a # shown => ks = {"check", "sync", "poll"})
    BY DEF Show
<1>3. /\ request' \in [Kinds -> RequestSet]
      /\ \A j \in Kinds :
            /\ (request'[j] = NoRequest
               \/ (request'[j].at = request[j].at /\ request'[j].id = request[j].id))
            /\ request'[j].heeded => request[j].heeded /\ j # k /\ j \notin ks
    BY <1>1, <1>2, DoneWeakens
<1>4. shown' = a /\ due' = FALSE /\ UNCHANGED << alert, quiet, dismissed, lost, drops >>
    BY DEF Show, server
<1>5. a # None
    BY AlertsAssumption
<1>6. TypeOK'
    BY <1>3, <1>4, <1>5
       DEF EmergencyInv, TypeOK, Show, OnHome, OpenSocket, CloseSocket, RequestSet
<1>7. RoomFollowsScreen'
    BY <1>4, <1>5 DEF EmergencyInv, RoomFollowsScreen, Show, OnHome, OpenSocket, CloseSocket
<1>8. KnownAlerts'
    BY <1>3, <1>4, WeakenedRequests DEF KnownAlerts
<1>9. DismissedIsOver'
    BY <1>4 DEF EmergencyInv, DismissedIsOver
<1>10. SyncIsOfHome'
    <2>1. "sync" \in Kinds
        BY DEF Kinds
    <2>2. CASE a = shown
        BY <1>3, <1>4, <2>1, <2>2 DEF EmergencyInv, SyncIsOfHome, NoRequest
    <2>3. CASE a # shown
        BY <1>2, <1>3, <2>1, <2>3 DEF SyncIsOfHome
    <2> QED
        BY <2>2, <2>3
<1>11. ReadsAreFresh'
    <2>1. {"sync", "poll"} \subseteq Kinds
        BY DEF Kinds
    <2> QED
        BY <1>3, <1>4, <2>1 DEF EmergencyInv, ReadsAreFresh, NoRequest
<1> QED
    BY <1>6, <1>7, <1>8, <1>9, <1>10, <1>11 DEF EmergencyInv

LEMMA ClearKeeps ==
    ASSUME EmergencyInv, NEW k, Clear(k), UNCHANGED << server, lost, drops >>
    PROVE  EmergencyInv'
<1>1. request \in [Kinds -> RequestSet] /\ Done(k, {"poll"})
    BY DEF EmergencyInv, TypeOK, RequestSet, Clear
<1>2. /\ request' \in [Kinds -> RequestSet]
      /\ \A j \in Kinds :
            /\ (request'[j] = NoRequest
               \/ (request'[j].at = request[j].at /\ request'[j].id = request[j].id))
            /\ request'[j].heeded => request[j].heeded /\ j # k /\ j \notin {"poll"}
    BY <1>1, DoneWeakens
<1>3. /\ shown' = None /\ due' \in BOOLEAN /\ UNCHANGED << alert, quiet, lost, drops >>
      /\ link' = "off" /\ room' = FALSE /\ news' = FALSE /\ degraded' = FALSE
      /\ dismissed' = dismissed \cup {a \in {shown} \cap Alerts : alert[a] = "over"}
    BY DEF Clear, CloseSocket, server, EmergencyInv, TypeOK
<1>4. TypeOK'
    BY <1>2, <1>3 DEF EmergencyInv, TypeOK, OnHome, RequestSet
<1>5. RoomFollowsScreen'
    BY <1>3 DEF RoomFollowsScreen
<1>6. KnownAlerts'
    BY <1>2, <1>3, WeakenedRequests DEF KnownAlerts
<1>7. DismissedIsOver'
    BY <1>3 DEF EmergencyInv, DismissedIsOver
<1>8. SyncIsOfHome'
    BY <1>3 DEF SyncIsOfHome
<1>9. ReadsAreFresh'
    <2>1. "sync" \in Kinds /\ "poll" \in Kinds
        BY DEF Kinds
    <2>2. request'["sync"].at = "answered" /\ request'["sync"].heeded =>
            request'["sync"].id \notin dismissed'
        <3>1. SUFFICES ASSUME request'["sync"].at = "answered", request'["sync"].heeded
                       PROVE  request'["sync"].id \notin dismissed'
            OBVIOUS
        <3>2. /\ request["sync"].at = "answered" /\ request["sync"].heeded
              /\ request'["sync"].id = request["sync"].id
            BY <1>2, <2>1, <3>1 DEF NoRequest
        <3>3. shown = None
            BY <3>2 DEF EmergencyInv, SyncIsOfHome
        <3>4. dismissed' = dismissed
            BY <1>3, <3>3, AlertsAssumption
        <3> QED
            BY <3>2, <3>4 DEF EmergencyInv, ReadsAreFresh
    <2>3. ~request'["poll"].heeded
        BY <1>2, <2>1
    <2> QED
        BY <2>2, <2>3 DEF ReadsAreFresh
<1> QED
    BY <1>4, <1>5, <1>6, <1>7, <1>8, <1>9 DEF EmergencyInv
LEMMA SendKeeps ==
    ASSUME EmergencyInv, NEW k \in Kinds, NEW id \in Alerts \cup {None}, Send(k, id),
           id # None => id = shown, k = "cancel" <=> id # None,
           k = "sync" => shown = None,
           due' \in BOOLEAN
    PROVE  EmergencyInv'
<1>1. /\ request' = [request EXCEPT ![k] = Sent(id)]
      /\ UNCHANGED << alert, quiet, shown, dismissed, link, room, news, degraded, lost, drops >>
    BY DEF Send, server, socket
<1>2. request \in [Kinds -> RequestSet] /\ Sent(id) \in RequestSet
    BY DEF EmergencyInv, TypeOK, RequestSet, Sent
<1>3. Sent(id).at = "sent" /\ Sent(id).id = id
    BY DEF Sent
<1>4. /\ request' \in [Kinds -> RequestSet]
      /\ request'[k].at = "sent" /\ request'[k].id = id
      /\ \A j \in Kinds : j # k => request'[j] = request[j]
    BY <1>1, <1>2, <1>3
<1>5. TypeOK'
    BY <1>1, <1>4 DEF EmergencyInv, TypeOK, OnHome, RequestSet
<1>6. RoomFollowsScreen'
    BY <1>1 DEF EmergencyInv, RoomFollowsScreen, OnHome
<1>7. KnownAlerts'
    <2>1. {"press", "safety", "check"} \subseteq Kinds /\ "cancel" \in Kinds
        BY DEF Kinds
    <2> QED
        BY <1>1, <1>4, <2>1 DEF EmergencyInv, KnownAlerts
<1>8. DismissedIsOver'
    BY <1>1 DEF EmergencyInv, DismissedIsOver
<1>9. SyncIsOfHome' /\ ReadsAreFresh'
    <2>1. {"sync", "poll"} \subseteq Kinds
        BY DEF Kinds
    <2> QED
        BY <1>1, <1>4, <2>1 DEF EmergencyInv, SyncIsOfHome, ReadsAreFresh
<1> QED
    BY <1>5, <1>6, <1>7, <1>8, <1>9 DEF EmergencyInv

(* A request is only answered, fails or is no longer heeded.               *)
LEMMA RequestsOnlyKeep ==
    ASSUME EmergencyInv, request' \in [Kinds -> RequestSet],
           UNCHANGED << alert, quiet, shown, due, dismissed, link, room, news, degraded >>,
           lost' \in Nat, drops' \in Nat, lost' + drops' <= MaxFaults,
           \A j \in Kinds :
              /\ request'[j].id \in {None, request[j].id}
              /\ request'[j].at \in {"sent", "answered"} =>
                    /\ request'[j].at = request[j].at /\ request'[j].id = request[j].id
                    /\ request'[j].heeded => request[j].heeded
    PROVE  EmergencyInv'
<1>1. /\ "sync" \in Kinds
      /\ {"sync", "poll"} \subseteq Kinds
      /\ {"press", "safety", "check"} \subseteq Kinds /\ "cancel" \in Kinds
    BY DEF Kinds
<1>2. TypeOK'
    BY DEF EmergencyInv, TypeOK, OnHome, RequestSet
<1>3. RoomFollowsScreen'
    BY DEF EmergencyInv, RoomFollowsScreen, OnHome
<1>4. KnownAlerts'
    BY <1>1 DEF EmergencyInv, KnownAlerts
<1>5. DismissedIsOver'
    BY DEF EmergencyInv, DismissedIsOver
<1>6. SyncIsOfHome'
    BY <1>1 DEF EmergencyInv, SyncIsOfHome
<1>7. ReadsAreFresh'
    BY <1>1 DEF EmergencyInv, ReadsAreFresh
<1> QED
    BY <1>2, <1>3, <1>4, <1>5, <1>6, <1>7 DEF EmergencyInv

(* What concerns the socket alone.                                         *)
LEMMA LinkKeeps ==
    ASSUME EmergencyInv, Connect \/ Join \/ Reconnect \/ Disconnect \/ ConnectError
    PROVE  EmergencyInv'
<1>1. UNCHANGED << alert, quiet, shown, due, dismissed, request, lost >>
    BY DEF Connect, Join, Reconnect, Disconnect, ConnectError, server, screen
<1>2. TypeOK'
    <2>1. link' \in {"opening", "joining", "up", "down", "gone"} /\ link # "off"
        BY DEF Connect, Join, Reconnect, Disconnect, ConnectError
    <2>2. room' \in BOOLEAN /\ news' \in BOOLEAN /\ degraded' \in BOOLEAN
        BY DEF EmergencyInv, TypeOK, Connect, Join, Reconnect, Disconnect, ConnectError
    <2>3. drops' \in Nat /\ lost + drops' <= MaxFaults
        BY FaultsAssumption DEF EmergencyInv, TypeOK, Connect, Join, Reconnect, Disconnect, ConnectError
    <2> QED
        BY <1>1, <2>1, <2>2, <2>3 DEF EmergencyInv, TypeOK, OnHome
<1>3. RoomFollowsScreen'
    BY <1>1 DEF EmergencyInv, TypeOK, RoomFollowsScreen, OnHome,
                Connect, Join, Reconnect, Disconnect, ConnectError
<1>4. KnownAlerts' /\ DismissedIsOver' /\ SyncIsOfHome' /\ ReadsAreFresh'
    BY <1>1 DEF EmergencyInv, KnownAlerts, DismissedIsOver, SyncIsOfHome, ReadsAreFresh
<1> QED
    BY <1>2, <1>3, <1>4 DEF EmergencyInv
LEMMA RestartKeeps == ASSUME EmergencyInv, Restart PROVE EmergencyInv'
<1>1. /\ request' = [k \in Kinds |-> NoRequest]
      /\ shown' = None /\ due' = TRUE /\ UNCHANGED << alert, quiet, dismissed, lost >>
      /\ link' = "off" /\ room' = FALSE /\ news' = FALSE /\ degraded' = FALSE
      /\ lost + drops < MaxFaults /\ drops' = drops + 1
    BY DEF Restart, CloseSocket, server
<1>2. NoRequest \in RequestSet /\ NoRequest.at = "idle" /\ NoRequest.id = None
    BY DEF NoRequest, RequestSet
<1>3. TypeOK'
    <2>1. request' \in [Kinds -> RequestSet]
        BY <1>1, <1>2
    <2>2. drops' \in Nat /\ lost + drops' <= MaxFaults
        BY <1>1, FaultsAssumption DEF EmergencyInv, TypeOK
    <2>3. OnHome'
        BY <1>1 DEF OnHome
    <2> QED
        BY <1>1, <2>1, <2>2, <2>3 DEF EmergencyInv, TypeOK, RequestSet
<1>4. RoomFollowsScreen' /\ SyncIsOfHome'
    BY <1>1 DEF RoomFollowsScreen, SyncIsOfHome
<1>5. KnownAlerts' /\ ReadsAreFresh'
    BY <1>1, <1>2 DEF KnownAlerts, ReadsAreFresh, Kinds
<1>6. DismissedIsOver'
    BY <1>1 DEF EmergencyInv, DismissedIsOver
<1> QED
    BY <1>3, <1>4, <1>5, <1>6 DEF EmergencyInv

LEMMA ServeCreateKeeps == ASSUME EmergencyInv, NEW k \in Kinds, ServeCreate(k) PROVE EmergencyInv'
<1>1. PICK a \in Alerts :
        /\ alert[a] # "over"
        /\ alert' = [alert EXCEPT ![a] = "active"]
        /\ quiet' = quiet \/ (alert[a] = "none" /\ quiet' = quiet \cup {a})
        /\ request' = [request EXCEPT ![k].at = "answered", ![k].id = a]
    <2>1. PICK a \in IF Active = {} THEN Unused ELSE Active :
            /\ alert' = [alert EXCEPT ![a] = "active"]
            /\ quiet' = IF Active = {} /\ k = "safety" THEN quiet \cup {a} ELSE quiet
            /\ request' = [request EXCEPT ![k].at = "answered", ![k].id = a]
        BY DEF ServeCreate
    <2>2. a \in Alerts /\ alert[a] # "over" /\ (Active = {} => alert[a] = "none")
        BY <2>1 DEF Active, Unused
    <2> QED
        BY <2>1, <2>2
<1>2. /\ k \in {"press", "safety", "check"}
      /\ UNCHANGED << shown, due, dismissed, link, room, news, degraded, lost, drops >>
    BY DEF ServeCreate, screen
<1>3. /\ alert' \in [Alerts -> {"none", "active", "over"}]
      /\ \A b \in Alerts : /\ alert[b] # "none" => alert'[b] # "none"
                           /\ alert'[b] = "over" <=> alert[b] = "over"
      /\ alert'[a] = "active"
    BY <1>1 DEF EmergencyInv, TypeOK
<1>4. shown # None => (shown \in quiet' <=> shown \in quiet)
    BY <1>1 DEF EmergencyInv, KnownAlerts
<1>5. OnHome' <=> OnHome
    BY <1>2, <1>4 DEF OnHome
<1>6. /\ request' \in [Kinds -> RequestSet]
      /\ request'[k].at = "answered" /\ request'[k].id = a
      /\ \A j \in Kinds : j # k => request'[j] = request[j]
    <2>1. request \in [Kinds -> RequestSet]
        BY DEF EmergencyInv, TypeOK, RequestSet
    <2> QED
        BY <1>1, <2>1 DEF RequestSet
<1>7. TypeOK'
    <2>1. quiet' \subseteq Alerts
        BY <1>1 DEF EmergencyInv, TypeOK
    <2> QED
        BY <1>2, <1>3, <1>5, <1>6, <2>1 DEF EmergencyInv, TypeOK, RequestSet
<1>8. RoomFollowsScreen'
    BY <1>2, <1>3, <1>5 DEF EmergencyInv, TypeOK, RoomFollowsScreen, OnHome
<1>9. KnownAlerts'
    <2>1. {"press", "safety", "check"} \subseteq Kinds /\ "cancel" \in Kinds
        BY DEF Kinds
    <2>2. shown' # None => alert'[shown'] # "none"
        BY <1>2, <1>3 DEF EmergencyInv, KnownAlerts, TypeOK
    <2>3. ASSUME NEW j \in Kinds, request'[j].id # None
          PROVE  alert'[request'[j].id] # "none"
        <3>1. CASE j = k
            BY <1>3, <1>6, <3>1
        <3>2. CASE j # k
            <4>1. request[j] \in [at : {"idle", "sent", "answered", "failed"},
                                  id : Alerts \cup {None}, heeded : BOOLEAN]
                BY DEF EmergencyInv, TypeOK
            <4> QED
                BY <1>3, <1>6, <2>3, <3>2, <4>1 DEF EmergencyInv, KnownAlerts
        <3> QED
            BY <3>1, <3>2
    <2>4. /\ \A j \in {"press", "safety", "check"} :
                request'[j].at = "answered" => request'[j].id # None
          /\ request'["cancel"].at = "sent" => request'["cancel"].id # None
        BY <1>6, <2>1, AlertsAssumption DEF EmergencyInv, KnownAlerts
    <2> QED
        BY <2>2, <2>3, <2>4 DEF KnownAlerts
<1>10. DismissedIsOver'
    BY <1>2, <1>3 DEF EmergencyInv, TypeOK, DismissedIsOver
<1>11. SyncIsOfHome' /\ ReadsAreFresh'
    <2>1. {"sync", "poll"} \subseteq Kinds
        BY DEF Kinds
    <2> QED
        BY <1>2, <1>6, <2>1 DEF EmergencyInv, SyncIsOfHome, ReadsAreFresh
<1> QED
    BY <1>7, <1>8, <1>9, <1>10, <1>11 DEF EmergencyInv

LEMMA ServeGetActiveKeeps == ASSUME EmergencyInv, NEW k \in Kinds, ServeGetActive(k) PROVE EmergencyInv'
<1>1. PICK a \in Alerts \cup {None} :
        /\ a # None => alert[a] = "active"
        /\ request' = [request EXCEPT ![k].at = "answered", ![k].id = a]
    <2>1. PICK a \in IF Active = {} THEN {None} ELSE Active :
            request' = [request EXCEPT ![k].at = "answered", ![k].id = a]
        BY DEF ServeGetActive
    <2> QED
        BY <2>1 DEF Active
<1>2. /\ k \in {"sync", "poll"} /\ request[k].at = "sent"
      /\ UNCHANGED << alert, quiet, shown, due, dismissed, link, room, news, degraded, lost, drops >>
    BY DEF ServeGetActive, server, screen, socket
<1>3. request \in [Kinds -> RequestSet]
    BY DEF EmergencyInv, TypeOK, RequestSet
<1>4. /\ request' \in [Kinds -> RequestSet]
      /\ request'[k].id = a /\ request'[k].heeded = request[k].heeded
      /\ \A j \in Kinds : j # k => request'[j] = request[j]
    BY <1>1, <1>3 DEF RequestSet
<1>5. TypeOK'
    BY <1>2, <1>4 DEF EmergencyInv, TypeOK, OnHome, RequestSet
<1>6. RoomFollowsScreen' /\ DismissedIsOver'
    BY <1>2 DEF EmergencyInv, RoomFollowsScreen, OnHome, DismissedIsOver
<1>7. KnownAlerts'
    <2>1. {"press", "safety", "check"} \subseteq Kinds /\ "cancel" \in Kinds
        BY DEF Kinds
    <2> QED
        BY <1>1, <1>2, <1>4, <2>1 DEF EmergencyInv, KnownAlerts
<1>8. SyncIsOfHome'
    <2>1. "sync" \in Kinds
        BY DEF Kinds
    <2>2. CASE k = "sync"
        BY <1>2, <1>4, <2>2 DEF EmergencyInv, SyncIsOfHome
    <2>3. CASE k # "sync"
        BY <1>2, <1>4, <2>1, <2>3 DEF EmergencyInv, SyncIsOfHome
    <2> QED
        BY <2>2, <2>3
<1>9. ReadsAreFresh'
    <2>1. {"sync", "poll"} \subseteq Kinds
        BY DEF Kinds
    <2>2. a \notin dismissed
        BY <1>1, AlertsAssumption DEF EmergencyInv, TypeOK, DismissedIsOver
    <2> QED
        BY <1>2, <1>4, <2>1, <2>2 DEF EmergencyInv, ReadsAreFresh
<1> QED
    BY <1>5, <1>6, <1>7, <1>8, <1>9 DEF EmergencyInv
(* An alert ends, whatever becomes of the cancellation under way.          *)
LEMMA EndKeeps ==
    ASSUME EmergencyInv, NEW a \in Alerts, End(a),
           request' \in [Kinds -> RequestSet],
           \A j \in Kinds : request'[j].id = request[j].id,
           \A j \in Kinds : j # "cancel" => request'[j] = request[j],
           request'["cancel"].at = "sent" => request["cancel"].at = "sent",
           UNCHANGED << quiet, shown, due, dismissed, link, room, degraded, lost, drops >>
    PROVE  EmergencyInv'
<1>1. /\ alert' \in [Alerts -> {"none", "active", "over"}]
      /\ alert'[a] = "over" /\ \A b \in Alerts : b # a => alert'[b] = alert[b]
    BY DEF End, EmergencyInv, TypeOK
<1>2. news' \in BOOLEAN
    BY DEF End, EmergencyInv, TypeOK
<1>3. TypeOK'
    BY <1>1, <1>2 DEF EmergencyInv, TypeOK, OnHome, RequestSet
<1>4. RoomFollowsScreen'
    <2>1. room => shown \in Alerts
        BY DEF EmergencyInv, TypeOK, RoomFollowsScreen, OnHome
    <2>2. news' => room /\ alert'[shown] = "over"
        BY <1>1, <2>1 DEF End, EmergencyInv, RoomFollowsScreen
    <2> QED
        BY <2>2 DEF EmergencyInv, RoomFollowsScreen, OnHome
<1>5. KnownAlerts'
    <2>1. {"press", "safety", "check"} \subseteq Kinds /\ "cancel" \in Kinds
        BY DEF Kinds
    <2>2. shown' # None => alert'[shown'] # "none"
        BY <1>1 DEF EmergencyInv, TypeOK, KnownAlerts
    <2>3. ASSUME NEW j \in Kinds, request'[j].id # None
          PROVE  alert'[request'[j].id] # "none"
        <3>1. request[j].id \in Alerts
            BY <2>3 DEF EmergencyInv, TypeOK
        <3> QED
            BY <1>1, <2>3, <3>1 DEF EmergencyInv, KnownAlerts
    <2>4. /\ \A j \in {"press", "safety", "check"} :
                request'[j].at = "answered" => request'[j].id # None
          /\ request'["cancel"].at = "sent" => request'["cancel"].id # None
        BY <2>1 DEF EmergencyInv, KnownAlerts
    <2> QED
        BY <2>2, <2>3, <2>4 DEF KnownAlerts
<1>6. DismissedIsOver'
    BY <1>1 DEF EmergencyInv, TypeOK, DismissedIsOver
<1>7. SyncIsOfHome' /\ ReadsAreFresh'
    <2>1. "sync" \in Kinds /\ "poll" \in Kinds
        BY DEF Kinds
    <2> QED
        BY <2>1 DEF EmergencyInv, SyncIsOfHome, ReadsAreFresh
<1> QED
    BY <1>3, <1>4, <1>5, <1>6, <1>7 DEF EmergencyInv

LEMMA ServeCancelKeeps == ASSUME EmergencyInv, ServeCancel PROVE EmergencyInv'
<1>1. "cancel" \in Kinds /\ request \in [Kinds -> RequestSet]
    BY DEF EmergencyInv, TypeOK, RequestSet, Kinds
<1>2. UNCHANGED << quiet, shown, due, dismissed, link, room, degraded, lost, drops >>
    BY DEF ServeCancel, screen
<1> DEFINE a == request["cancel"].id
<1>3. CASE alert[a] = "active"
    <2>1. End(a) /\ request' = [request EXCEPT !["cancel"].at = "answered"]
        BY <1>3 DEF ServeCancel
    <2>2. a \in Alerts
        <3>1. a # None
            BY DEF ServeCancel, EmergencyInv, KnownAlerts
        <3> QED
            BY <1>1, <3>1 DEF RequestSet
    <2>3. /\ request' \in [Kinds -> RequestSet]
          /\ \A j \in Kinds : request'[j].id = request[j].id
          /\ \A j \in Kinds : j # "cancel" => request'[j] = request[j]
          /\ request'["cancel"].at = "answered"
        BY <1>1, <2>1 DEF RequestSet
    <2> QED
        BY <1>2, <2>1, <2>2, <2>3, EndKeeps
<1>4. CASE alert[a] # "active"
    <2>1. request' = [request EXCEPT !["cancel"].at = "failed"] /\ UNCHANGED << alert, news >>
        BY <1>4 DEF ServeCancel
    <2>2. /\ request' \in [Kinds -> RequestSet]
          /\ request'["cancel"].at = "failed"
          /\ \A j \in Kinds : request'[j].id = request[j].id
          /\ \A j \in Kinds : j # "cancel" => request'[j] = request[j]
        BY <1>1, <2>1 DEF RequestSet
    <2>3. lost' \in Nat /\ drops' \in Nat /\ lost' + drops' <= MaxFaults
        BY <1>2 DEF EmergencyInv, TypeOK
    <2> QED
        BY <1>2, <2>1, <2>2, <2>3, RequestsOnlyKeep
<1> QED
    BY <1>3, <1>4
(* The user's other device.                                                *)
LEMMA OpenElsewhereKeeps == ASSUME EmergencyInv, NEW a \in Alerts, OpenElsewhere(a) PROVE EmergencyInv'
<1>1. /\ alert[a] = "none" /\ alert' = [alert EXCEPT ![a] = "active"]
      /\ quiet' \in {quiet, quiet \cup {a}}
      /\ UNCHANGED << shown, due, dismissed, request, link, room, news, degraded, lost, drops >>
    BY DEF OpenElsewhere, Unused, screen, socket
<1>2. /\ alert' \in [Alerts -> {"none", "active", "over"}]
      /\ \A b \in Alerts : /\ alert[b] # "none" => alert'[b] # "none"
                           /\ alert'[b] = "over" <=> alert[b] = "over"
    BY <1>1 DEF EmergencyInv, TypeOK
<1>3. OnHome' <=> OnHome
    BY <1>1 DEF OnHome, EmergencyInv, KnownAlerts
<1>4. TypeOK'
    <2>1. quiet' \subseteq Alerts
        BY <1>1 DEF EmergencyInv, TypeOK
    <2> QED
        BY <1>1, <1>2, <1>3, <2>1 DEF EmergencyInv, TypeOK
<1>5. RoomFollowsScreen'
    BY <1>1, <1>2, <1>3 DEF EmergencyInv, TypeOK, RoomFollowsScreen, OnHome
<1>6. KnownAlerts'
    <2>1. \A k \in Kinds : request[k].id \in Alerts \cup {None}
        BY DEF EmergencyInv, TypeOK
    <2> QED
        BY <1>1, <1>2, <2>1 DEF EmergencyInv, TypeOK, KnownAlerts
<1>7. DismissedIsOver' /\ SyncIsOfHome' /\ ReadsAreFresh'
    BY <1>1, <1>2 DEF EmergencyInv, TypeOK, DismissedIsOver, SyncIsOfHome, ReadsAreFresh
<1> QED
    BY <1>4, <1>5, <1>6, <1>7 DEF EmergencyInv

LEMMA EndElsewhereKeeps == ASSUME EmergencyInv, NEW a \in Alerts, EndElsewhere(a) PROVE EmergencyInv'
<1>1. /\ End(a) /\ request' = request
      /\ UNCHANGED << quiet, shown, due, dismissed, link, room, degraded, lost, drops >>
    BY DEF EndElsewhere, screen
<1>2. request \in [Kinds -> RequestSet]
    BY DEF EmergencyInv, TypeOK, RequestSet
<1> QED
    BY <1>1, <1>2, EndKeeps

(* Requests that are lost, dropped or no longer heeded.                    *)
LEMMA LoseKeeps == ASSUME EmergencyInv, NEW k \in Kinds, Lose(k) PROVE EmergencyInv'
<1>1. /\ request' = [request EXCEPT ![k].at = "failed"]
      /\ lost + drops < MaxFaults /\ lost' = lost + 1
      /\ UNCHANGED << alert, quiet, shown, due, dismissed, link, room, news, degraded, drops >>
    BY DEF Lose, server, screen, socket
<1>2. request \in [Kinds -> RequestSet]
    BY DEF EmergencyInv, TypeOK, RequestSet
<1>3. /\ request' \in [Kinds -> RequestSet]
      /\ request'[k].at = "failed"
      /\ \A j \in Kinds : request'[j].id = request[j].id
      /\ \A j \in Kinds : j # k => request'[j] = request[j]
    BY <1>1, <1>2 DEF RequestSet
<1>4. lost' \in Nat /\ drops' \in Nat /\ lost' + drops' <= MaxFaults
    BY <1>1, FaultsAssumption DEF EmergencyInv, TypeOK
<1> QED
    BY <1>1, <1>3, <1>4, RequestsOnlyKeep

LEMMA DropKeeps == ASSUME EmergencyInv, NEW k \in Kinds, Drop(k) PROVE EmergencyInv'
<1>1. /\ Done(k, {})
      /\ UNCHANGED << alert, quiet, shown, due, dismissed, link, room, news, degraded, lost, drops >>
    BY DEF Drop, server, screen, socket
<1>2. request \in [Kinds -> RequestSet]
    BY DEF EmergencyInv, TypeOK, RequestSet
<1>3. /\ request' \in [Kinds -> RequestSet]
      /\ \A j \in Kinds :
            /\ \/ request'[j] = NoRequest
               \/ (request'[j].at = request[j].at /\ request'[j].id = request[j].id)
            /\ request'[j].heeded => request[j].heeded
    BY <1>1, <1>2, DoneWeakens
<1>4. NoRequest.at = "idle" /\ NoRequest.id = None
    BY DEF NoRequest
<1>5. lost' \in Nat /\ drops' \in Nat /\ lost' + drops' <= MaxFaults
    BY <1>1 DEF EmergencyInv, TypeOK
<1> QED
    BY <1>1, <1>3, <1>4, <1>5, RequestsOnlyKeep

LEMMA NewFixKeeps == ASSUME EmergencyInv, NewFix PROVE EmergencyInv'
<1>1. /\ request' = [request EXCEPT !["check"].heeded = FALSE]
      /\ UNCHANGED << alert, quiet, shown, due, dismissed, link, room, news, degraded, lost, drops >>
    BY DEF NewFix, server, screen, socket
<1>2. request \in [Kinds -> RequestSet] /\ "check" \in Kinds
    BY DEF EmergencyInv, TypeOK, RequestSet, Kinds
<1>3. /\ request' \in [Kinds -> RequestSet]
      /\ \A j \in Kinds : request'[j].at = request[j].at /\ request'[j].id = request[j].id
      /\ \A j \in Kinds : j # "check" => request'[j] = request[j]
    BY <1>1, <1>2 DEF RequestSet
<1>4. request'["check"].heeded = FALSE
    BY <1>1, <1>2 DEF RequestSet
<1>5. lost' \in Nat /\ drops' \in Nat /\ lost' + drops' <= MaxFaults
    BY <1>1 DEF EmergencyInv, TypeOK
<1> QED
    BY <1>1, <1>3, <1>4, <1>5, RequestsOnlyKeep

-----------------------------------------------------------------------------
LEMMA SendsKeep == ASSUME EmergencyInv, Sends PROVE EmergencyInv'
<1>1. {"press", "safety", "check", "sync", "cancel", "poll"} = Kinds
    BY DEF Kinds
<1>2. due \in BOOLEAN /\ shown \in Alerts \cup {None}
    BY DEF EmergencyInv, TypeOK
<1>3. CASE PressSos
    BY <1>1, <1>2, <1>3, SendKeeps DEF PressSos
<1>4. CASE PressSafetyCheck
    BY <1>1, <1>2, <1>4, SendKeeps DEF PressSafetyCheck
<1>5. CASE GuardianCheck
    BY <1>1, <1>2, <1>5, SendKeeps DEF GuardianCheck
<1>6. CASE SyncSession
    <2>1. due' \in BOOLEAN /\ shown = None /\ Send("sync", None)
        BY <1>6 DEF SyncSession
    <2> QED
        BY <1>1, <2>1, SendKeeps
<1>7. CASE PressCancel
    <2>1. Send("cancel", shown) /\ due' = due /\ shown # None
        BY <1>7 DEF PressCancel, OnHome
    <2> QED
        BY <1>1, <1>2, <2>1, SendKeeps
<1>8. CASE PollSession
    BY <1>1, <1>2, <1>8, SendKeeps DEF PollSession
<1> QED
    BY <1>3, <1>4, <1>5, <1>6, <1>7, <1>8, NewFixKeeps DEF Sends

(* What an answer shows is the alert it is about.                          *)
LEMMA AnswersKeep == ASSUME EmergencyInv, Answers PROVE EmergencyInv'
<1>1. {"press", "safety", "check", "sync", "cancel", "poll"} = Kinds
    BY DEF Kinds
<1>2. \A k \in Kinds : request[k].id # None =>
        request[k].id \in Alerts /\ alert[request[k].id] # "none"
    BY DEF EmergencyInv, TypeOK, KnownAlerts
<1>3. CASE PressAnswer
    <2>1. request["press"].id # None
        BY <1>3 DEF PressAnswer, Answered, EmergencyInv, KnownAlerts
    <2> QED
        BY <1>1, <1>2, <1>3, <2>1, ShowKeeps DEF PressAnswer
<1>4. CASE SafetyAnswer
    <2>1. request["safety"].id # None
        BY <1>4 DEF SafetyAnswer, Answered, EmergencyInv, KnownAlerts
    <2> QED
        BY <1>1, <1>2, <1>4, <2>1, ShowKeeps DEF SafetyAnswer
<1>5. CASE CheckAnswer
    <2>1. request["check"].id # None
        BY <1>5 DEF CheckAnswer, Answered, EmergencyInv, KnownAlerts
    <2> QED
        BY <1>1, <1>2, <1>5, <2>1, ShowKeeps DEF CheckAnswer
<1>6. CASE SyncAnswer
    BY <1>1, <1>2, <1>6, ShowKeeps DEF SyncAnswer
<1>7. CASE CancelAnswer
    BY <1>7, ClearKeeps DEF CancelAnswer
<1>8. CASE PollAnswer
    <2>1. CASE request["poll"].id = None
        BY <1>8, <2>1, ClearKeeps DEF PollAnswer
    <2>2. CASE request["poll"].id # None
        BY <1>1, <1>2, <1>8, <2>2, ShowKeeps DEF PollAnswer
    <2> QED
        BY <2>1, <2>2
<1> QED
    BY <1>3, <1>4, <1>5, <1>6, <1>7, <1>8 DEF Answers

LEMMA InitIInv == Init => EmergencyInv
<1> SUFFICES ASSUME Init PROVE EmergencyInv
    OBVIOUS
<1>1. NoRequest \in RequestSet /\ NoRequest.at = "idle" /\ NoRequest.id = None
    BY DEF NoRequest, RequestSet
<1>2. request \in [Kinds -> RequestSet]
    BY <1>1 DEF Init
<1>3. TypeOK
    <2>1. OnHome /\ link = "off"
        BY DEF Init, OnHome
    <2>2. lost + drops <= MaxFaults
        BY FaultsAssumption DEF Init
    <2> QED
        BY <1>2, <2>1, <2>2 DEF Init, TypeOK, RequestSet
<1>4. RoomFollowsScreen /\ DismissedIsOver /\ SyncIsOfHome
    BY DEF Init, RoomFollowsScreen, DismissedIsOver, SyncIsOfHome
<1>5. KnownAlerts /\ ReadsAreFresh
    BY <1>1 DEF Init, KnownAlerts, ReadsAreFresh, Kinds
<1> QED
    BY <1>3, <1>4, <1>5 DEF EmergencyInv

LEMMA NextIInv == EmergencyInv /\ [Next]_vars => EmergencyInv'
<1> SUFFICES ASSUME EmergencyInv, [Next]_vars PROVE EmergencyInv'
    OBVIOUS
<1>1. CASE Sends
    BY <1>1, SendsKeep
<1>2. ASSUME NEW k \in Kinds, Serves(k) PROVE EmergencyInv'
    BY <1>2, ServeCreateKeeps, ServeGetActiveKeeps, ServeCancelKeeps DEF Serves
<1>3. ASSUME NEW k \in Kinds, Lose(k) \/ Drop(k) PROVE EmergencyInv'
    BY <1>3, LoseKeeps, DropKeeps
<1>4. CASE Answers
    BY <1>4, AnswersKeep
<1>5. CASE Elsewhere
    BY <1>5, OpenElsewhereKeeps, EndElsewhereKeeps DEF Elsewhere
<1>6. CASE Link
    <2>1. CASE HearStatus
        BY <2>1, ClearKeeps DEF HearStatus
    <2> QED
        BY <1>6, <2>1, LinkKeeps DEF Link
<1>7. CASE Restart
    BY <1>7, RestartKeeps
<1>8. CASE UNCHANGED vars
    <2>1. RoomFollowsScreen' /\ KnownAlerts' /\ DismissedIsOver' /\ SyncIsOfHome' /\ ReadsAreFresh'
        BY <1>8 DEF vars, EmergencyInv, RoomFollowsScreen, OnHome, KnownAlerts, DismissedIsOver,
                    SyncIsOfHome, ReadsAreFresh
    <2> QED
        BY <1>8, <2>1 DEF vars, EmergencyInv, TypeOK, OnHome
<1> QED
    BY <1>1, <1>2, <1>3, <1>4, <1>5, <1>6, <1>7, <1>8 DEF Next

(* Whatever the user, the server and the network do, the emergency screens *)
(* stay in the inductive invariant: what a request knows of the alert, the *)
(* socket of the screen, and the alert a screen has dismissed.             *)
THEOREM EmergencyInvariant == Spec => []EmergencyInv
BY InitIInv, NextIInv, PTL DEF Spec

-----------------------------------------------------------------------------
(* Requests, screen and socket keep their types, and there is a socket     *)
(* just while the emergency screen is up.                                  *)
THEOREM EmergencyTypeCorrect == Spec => []TypeOK
BY EmergencyInvariant, PTL DEF EmergencyInv

(* The room follows the screen of ActiveEmergency, and syncSession and     *)
(* pollSession never bring back an alert that was over, however many       *)
(* answers are late, messages lost and restarts made.                      *)
THEOREM HearsItsAlert == Spec => ScreenHearsItsAlert
<1>1. EmergencyInv => RoomFollowsScreen
    BY DEF EmergencyInv
<1>2. EmergencyInv /\ [Next]_vars =>
        [SyncAnswer \/ PollAnswer => shown' = shown \/ shown' \notin dismissed]_vars
    <2> SUFFICES ASSUME EmergencyInv, SyncAnswer \/ PollAnswer PROVE shown' \notin dismissed
        OBVIOUS
    <2>1. CASE SyncAnswer
        <3>1. /\ shown' = request["sync"].id
              /\ request["sync"].at = "answered" /\ request["sync"].heeded
            BY <2>1 DEF SyncAnswer, Answered, Show
        <3> QED
            BY <3>1 DEF EmergencyInv, ReadsAreFresh
    <2>2. CASE PollAnswer
        <3>1. request["poll"].at = "answered" /\ request["poll"].heeded
            BY <2>2 DEF PollAnswer, Answered
        <3>2. shown' = request["poll"].id
            BY <2>2 DEF PollAnswer, Show, Clear
        <3> QED
            BY <3>1, <3>2 DEF EmergencyInv, ReadsAreFresh
    <2> QED
        BY <2>1, <2>2
<1> QED
    BY EmergencyInvariant, <1>1, <1>2, PTL DEF Spec, ScreenHearsItsAlert, ReadsNeverResurrect

(* Whatever is done in MCSafety is a step of the phone or leaves it alone. *)
LEMMA EmergencyShown == SafetySpec => Spec
<1>1. SafetyInit => Init BY DEF SafetyInit
<1>2. [SafetyNext]_<< part, phoneVars, reportVars >> => [Next]_vars
    BY DEF SafetyNext, JourneyNext, EmergencyNext, GuardianNext, OtpNext, StandingNext,
           SpreadNext, ReviewNext, phoneVars
<1> QED BY <1>1, <1>2, PTL DEF SafetySpec, Spec

-----------------------------------------------------------------------------
(* Whatever is done in MCSafety is a step of a part or leaves it alone.    *)
LEMMA SpreadSteps ==
    ASSUME [SafetyNext]_<< part, phoneVars, reportVars >> PROVE [Spread!Next]_input
BY DEF SafetyNext, JourneyNext, EmergencyNext, GuardianNext, OtpNext, StandingNext,
       SpreadNext, ReviewNext, phoneVars, reportVars

-----------------------------------------------------------------------------
(* The decision on the audience of a report: ReportSpread.                 *)

(* What else the decision is made from, a step of the level leaves alone.  *)
SameReport ==
    /\ input'.severity = input.severity /\ input'.tier = input.tier
    /\ input'.corroborations = input.corroborations /\ input'.confidence = input.confidence
    /\ input'.quality = input.quality /\ input'.recent = input.recent

LEMMA RestrictSteps ==
    ASSUME input \in Spread!Inputs, Spread!Restrict
    PROVE  /\ input' \in Spread!Inputs /\ SameReport
           /\ \/ input.level = "none" /\ input'.level = "warning"
              \/ input.level = "warning" /\ input'.level = "temporary_restriction"
              \/ input.level = "temporary_restriction" /\ input'.level = "shadow_restriction"
              \/ input.level = "shadow_restriction" /\ input'.level = "ban"
           /\ input'.level = "temporary_restriction" => input'.running
<1>1. PICK i \in 1..4 :
        /\ input.level = Spread!LevelOrder[i]
        /\ input' = [input EXCEPT !.level = Spread!LevelOrder[i + 1],
                                  !.running = Spread!LevelOrder[i + 1] = "temporary_restriction"]
    BY DEF Spread!Restrict
<1>2. i = 1 \/ i = 2 \/ i = 3 \/ i = 4
    BY <1>1
<1>3. /\ Spread!LevelOrder[1] = "none" /\ Spread!LevelOrder[2] = "warning"
      /\ Spread!LevelOrder[3] = "temporary_restriction"
      /\ Spread!LevelOrder[4] = "shadow_restriction" /\ Spread!LevelOrder[5] = "ban"
    BY DEF Spread!LevelOrder
<1> DEFINE next == Spread!LevelOrder[i + 1]
           temporary == (next = "temporary_restriction")
<1>4. /\ \/ input.level = "none" /\ next = "warning"
         \/ input.level = "warning" /\ next = "temporary_restriction"
         \/ input.level = "temporary_restriction" /\ next = "shadow_restriction"
         \/ input.level = "shadow_restriction" /\ next = "ban"
      /\ next \in Spread!Levels
    BY <1>1, <1>2, <1>3 DEF Spread!Levels
<1>5. temporary \in BOOLEAN
    OBVIOUS
<1>6. input' = [input EXCEPT !.level = next, !.running = temporary]
    BY <1>1
<1>7. next = "temporary_restriction" => temporary
    OBVIOUS
<1> HIDE DEF next, temporary
<1>8. input' \in Spread!Inputs /\ SameReport
    BY <1>4, <1>5, <1>6 DEF Spread!Inputs, SameReport
<1>9. input'.level = next /\ input'.running = temporary
    BY <1>6 DEF Spread!Inputs
<1> QED
    BY <1>4, <1>7, <1>8, <1>9

LEMMA TierSteps ==
    ASSUME input \in Spread!Inputs
    PROVE  /\ Spread!TierRises => \E next \in Spread!Tiers :
                /\ << input.tier, next >> \in {<< "low", "mid" >>, << "mid", "high" >>}
                /\ input' = [input EXCEPT !.tier = next]
           /\ Spread!TierFalls => \E next \in Spread!Tiers :
                /\ << next, input.tier >> \in {<< "low", "mid" >>, << "mid", "high" >>}
                /\ input' = [input EXCEPT !.tier = next]
<1>1. /\ Spread!TierOrder[1] = "low" /\ Spread!TierOrder[2] = "mid"
      /\ Spread!TierOrder[3] = "high"
    BY DEF Spread!TierOrder
<1>2. \A i \in 1..2 :
        /\ << Spread!TierOrder[i], Spread!TierOrder[i + 1] >>
             \in {<< "low", "mid" >>, << "mid", "high" >>}
        /\ Spread!TierOrder[i + 1] \in Spread!Tiers
    <2>1. SUFFICES ASSUME NEW i \in 1..2
                   PROVE  /\ << Spread!TierOrder[i], Spread!TierOrder[i + 1] >>
                               \in {<< "low", "mid" >>, << "mid", "high" >>}
                          /\ Spread!TierOrder[i + 1] \in Spread!Tiers
        OBVIOUS
    <2>2. i = 1 \/ i = 2
        OBVIOUS
    <2> QED
        BY <1>1, <2>2 DEF Spread!Tiers
<1>3. \A i \in 2..3 :
        /\ << Spread!TierOrder[i - 1], Spread!TierOrder[i] >>
             \in {<< "low", "mid" >>, << "mid", "high" >>}
        /\ Spread!TierOrder[i - 1] \in Spread!Tiers
    <2>1. SUFFICES ASSUME NEW i \in 2..3
                   PROVE  /\ << Spread!TierOrder[i - 1], Spread!TierOrder[i] >>
                               \in {<< "low", "mid" >>, << "mid", "high" >>}
                          /\ Spread!TierOrder[i - 1] \in Spread!Tiers
        OBVIOUS
    <2>2. i = 2 \/ i = 3
        OBVIOUS
    <2> QED
        BY <1>1, <2>2 DEF Spread!Tiers
<1> QED
    BY <1>2, <1>3 DEF Spread!TierRises, Spread!TierFalls

LEMMA SpreadTyped ==
    ASSUME input \in Spread!Inputs, [Spread!Next]_input PROVE (input \in Spread!Inputs)'
<1>1. CASE Spread!Confirm
    BY <1>1, ReportAssumption DEF Spread!Confirm, Spread!Inputs
<1>2. CASE Spread!TierRises
    BY <1>2, TierSteps DEF Spread!Inputs
<1>3. CASE Spread!TierFalls
    BY <1>3, TierSteps DEF Spread!Inputs
<1>4. CASE Spread!Restrict
    BY <1>4, RestrictSteps
<1>5. CASE Spread!RestrictionEnds
    BY <1>5 DEF Spread!RestrictionEnds, Spread!Inputs
<1>6. CASE Spread!ReportAgain
    BY <1>6, ReportAssumption DEF Spread!ReportAgain, Spread!Inputs
<1>7. CASE UNCHANGED input
    BY <1>7
<1> QED
    BY <1>1, <1>2, <1>3, <1>4, <1>5, <1>6, <1>7 DEF Spread!Next

(* The decision is one of the scopes, whatever the report.                 *)
LEMMA EveryInputDecided ==
    ASSUME NEW in \in Spread!Inputs
    PROVE  Spread!Distribution(in) \in [scope : Spread!Scopes, review : BOOLEAN]
<1>1. \A scope \in Spread!Scopes, review \in BOOLEAN :
        Spread!Decision(scope, review) \in [scope : Spread!Scopes, review : BOOLEAN]
    BY DEF Spread!Decision
<1>2. {"none", "nearby_only", "feed_only", "nearby_priority", "nearby_push", "map_and_feed",
       "network_priority"} = Spread!Scopes
    BY DEF Spread!Scopes
<1>3. in.severity \in {"critical", "high", "medium", "low"}
    BY DEF Spread!Inputs, Spread!Severities
<1>4. Spread!BySeverity(in) \in [scope : Spread!Scopes, review : BOOLEAN]
    <2>1. CASE in.severity = "critical"
        BY <1>1, <1>2, <2>1 DEF Spread!BySeverity, Spread!Decision
    <2>2. CASE in.severity = "high"
        BY <1>1, <1>2, <2>2 DEF Spread!BySeverity, Spread!Decision
    <2>3. CASE in.severity = "medium"
        BY <1>1, <1>2, <2>3 DEF Spread!BySeverity, Spread!Decision
    <2>4. CASE in.severity = "low"
        BY <1>1, <1>2, <2>4 DEF Spread!BySeverity, Spread!Decision
    <2> QED
        BY <1>3, <2>1, <2>2, <2>3, <2>4
<1> QED
    BY <1>1, <1>2, <1>4 DEF Spread!Distribution

(* What may be heard of a reporter: nothing, no more than the              *)
(* neighbourhood, or what the signals say.                                 *)
Heard(in) ==
    IF in.level = "ban" THEN 0
    ELSE IF \/ in.level = "shadow_restriction"
            \/ in.level = "temporary_restriction" /\ in.running THEN 1
    ELSE 2

(* As much speaks for the report better as for the report worse, and no    *)
(* more against it.                                                        *)
Outdoes(better, worse) ==
    /\ better.severity = worse.severity
    /\ better.confidence = worse.confidence /\ better.quality = worse.quality
    /\ better.corroborations >= worse.corroborations /\ better.recent <= worse.recent
    /\ worse.tier = "high" => better.tier = "high"
    /\ worse.tier = "mid" => better.tier \in {"mid", "high"}
    /\ Heard(better) >= Heard(worse)

Reach(in) == Spread!Width(Spread!Distribution(in))
Reviewed(in) == Spread!Distribution(in).review = TRUE

(* The reach of every input, and whether a reviewer must look at it.       *)
LEMMA ReachTable ==
    ASSUME NEW in \in Spread!Inputs
    PROVE  /\ Heard(in) \in 0..2
           /\ Heard(in) = 0 => Reach(in) = 0 /\ Reviewed(in)
           /\ Heard(in) = 1 => Reach(in) = 1 /\ Reviewed(in)
           /\ Heard(in) = 2 /\ in.severity # "low" /\ in.recent >= 4
                => Reach(in) = 1 /\ Reviewed(in)
           /\ Heard(in) = 2 /\ in.severity = "low" => Reach(in) = 2 /\ ~Reviewed(in)
           /\ Heard(in) = 2 /\ in.severity # "low" /\ ~(in.recent >= 4) =>
                /\ in.severity = "critical" =>
                     IF Spread!Trusted(in) \/ Spread!Strong(in)
                       THEN Reach(in) = 3 /\ ~Reviewed(in)
                     ELSE IF in.tier = "mid" \/ Spread!Moderate(in)
                       THEN Reach(in) = 2 /\ Reviewed(in)
                     ELSE Reach(in) = 1 /\ Reviewed(in)
                /\ in.severity \in {"high", "medium"} =>
                     IF Spread!Trusted(in) \/ Spread!Moderate(in)
                       THEN Reach(in) = 2 /\ ~Reviewed(in)
                     ELSE Reach(in) = 1 /\ (Reviewed(in) <=> in.severity = "high")
<1>1. CASE Heard(in) = 0
    <2>1. Spread!Distribution(in) = [scope |-> "none", review |-> TRUE]
        BY <1>1 DEF Heard, Spread!Distribution, Spread!Decision
    <2>2. Reach(in) = 0 /\ Reviewed(in)
        BY <2>1 DEF Reach, Reviewed, Spread!Width
    <2> QED
        BY <1>1, <2>2
<1>2. CASE Heard(in) = 1
    <2>1. Spread!Distribution(in) = [scope |-> "nearby_only", review |-> TRUE]
        BY <1>2 DEF Heard, Spread!Distribution, Spread!Decision
    <2>2. Reach(in) = 1 /\ Reviewed(in)
        BY <2>1 DEF Reach, Reviewed, Spread!Width
    <2> QED
        BY <1>2, <2>2
<1>3. CASE Heard(in) = 2 /\ in.severity # "low" /\ in.recent >= 4
    <2>1. Spread!Distribution(in) = [scope |-> "nearby_only", review |-> TRUE]
        BY <1>3 DEF Heard, Spread!Distribution, Spread!Decision
    <2>2. Reach(in) = 1 /\ Reviewed(in)
        BY <2>1 DEF Reach, Reviewed, Spread!Width
    <2> QED
        BY <1>3, <2>2
<1>4. CASE Heard(in) = 2 /\ (in.severity = "low" \/ ~(in.recent >= 4))
    <2>1. Spread!Distribution(in) = Spread!BySeverity(in)
        BY <1>4 DEF Heard, Spread!Distribution, Spread!Decision
    <2>2. CASE in.severity = "critical"
        <3>1. CASE Spread!Trusted(in) \/ Spread!Strong(in)
            <4>1. Spread!Distribution(in) = [scope |-> "network_priority", review |-> FALSE]
                BY <2>1, <2>2, <3>1 DEF Spread!BySeverity, Spread!Decision
            <4>2. Reach(in) = 3 /\ ~Reviewed(in)
                BY <4>1 DEF Reach, Reviewed, Spread!Width
            <4> QED
                BY <1>4, <2>2, <3>1, <4>2
        <3>2. CASE ~(Spread!Trusted(in) \/ Spread!Strong(in))
                   /\ (in.tier = "mid" \/ Spread!Moderate(in))
            <4>1. Spread!Distribution(in) = [scope |-> "nearby_priority", review |-> TRUE]
                BY <2>1, <2>2, <3>2 DEF Spread!BySeverity, Spread!Decision
            <4>2. Reach(in) = 2 /\ Reviewed(in)
                BY <4>1 DEF Reach, Reviewed, Spread!Width
            <4> QED
                BY <1>4, <2>2, <3>2, <4>2
        <3>3. CASE ~(Spread!Trusted(in) \/ Spread!Strong(in))
                   /\ ~(in.tier = "mid" \/ Spread!Moderate(in))
            <4>1. Spread!Distribution(in) = [scope |-> "nearby_only", review |-> TRUE]
                BY <2>1, <2>2, <3>3 DEF Spread!BySeverity, Spread!Decision
            <4>2. Reach(in) = 1 /\ Reviewed(in)
                BY <4>1 DEF Reach, Reviewed, Spread!Width
            <4> QED
                BY <1>4, <2>2, <3>3, <4>2
        <3> QED
            BY <3>1, <3>2, <3>3
    <2>3. CASE in.severity = "high"
        <3>1. CASE Spread!Trusted(in) \/ Spread!Moderate(in)
            <4>1. Spread!Distribution(in) = [scope |-> "nearby_push", review |-> FALSE]
                BY <2>1, <2>3, <3>1 DEF Spread!BySeverity, Spread!Decision
            <4>2. Reach(in) = 2 /\ ~Reviewed(in)
                BY <4>1 DEF Reach, Reviewed, Spread!Width
            <4> QED
                BY <1>4, <2>3, <3>1, <4>2
        <3>2. CASE ~(Spread!Trusted(in) \/ Spread!Moderate(in))
            <4>1. Spread!Distribution(in) = [scope |-> "nearby_only", review |-> TRUE]
                BY <2>1, <2>3, <3>2 DEF Spread!BySeverity, Spread!Decision
            <4>2. Reach(in) = 1 /\ Reviewed(in)
                BY <4>1 DEF Reach, Reviewed, Spread!Width
            <4> QED
                BY <1>4, <2>3, <3>2, <4>2
        <3> QED
            BY <3>1, <3>2
    <2>4. CASE in.severity = "medium"
        <3>1. CASE Spread!Trusted(in) \/ Spread!Moderate(in)
            <4>1. Spread!Distribution(in) = [scope |-> "map_and_feed", review |-> FALSE]
                BY <2>1, <2>4, <3>1 DEF Spread!BySeverity, Spread!Decision
            <4>2. Reach(in) = 2 /\ ~Reviewed(in)
                BY <4>1 DEF Reach, Reviewed, Spread!Width
            <4> QED
                BY <1>4, <2>4, <3>1, <4>2
        <3>2. CASE ~(Spread!Trusted(in) \/ Spread!Moderate(in))
            <4>1. Spread!Distribution(in) = [scope |-> "nearby_only", review |-> FALSE]
                BY <2>1, <2>4, <3>2 DEF Spread!BySeverity, Spread!Decision
            <4>2. Reach(in) = 1 /\ ~Reviewed(in)
                BY <4>1 DEF Reach, Reviewed, Spread!Width
            <4> QED
                BY <1>4, <2>4, <3>2, <4>2
        <3> QED
            BY <3>1, <3>2
    <2>5. CASE in.severity = "low"
        <3>1. Spread!Distribution(in) = [scope |-> "feed_only", review |-> FALSE]
            BY <2>1, <2>5 DEF Spread!BySeverity, Spread!Decision
        <3>2. Reach(in) = 2 /\ ~Reviewed(in)
            BY <3>1 DEF Reach, Reviewed, Spread!Width
        <3> QED
            BY <1>4, <2>5, <3>2
    <2>6. in.severity \in {"critical", "high", "medium", "low"}
        BY DEF Spread!Inputs, Spread!Severities
    <2> QED
        BY <2>2, <2>3, <2>4, <2>5, <2>6
<1>5. Heard(in) \in 0..2
    BY DEF Heard
<1> QED
    BY <1>1, <1>2, <1>3, <1>4, <1>5

(* The heart of it: what outdoes another report reaches as far, and needs  *)
(* a reviewer only if the other one does.                                  *)
LEMMA DecisionIsMonotone ==
    ASSUME NEW better \in Spread!Inputs, NEW worse \in Spread!Inputs, Outdoes(better, worse)
    PROVE  /\ Reach(better) \in 0..3 /\ Reach(worse) \in 0..3
           /\ Reach(better) >= Reach(worse) /\ (Reviewed(better) => Reviewed(worse))
<1>1. /\ better.recent \in Nat /\ worse.recent \in Nat
      /\ better.corroborations \in Nat /\ worse.corroborations \in Nat
      /\ better.severity \in {"critical", "high", "medium", "low"}
      /\ better.tier \in {"low", "mid", "high"}
    BY ReportAssumption DEF Spread!Inputs, Spread!Severities, Spread!Tiers
<1>2. /\ Spread!Trusted(worse) => Spread!Trusted(better)
      /\ Spread!Strong(worse) => Spread!Strong(better)
      /\ Spread!Moderate(worse) => Spread!Moderate(better)
      /\ worse.tier = "mid" => better.tier = "mid" \/ Spread!Trusted(better)
    BY <1>1 DEF Outdoes, Spread!Trusted, Spread!Strong, Spread!Moderate
<1>3. \A in \in {better, worse} : Reach(in) \in 0..3
    BY ReachTable DEF Spread!Inputs, Spread!Severities
<1> QED
    BY <1>1, <1>2, <1>3, ReachTable DEF Outdoes

(* A step that lets one outdo the other.                                   *)
LEMMA SupportOutdoes ==
    ASSUME input \in Spread!Inputs, [Spread!Next]_input,
           input'.corroborations > input.corroborations \/ Spread!TierRises
    PROVE  Outdoes(input', input)
<1>1. /\ input.corroborations \in Int /\ input.recent \in Int /\ Heard(input) \in Int
      /\ input.recent >= input.recent /\ input.corroborations >= input.corroborations
    BY ReachTable DEF Spread!Inputs
<1>2. CASE Spread!Confirm
    <2>1. input' = [input EXCEPT !.corroborations = input.corroborations + 1]
        BY <1>2 DEF Spread!Confirm
    <2>2. Heard(input') = Heard(input)
        BY <2>1 DEF Heard, Spread!Inputs
    <2> QED
        BY <1>1, <2>1, <2>2 DEF Outdoes, Spread!Inputs
<1>3. CASE Spread!TierRises
    <2>1. PICK next \in Spread!Tiers :
            /\ << input.tier, next >> \in {<< "low", "mid" >>, << "mid", "high" >>}
            /\ input' = [input EXCEPT !.tier = next]
        BY <1>3, TierSteps
    <2>2. Heard(input') = Heard(input)
        BY <2>1 DEF Heard, Spread!Inputs
    <2> QED
        BY <1>1, <2>1, <2>2 DEF Outdoes, Spread!Inputs
<1>4. CASE Spread!TierFalls \/ Spread!Restrict
    <2>1. input'.corroborations = input.corroborations
        BY <1>4, TierSteps, RestrictSteps DEF SameReport, Spread!Inputs
    <2>2. Spread!TierRises
        BY <1>1, <2>1
    <2> QED
        BY <1>3, <2>2
<1>5. CASE Spread!RestrictionEnds \/ Spread!ReportAgain \/ UNCHANGED input
    <2>1. input'.corroborations = input.corroborations
        BY <1>5 DEF Spread!RestrictionEnds, Spread!ReportAgain, Spread!Inputs
    <2>2. Spread!TierRises
        BY <1>1, <2>1
    <2> QED
        BY <1>3, <2>2
<1> QED
    BY <1>2, <1>3, <1>4, <1>5 DEF Spread!Next

LEMMA DoubtIsOutdone ==
    ASSUME input \in Spread!Inputs,
           Spread!Restrict \/ Spread!TierFalls \/ Spread!ReportAgain
    PROVE  Outdoes(input, input')
<1>1. /\ input.corroborations \in Int /\ input.recent \in Int /\ Heard(input) \in Int
      /\ input.recent >= input.recent /\ input.corroborations >= input.corroborations
    BY ReachTable DEF Spread!Inputs
<1>2. CASE Spread!Restrict
    <2>1. Heard(input) >= Heard(input')
        BY <1>2, RestrictSteps DEF Heard
    <2> QED
        BY <1>1, <1>2, <2>1, RestrictSteps DEF Outdoes, SameReport
<1>3. CASE Spread!TierFalls
    <2>1. PICK next \in Spread!Tiers :
            /\ << next, input.tier >> \in {<< "low", "mid" >>, << "mid", "high" >>}
            /\ input' = [input EXCEPT !.tier = next]
        BY <1>3, TierSteps
    <2>2. Heard(input') = Heard(input)
        BY <2>1 DEF Heard, Spread!Inputs
    <2> QED
        BY <1>1, <2>1, <2>2 DEF Outdoes, Spread!Inputs
<1>4. CASE Spread!ReportAgain
    <2>1. input' = [input EXCEPT !.recent = input.recent + 1]
        BY <1>4 DEF Spread!ReportAgain
    <2>2. Heard(input') = Heard(input)
        BY <2>1 DEF Heard, Spread!Inputs
    <2> QED
        BY <1>1, <2>1, <2>2 DEF Outdoes, Spread!Inputs
<1> QED
    BY <1>2, <1>3, <1>4

LEMMA SpreadInductive == SafetySpec => [](input \in Spread!Inputs)
<1>1. SafetyInit => input \in Spread!Inputs
    BY DEF SafetyInit, Spread!Init
<1>2. input \in Spread!Inputs /\ [SafetyNext]_<< part, phoneVars, reportVars >>
        => (input \in Spread!Inputs)'
    BY SpreadSteps, SpreadTyped
<1> QED
    BY <1>1, <1>2, PTL DEF SafetySpec

(* What speaks for a report never narrows its audience, what speaks        *)
(* against it never widens it, and neither turns the need of a reviewer    *)
(* the wrong way: buildDistributionDecision is monotone in its signals.    *)
THEOREM AudienceIsMonotone == SafetySpec => SpreadIsMonotone
<1> DEFINE TypedStep == /\ input \in Spread!Inputs /\ (input \in Spread!Inputs)'
                        /\ [SafetyNext]_<< part, phoneVars, reportVars >>
<1>1. TypedStep =>
        [input'.corroborations > input.corroborations \/ Spread!TierRises =>
           /\ Spread!Width(Spread!Decided') >= Spread!Width(Spread!Decided)
           /\ Spread!Decided'.review => Spread!Decided.review]_input
    <2> SUFFICES ASSUME TypedStep,
                        input'.corroborations > input.corroborations \/ Spread!TierRises
                 PROVE  /\ Spread!Width(Spread!Decided') >= Spread!Width(Spread!Decided)
                        /\ Spread!Decided'.review => Spread!Decided.review
        OBVIOUS
    <2>1. Outdoes(input', input)
        BY SpreadSteps, SupportOutdoes
    <2>2. Reach(input') >= Reach(input) /\ (Reviewed(input') => Reviewed(input))
        BY <2>1, DecisionIsMonotone
    <2> QED
        BY <2>2 DEF Reach, Reviewed, Spread!Decided
<1>2. TypedStep =>
        [Spread!Restrict \/ Spread!TierFalls \/ Spread!ReportAgain =>
           /\ Spread!Width(Spread!Decided') <= Spread!Width(Spread!Decided)
           /\ Spread!Decided.review => Spread!Decided'.review]_input
    <2> SUFFICES ASSUME TypedStep,
                        Spread!Restrict \/ Spread!TierFalls \/ Spread!ReportAgain
                 PROVE  /\ Spread!Width(Spread!Decided') <= Spread!Width(Spread!Decided)
                        /\ Spread!Decided.review => Spread!Decided'.review
        OBVIOUS
    <2>1. Outdoes(input, input')
        BY DoubtIsOutdone
    <2>2. /\ Reach(input) \in 0..3 /\ Reach(input') \in 0..3
          /\ Reach(input) >= Reach(input') /\ (Reviewed(input) => Reviewed(input'))
        BY <2>1, DecisionIsMonotone
    <2> QED
        BY <2>2 DEF Reach, Reviewed, Spread!Decided
<1> QED
    BY <1>1, <1>2, SpreadInductive, PTL
       DEF SafetySpec, SpreadIsMonotone, Spread!SupportNeverNarrows, Spread!DoubtNeverWidens

-----------------------------------------------------------------------------
(* The arithmetic of a reporter's score: Credibility.                      *)

LEMMA RoundingByFive ==
    ASSUME NEW x \in Int, NEW y \in Int
    PROVE  /\ Standing!RoundDiv(x, 5) \in Int
           /\ x <= y => Standing!RoundDiv(x, 5) <= Standing!RoundDiv(y, 5)
           /\ Standing!RoundDiv(x, 5) >= 30 => x >= 148
BY DEF Standing!RoundDiv

LEMMA RoundingIsInt ==
    ASSUME NEW x \in Int, NEW n \in Nat \ {0}
    PROVE  Standing!RoundDiv(x, n) \in Int
BY DEF Standing!RoundDiv

LEMMA QualityBoostBounds ==
    ASSUME NEW average \in Int
    PROVE  Standing!QualityBoost(average) \in -6..6
<1>1. Standing!RoundDiv(average - 500, 80) \in Int
    BY RoundingIsInt
<1> QED
    BY <1>1 DEF Standing!QualityBoost, Standing!Clamp

(* What the score is made from.                                            *)
StatsSet ==
    [confirmed_true : Nat, likely_true : Nat, inconclusive : Nat, false : Nat, malicious : Nat,
     quality : Int, corroborated : Nat, validated : Nat, action_taken : Nat, months : Nat]

Excess(s) == Standing!RawScore(s) - 50
Share(s) == Standing!Least(Standing!Total(s), 5)

LEMMA AdjustmentBounds ==
    ASSUME NEW s \in StatsSet
    PROVE  /\ Standing!ConsistencyAdjustment(s) \in -6..8
           /\ s.confirmed_true + s.likely_true = 0 => Standing!ConsistencyAdjustment(s) <= 0
           /\ Standing!Total(s) \in Nat /\ Share(s) \in 0..5
<1>1. /\ s.confirmed_true \in Nat /\ s.likely_true \in Nat
      /\ Standing!Total(s) \in Nat
    BY DEF StatsSet, Standing!Total
<1>2. Share(s) \in 0..5
    BY <1>1 DEF Share, Standing!Least
<1>3. Standing!ConsistencyAdjustment(s) \in {0, 8, 4, -6}
    BY DEF Standing!ConsistencyAdjustment
<1>4. ASSUME s.confirmed_true + s.likely_true = 0
      PROVE  Standing!ConsistencyAdjustment(s) <= 0
    <2>1. s.confirmed_true = 0 /\ s.likely_true = 0
        BY <1>1, <1>4
    <2>2. 5 * (4 * s.confirmed_true + 3 * s.likely_true) = 0
        BY <2>1
    <2> QED
        BY <1>1, <2>2 DEF Standing!ConsistencyAdjustment
<1> QED
    BY <1>1, <1>2, <1>3, <1>4

Earned(s) == 7 * s.confirmed_true + 4 * s.likely_true
Lost(s) == 3 * s.false + 18 * s.malicious
Backed(s) == Standing!Least(12, 2 * s.corroborated)
Acted(s) == Standing!Least(8, 2 * s.validated + 3 * s.action_taken)

LEMMA ExcessParts ==
    ASSUME NEW s \in StatsSet
    PROVE  /\ Excess(s) = Earned(s) - Lost(s) + Standing!QualityBoost(s.quality) + Backed(s)
                          + Acted(s) + Standing!ConsistencyAdjustment(s)
                          - Standing!InactivityPenalty(s.months)
           /\ Earned(s) \in Nat /\ Lost(s) \in Nat /\ Backed(s) \in 0..12 /\ Acted(s) \in 0..8
           /\ Standing!QualityBoost(s.quality) \in -6..6
           /\ Standing!InactivityPenalty(s.months) \in 0..12
           /\ Excess(s) \in Int
<1>1. /\ Standing!QualityBoost(s.quality) \in -6..6
      /\ Standing!ConsistencyAdjustment(s) \in -6..8
    BY QualityBoostBounds, AdjustmentBounds DEF StatsSet
<1>2. Backed(s) \in 0..12 /\ Acted(s) \in 0..8 /\ Standing!InactivityPenalty(s.months) \in 0..12
    <2>1. /\ s.corroborated \in Nat /\ s.months \in Nat
          /\ 2 * s.validated + 3 * s.action_taken \in Nat
        BY DEF StatsSet
    <2> QED
        BY <2>1 DEF Standing!Least, Standing!InactivityPenalty, Backed, Acted
<1>3. /\ s.confirmed_true \in Nat /\ s.likely_true \in Nat
      /\ s.false \in Nat /\ s.malicious \in Nat
    BY DEF StatsSet
<1>4. Earned(s) \in Nat /\ Lost(s) \in Nat
    BY <1>3 DEF Earned, Lost
<1>5. Standing!RawScore(s) =
        50 + 7 * s.confirmed_true + 4 * s.likely_true - 3 * s.false - 18 * s.malicious
        + Standing!QualityBoost(s.quality) + Backed(s) + Acted(s)
        + Standing!ConsistencyAdjustment(s) - Standing!InactivityPenalty(s.months)
    BY DEF Standing!RawScore, Standing!DefaultScore, Backed, Acted
<1>6. 50 + 7 * s.confirmed_true + 4 * s.likely_true - 3 * s.false - 18 * s.malicious
        = 50 + Earned(s) - Lost(s)
    BY <1>3 DEF Earned, Lost
<1> QED
    BY <1>1, <1>2, <1>4, <1>5, <1>6 DEF Excess

LEMMA ScoreByExcess ==
    ASSUME NEW s \in StatsSet
    PROVE  /\ Excess(s) * Share(s) \in Int
           /\ Standing!CredibilityScore(s) \in 0..100
           /\ Standing!CredibilityScore(s)
                = Standing!Clamp(50 + Standing!RoundDiv(Excess(s) * Share(s), 5), 0, 100)
<1>1. Excess(s) \in Int /\ Share(s) \in 0..5
    BY ExcessParts, AdjustmentBounds
<1>2. Excess(s) * Share(s) \in Int
    BY <1>1
<1>3. Standing!RoundDiv(Excess(s) * Share(s), 5) \in Int
    BY <1>2, RoundingByFive
<1>4. Standing!CredibilityScore(s)
        = Standing!Clamp(50 + Standing!RoundDiv(Excess(s) * Share(s), 5), 0, 100)
    BY DEF Standing!CredibilityScore, Excess, Share, Standing!DefaultScore
<1> QED
    BY <1>2, <1>3, <1>4 DEF Standing!Clamp

(* A score of 80 takes four reports and a true one.                        *)
LEMMA HighScoreIsEarned ==
    ASSUME NEW s \in StatsSet, s.corroborated <= Standing!Total(s),
           Standing!CredibilityScore(s) >= 80
    PROVE  Standing!Total(s) >= 4 /\ s.confirmed_true + s.likely_true >= 1
<1>1. Standing!RoundDiv(Excess(s) * Share(s), 5) \in Int /\ Excess(s) * Share(s) \in Int
    BY ScoreByExcess, RoundingByFive
<1>2. Standing!RoundDiv(Excess(s) * Share(s), 5) >= 30
    BY <1>1, ScoreByExcess DEF Standing!Clamp
<1>3. Excess(s) * Share(s) >= 148
    BY <1>1, <1>2, RoundingByFive
<1>4. /\ s.confirmed_true \in Nat /\ s.likely_true \in Nat /\ s.corroborated \in Nat
      /\ Excess(s) \in Int /\ Share(s) \in 0..5 /\ Standing!Total(s) \in Nat
      /\ Standing!ConsistencyAdjustment(s) \in -6..8
      /\ s.confirmed_true + s.likely_true = 0 => Standing!ConsistencyAdjustment(s) <= 0
    BY ExcessParts, AdjustmentBounds DEF StatsSet
<1>5. Excess(s) <= Earned(s) + Backed(s) + 14 + Standing!ConsistencyAdjustment(s)
    <2> DEFINE boost == Standing!QualityBoost(s.quality)
               silence == Standing!InactivityPenalty(s.months)
    <2>1. /\ Excess(s) = Earned(s) - Lost(s) + boost + Backed(s) + Acted(s)
                         + Standing!ConsistencyAdjustment(s) - silence
          /\ Earned(s) \in Nat /\ Lost(s) \in Nat /\ Backed(s) \in 0..12 /\ Acted(s) \in 0..8
          /\ boost \in -6..6 /\ silence \in 0..12
        BY ExcessParts
    <2> HIDE DEF boost, silence
    <2> QED
        BY <1>4, <2>1
<1>6. Share(s) = 0 \/ Share(s) = 1 \/ Share(s) = 2 \/ Share(s) = 3 \/ Share(s) = 4 \/ Share(s) = 5
    BY <1>4
<1>7. /\ s.confirmed_true + s.likely_true <= Standing!Total(s)
      /\ Standing!Total(s) < 4 => Share(s) = Standing!Total(s)
    BY DEF StatsSet, Standing!Total, Share, Standing!Least
<1>8. Standing!Total(s) >= 4
    <2>1. SUFFICES ASSUME Standing!Total(s) < 4 PROVE FALSE
        BY <1>4
    <2>2. Excess(s) <= 9 * Standing!Total(s) + 22
        <3>1. Earned(s) <= 7 * Standing!Total(s) /\ Backed(s) <= 2 * Standing!Total(s)
            BY <1>4, <1>7 DEF Earned, Backed, Standing!Least
        <3> QED
            BY <1>4, <1>5, <3>1, ExcessParts
    <2>3. Share(s) = Standing!Total(s)
        BY <1>7, <2>1
    <2> QED
        BY <1>3, <1>4, <1>6, <2>1, <2>2, <2>3
<1>9. s.confirmed_true + s.likely_true >= 1
    <2>1. SUFFICES ASSUME s.confirmed_true + s.likely_true = 0 PROVE FALSE
        BY <1>4
    <2>2. s.confirmed_true = 0 /\ s.likely_true = 0
        BY <1>4, <2>1
    <2>3. Excess(s) <= 26
        BY <1>4, <1>5, <2>1, <2>2, ExcessParts DEF Earned
    <2> QED
        BY <1>3, <1>4, <1>6, <2>3
<1> QED
    BY <1>8, <1>9

(* One more malicious report outweighs all that can come with it.          *)
LEMMA MaliciousLowersScore ==
    ASSUME NEW s \in StatsSet, NEW t \in StatsSet,
           Standing!Total(t) = Standing!Total(s),
           t.confirmed_true <= s.confirmed_true, t.likely_true <= s.likely_true,
           t.false >= s.false - 1, t.malicious >= s.malicious + 1,
           t.quality = s.quality, t.corroborated = s.corroborated, t.months = s.months,
           2 * t.validated + 3 * t.action_taken <= 2 * s.validated + 3 * s.action_taken + 3
    PROVE  Standing!CredibilityScore(t) <= Standing!CredibilityScore(s)
<1>1. /\ Earned(t) <= Earned(s) /\ Lost(t) >= Lost(s) + 15
      /\ Backed(t) = Backed(s) /\ Acted(t) <= Acted(s) + 3
    BY DEF StatsSet, Earned, Lost, Backed, Acted, Standing!Least
<1>2. Standing!ConsistencyAdjustment(t) <= Standing!ConsistencyAdjustment(s)
    <2>1. /\ 5 * (4 * t.confirmed_true + 3 * t.likely_true)
               <= 5 * (4 * s.confirmed_true + 3 * s.likely_true)
          /\ 5 * (4 * t.confirmed_true + 3 * t.likely_true) \in Nat
          /\ 5 * (4 * s.confirmed_true + 3 * s.likely_true) \in Nat
        BY DEF StatsSet
    <2> DEFINE signs == 5 * (4 * t.confirmed_true + 3 * t.likely_true)
               signals == 5 * (4 * s.confirmed_true + 3 * s.likely_true)
               total == Standing!Total(s)
               grade(n) == IF total < 2 THEN 0
                           ELSE IF n >= 16 * total THEN 8
                           ELSE IF n >= 13 * total THEN 4
                           ELSE IF n >= 9 * total THEN 0
                           ELSE -6
    <2>2. /\ Standing!ConsistencyAdjustment(t) = grade(signs)
          /\ Standing!ConsistencyAdjustment(s) = grade(signals)
        BY DEF Standing!ConsistencyAdjustment
    <2>3. total \in Nat /\ signs \in Nat /\ signals \in Nat /\ signs <= signals
        BY <2>1, AdjustmentBounds
    <2> HIDE DEF signs, signals, total
    <2>4. grade(signs) <= grade(signals)
        BY <2>3
    <2> QED
        BY <2>2, <2>4
<1>3. Excess(t) <= Excess(s)
    <2> DEFINE boost == Standing!QualityBoost(s.quality)
               silence == Standing!InactivityPenalty(s.months)
    <2>1. /\ Excess(s) = Earned(s) - Lost(s) + boost + Backed(s) + Acted(s)
                         + Standing!ConsistencyAdjustment(s) - silence
          /\ Excess(t) = Earned(t) - Lost(t) + boost + Backed(t) + Acted(t)
                         + Standing!ConsistencyAdjustment(t) - silence
          /\ Earned(s) \in Nat /\ Lost(s) \in Nat /\ Backed(s) \in 0..12 /\ Acted(s) \in 0..8
          /\ Earned(t) \in Nat /\ Lost(t) \in Nat /\ Acted(t) \in 0..8
          /\ boost \in -6..6 /\ silence \in 0..12
          /\ Standing!ConsistencyAdjustment(s) \in -6..8
          /\ Standing!ConsistencyAdjustment(t) \in -6..8
        BY ExcessParts, AdjustmentBounds
    <2> HIDE DEF boost, silence
    <2> QED
        BY <1>1, <1>2, <2>1
<1>4. /\ Excess(t) \in Int /\ Excess(s) \in Int
      /\ Share(t) = Share(s) /\ Share(s) \in 0..5
    BY ExcessParts, AdjustmentBounds DEF Share
<1>5. Share(s) = 0 \/ Share(s) = 1 \/ Share(s) = 2 \/ Share(s) = 3 \/ Share(s) = 4 \/ Share(s) = 5
    BY <1>4
<1>6. Excess(t) * Share(t) <= Excess(s) * Share(s)
    BY <1>3, <1>4, <1>5
<1>7. /\ Standing!RoundDiv(Excess(t) * Share(t), 5) <= Standing!RoundDiv(Excess(s) * Share(s), 5)
      /\ Standing!RoundDiv(Excess(t) * Share(t), 5) \in Int
      /\ Standing!RoundDiv(Excess(s) * Share(s), 5) \in Int
    BY <1>6, ScoreByExcess, RoundingByFive
<1> QED
    BY <1>7, ScoreByExcess DEF Standing!Clamp

-----------------------------------------------------------------------------
(* A reporter's standing over a history of reports: ReporterStanding.      *)

(* No count is negative, no report is corroborated or judged that is not   *)
(* one of the reporter's.                                                  *)
StandingInv ==
    /\ count \in [Standing!Classes -> Nat]
    /\ Standing!Reports \in 0..MaxReports
    /\ quality \in Nat /\ months \in Nat
    /\ corroborated \in 0..Standing!Reports
    /\ outcomes \in [Given -> Nat]
    /\ Standing!With("validated") + Standing!With("action_taken") <= Standing!Reports

LEMMA StandingSteps ==
    ASSUME [SafetyNext]_<< part, phoneVars, reportVars >> PROVE [Standing!Next]_(Standing!vars)
BY DEF SafetyNext, JourneyNext, EmergencyNext, GuardianNext, OtpNext, StandingNext,
       SpreadNext, ReviewNext, phoneVars, reportVars, standingVars, Standing!vars

LEMMA StandingInit == Standing!Init => StandingInv
BY ReportAssumption
   DEF Standing!Init, StandingInv, Standing!Classes, Standing!Reports, Standing!Total,
       Standing!With

(* The sums over the classes and over the outcomes, in terms of the counts.*)
LEMMA Sums ==
    ASSUME count \in [Standing!Classes -> Nat], outcomes \in [Given -> Nat]
    PROVE  /\ \A k \in Standing!Classes : count[k] \in Nat
           /\ Standing!Reports = count["confirmed_true"] + count["likely_true"]
                + count["inconclusive"] + count["false"] + count["malicious"]
           /\ Standing!Reports \in Nat
           /\ Standing!With("validated") \in Nat /\ Standing!With("action_taken") \in Nat
BY DEF Standing!Reports, Standing!Total, Standing!Classes, Standing!With

LEMMA CreateOK ==
    ASSUME StandingInv, NEW q \in StandingQualities, NEW nearby \in 0..2,
           Standing!Create(q, nearby)
    PROVE  /\ StandingInv'
           /\ \E k \in {"likely_true", "inconclusive"} :
                count' = [count EXCEPT ![k] = count[k] + 1]
<1>1. PICK k \in {"likely_true", "inconclusive"} :
        count' = [count EXCEPT ![k] = count[k] + 1]
    BY DEF Standing!Create, Standing!InitialClassification
<1>2. /\ Standing!Reports < MaxReports /\ quality' = quality + q /\ months' = 0
      /\ corroborated' = corroborated + (IF nearby >= 2 THEN 1 ELSE 0)
      /\ outcomes' = outcomes /\ q \in Nat
    BY ReportAssumption DEF Standing!Create
<1>3. count' \in [Standing!Classes -> Nat] /\ outcomes' \in [Given -> Nat]
    BY <1>1, <1>2 DEF StandingInv, Standing!Classes
<1>4. Standing!Reports' = Standing!Reports + 1
    BY <1>1, <1>3 DEF StandingInv, Standing!Classes, Standing!Reports, Standing!Total
<1>5. /\ Standing!With("validated")' = Standing!With("validated")
      /\ Standing!With("action_taken")' = Standing!With("action_taken")
    BY <1>2 DEF Standing!With
<1>6. /\ Standing!With("validated") \in Nat /\ Standing!With("action_taken") \in Nat
    BY Sums DEF StandingInv
<1>7. /\ Standing!Reports' \in 0..MaxReports /\ quality' \in Nat /\ months' \in Nat
      /\ corroborated' \in 0..Standing!Reports'
    BY <1>2, <1>4, ReportAssumption DEF StandingInv
<1>8. Standing!With("validated")' + Standing!With("action_taken")' <= Standing!Reports'
    BY <1>4, <1>5, <1>6 DEF StandingInv
<1> QED
    BY <1>1, <1>3, <1>7, <1>8 DEF StandingInv

(* A report that moves from one class to another.                          *)
LEMMA CountMoves ==
    ASSUME count \in [Standing!Classes -> Nat],
           NEW from \in Standing!Classes, NEW to \in Standing!Classes, from # to,
           count[from] > 0,
           count' = [count EXCEPT ![from] = count[from] - 1, ![to] = count[to] + 1]
    PROVE  /\ count' \in [Standing!Classes -> Nat]
           /\ Standing!Reports' = Standing!Reports
           /\ \A k \in Standing!Classes :
                count'[k] = IF k = from THEN count[k] - 1
                                 ELSE IF k = to THEN count[k] + 1 ELSE count[k]
<1>1. /\ count' \in [Standing!Classes -> Nat]
      /\ \A k \in Standing!Classes :
           count'[k] = IF k = from THEN count[k] - 1
                            ELSE IF k = to THEN count[k] + 1 ELSE count[k]
    OBVIOUS
<1>2. \A k \in Standing!Classes : count[k] \in Nat
    OBVIOUS
<1>3. Standing!Reports' = Standing!Reports
    BY <1>1, <1>2 DEF Standing!Reports, Standing!Total, Standing!Classes
<1> QED
    BY <1>1, <1>3

LEMMA ConfirmOK ==
    ASSUME StandingInv, NEW k \in Standing!Classes, Standing!Confirm(k)
    PROVE  /\ StandingInv'
           /\ \/ count' = count
              \/ /\ count["inconclusive"] > 0
                 /\ count' = [count EXCEPT !["inconclusive"] = count["inconclusive"] - 1,
                                           !["likely_true"] = count["likely_true"] + 1]
<1>1. /\ corroborated < Standing!Reports /\ corroborated' = corroborated + 1
      /\ UNCHANGED << quality, outcomes, months >>
    BY DEF Standing!Confirm
<1>2. \/ count' = count
      \/ /\ count["inconclusive"] > 0
         /\ count' = [count EXCEPT !["inconclusive"] = count["inconclusive"] - 1,
                                   !["likely_true"] = count["likely_true"] + 1]
    BY DEF Standing!Confirm
<1>3. count' \in [Standing!Classes -> Nat] /\ Standing!Reports' = Standing!Reports
    <2>1. CASE count' = count
        BY <2>1 DEF StandingInv, Standing!Reports
    <2>2. CASE count' # count
        BY <1>2, <2>2, CountMoves DEF StandingInv, Standing!Classes
    <2> QED
        BY <2>1, <2>2
<1>4. /\ Standing!With("validated")' = Standing!With("validated")
      /\ Standing!With("action_taken")' = Standing!With("action_taken")
    BY <1>1 DEF Standing!With
<1> QED
    BY <1>1, <1>2, <1>3, <1>4 DEF StandingInv

(* What an outcome that replaces another one adds to the score.            *)
LEMMA OutcomeAdds ==
    ASSUME StandingInv, NEW now \in Given \cup {"pending"}, Standing!Outcome(now)
    PROVE  /\ outcomes' \in [Given -> Nat]
           /\ Standing!With("validated")' + Standing!With("action_taken")' <= Standing!Reports
           /\ 2 * Standing!With("validated")' + 3 * Standing!With("action_taken")'
                <= 2 * Standing!With("validated") + 3 * Standing!With("action_taken") + 3
<1>1. PICK before \in Given \cup {"pending"} :
        /\ before \in Given => outcomes[before] > 0
        /\ outcomes' = [o \in Given |-> outcomes[o] - (IF o = before THEN 1 ELSE 0)
                                                    + (IF o = now THEN 1 ELSE 0)]
    BY DEF Standing!Outcome
<1>2. \A o \in Given :
        /\ outcomes[o] \in Nat
        /\ outcomes'[o] = outcomes[o] - (IF o = before THEN 1 ELSE 0)
                                      + (IF o = now THEN 1 ELSE 0)
        /\ outcomes'[o] \in Nat
    BY <1>1 DEF StandingInv
<1>3. outcomes' \in [Given -> Nat]
    BY <1>1, <1>2
<1>4. 2 * Standing!With("validated")' + 3 * Standing!With("action_taken")'
        <= 2 * Standing!With("validated") + 3 * Standing!With("action_taken") + 3
    BY <1>2 DEF Standing!With
<1> QED
    BY <1>3, <1>4 DEF Standing!Outcome

LEMMA ClassifyOK ==
    ASSUME StandingInv, NEW from \in Standing!Classes,
           NEW to \in {"confirmed_true", "false", "malicious"},
           NEW outcome \in Given \cup {"pending"}, Standing!Classify(from, to, outcome)
    PROVE  StandingInv'
<1>1. /\ count[from] > 0 /\ from # to /\ to \in Standing!Classes
      /\ count' = [count EXCEPT ![from] = count[from] - 1, ![to] = count[to] + 1]
      /\ UNCHANGED << quality, corroborated, months >>
    BY DEF Standing!Classify, Standing!Classes
<1>2. count' \in [Standing!Classes -> Nat] /\ Standing!Reports' = Standing!Reports
    BY <1>1, CountMoves DEF StandingInv
<1>3. /\ outcomes' \in [Given -> Nat]
      /\ Standing!With("validated")' + Standing!With("action_taken")' <= Standing!Reports
    BY OutcomeAdds DEF Standing!Classify
<1> QED
    BY <1>1, <1>2, <1>3 DEF StandingInv

LEMMA StandingStep == ASSUME StandingInv, [Standing!Next]_(Standing!vars) PROVE StandingInv'
<1>1. ASSUME NEW silence \in Silences, Standing!FallSilent(silence) PROVE StandingInv'
    BY <1>1, ReportAssumption
       DEF StandingInv, Standing!FallSilent, Standing!Reports, Standing!With
<1>2. CASE UNCHANGED Standing!vars
    BY <1>2 DEF StandingInv, Standing!vars, Standing!Reports, Standing!With
<1> QED
    BY <1>1, <1>2, CreateOK, ConfirmOK, ClassifyOK DEF Standing!Next

LEMMA StandingInductive == SafetySpec => []StandingInv
<1>1. SafetyInit => StandingInv
    BY StandingInit DEF SafetyInit
<1>2. StandingInv /\ [SafetyNext]_<< part, phoneVars, reportVars >> => StandingInv'
    BY StandingSteps, StandingStep
<1> QED
    BY <1>1, <1>2, PTL DEF SafetySpec

(* The counts the score is made from, and what it makes of them.           *)
LEMMA StatsTyped ==
    ASSUME StandingInv
    PROVE  /\ Standing!Stats \in StatsSet
           /\ Standing!Total(Standing!Stats) = Standing!Reports
           /\ Standing!Stats.confirmed_true = count["confirmed_true"]
           /\ Standing!Stats.likely_true = count["likely_true"]
           /\ Standing!Stats.corroborated = corroborated
<1>1. Standing!Average \in Int
    BY Sums, RoundingIsInt DEF StandingInv, Standing!Average
<1>2. /\ \A k \in Standing!Classes : count[k] \in Nat
      /\ Standing!With("validated") \in Nat /\ Standing!With("action_taken") \in Nat
      /\ corroborated \in Nat /\ months \in Nat
    BY Sums DEF StandingInv
<1> QED
    BY <1>1, <1>2
       DEF Standing!Stats, StatsSet, Standing!Total, Standing!Reports, Standing!Classes

LEMMA StatsTypedNext ==
    (StandingInv => Standing!Stats \in StatsSet
                    /\ Standing!Total(Standing!Stats) = Standing!Reports)'
<1>1. StandingInv => Standing!Stats \in StatsSet
                     /\ Standing!Total(Standing!Stats) = Standing!Reports
    BY StatsTyped
<1> QED
    BY <1>1, PTL

(* No count exceeds the reports there are.                                 *)
LEMMA StandingTyped == ASSUME StandingInv PROVE Standing!TypeOK
<1>1. /\ \A k \in Standing!Classes : count[k] \in Nat
      /\ Standing!With("validated") \in Nat /\ Standing!With("action_taken") \in Nat
      /\ Standing!Reports \in 0..MaxReports
    BY Sums DEF StandingInv
<1>2. \A k \in Standing!Classes : count[k] <= Standing!Reports
    BY <1>1, Sums DEF StandingInv, Standing!Classes
<1>3. \A o \in Given : outcomes[o] \in 0..MaxReports
    <2>1. SUFFICES ASSUME NEW o \in Given PROVE outcomes[o] \in 0..MaxReports
        OBVIOUS
    <2>2. o = "validated" \/ o = "action_taken"
        BY ReportAssumption
    <2>3. outcomes[o] \in Nat /\ (outcomes[o] = Standing!With(o))
        BY DEF StandingInv, Standing!With
    <2>4. outcomes[o] <= Standing!Reports
        BY <1>1, <2>2, <2>3 DEF StandingInv
    <2> QED
        BY <1>1, <2>3, <2>4, ReportAssumption
<1>4. count \in [Standing!Classes -> 0..MaxReports] /\ outcomes \in [Given -> 0..MaxReports]
    BY <1>1, <1>2, <1>3, ReportAssumption DEF StandingInv
<1>5. Standing!Score \in 0..100 /\ Standing!Tier \in Standing!Tiers
    BY StatsTyped, ScoreByExcess DEF Standing!Score, Standing!Tier, Standing!RatingTier,
       Standing!Tiers
<1>6. Standing!Restriction \in Standing!Levels
    BY DEF Standing!Restriction, Standing!RestrictionLevel, Standing!Levels
<1> QED
    BY <1>4, <1>5, <1>6 DEF StandingInv, Standing!TypeOK

(* The tier whose reports are spread unreviewed.                           *)
LEMMA HighTier == ASSUME StandingInv PROVE Standing!HighTierIsEarned
<1>1. SUFFICES ASSUME Standing!Tier = "high"
               PROVE  /\ Standing!Reports >= 4
                      /\ count.confirmed_true + count.likely_true >= 1
    BY DEF Standing!HighTierIsEarned
<1>2. Standing!CredibilityScore(Standing!Stats) >= 80
    BY <1>1 DEF Standing!Tier, Standing!RatingTier, Standing!Score
<1>3. Standing!Stats.corroborated <= Standing!Total(Standing!Stats)
    BY StatsTyped, Sums DEF StandingInv
<1> QED
    BY <1>2, <1>3, StatsTyped, HighScoreIsEarned

LEMMA MaliciousStep ==
    ASSUME StandingInv, [Standing!Next]_(Standing!vars),
           count'["malicious"] > count["malicious"]
    PROVE  Standing!Score' <= Standing!Score
<1>1. PICK from \in Standing!Classes, to \in {"confirmed_true", "false", "malicious"},
           outcome \in Given \cup {"pending"} : Standing!Classify(from, to, outcome)
    <2>1. \A k \in Standing!Classes : count[k] \in Nat
        BY Sums DEF StandingInv
    <2>2. "malicious" \in Standing!Classes
        BY DEF Standing!Classes
    <2>3. ASSUME NEW q \in StandingQualities, NEW nearby \in 0..2, Standing!Create(q, nearby)
          PROVE  count'["malicious"] = count["malicious"]
        BY <2>3, CreateOK DEF StandingInv, Standing!Classes
    <2>4. ASSUME NEW k \in Standing!Classes, Standing!Confirm(k)
          PROVE  count'["malicious"] = count["malicious"]
        BY <2>4, ConfirmOK DEF StandingInv, Standing!Classes
    <2>5. ASSUME NEW silence \in Silences, Standing!FallSilent(silence)
          PROVE  count'["malicious"] = count["malicious"]
        BY <2>5 DEF Standing!FallSilent
    <2>6. CASE UNCHANGED Standing!vars
        BY <2>1, <2>2, <2>6 DEF Standing!vars
    <2> QED
        BY <2>1, <2>2, <2>3, <2>4, <2>5, <2>6 DEF Standing!Next
<1>2. /\ count[from] > 0 /\ from # to /\ to \in Standing!Classes
      /\ count' = [count EXCEPT ![from] = count[from] - 1, ![to] = count[to] + 1]
      /\ UNCHANGED << quality, corroborated, months >> /\ Standing!Outcome(outcome)
    BY <1>1 DEF Standing!Classify, Standing!Classes
<1>3. /\ StandingInv' /\ Standing!Reports' = Standing!Reports
      /\ \A k \in Standing!Classes :
           count'[k] = IF k = from THEN count[k] - 1
                       ELSE IF k = to THEN count[k] + 1 ELSE count[k]
    BY <1>1, <1>2, ClassifyOK, CountMoves DEF StandingInv
<1>4. \A k \in Standing!Classes : count[k] \in Nat /\ count'[k] \in Nat
    BY <1>3 DEF StandingInv
<1>5. to = "malicious"
    BY <1>2, <1>3, <1>4 DEF Standing!Classes
<1>6. /\ count'["confirmed_true"] <= count["confirmed_true"]
      /\ count'["likely_true"] <= count["likely_true"]
      /\ count'["false"] >= count["false"] - 1
      /\ count'["malicious"] = count["malicious"] + 1
    BY <1>2, <1>3, <1>4, <1>5 DEF Standing!Classes
<1>7. Standing!Average' = Standing!Average
    BY <1>2, <1>3 DEF Standing!Average
<1> DEFINE s == Standing!Stats
           t == Standing!Stats'
<1>8. /\ s \in StatsSet /\ Standing!Total(s) = Standing!Reports
      /\ t \in StatsSet /\ Standing!Total(t) = Standing!Reports'
    BY <1>3, StatsTyped, StatsTypedNext
<1>9. /\ t.confirmed_true <= s.confirmed_true /\ t.likely_true <= s.likely_true
      /\ t.false >= s.false - 1 /\ t.malicious >= s.malicious + 1
      /\ t.quality = s.quality /\ t.corroborated = s.corroborated /\ t.months = s.months
    BY <1>2, <1>4, <1>6, <1>7 DEF Standing!Stats, Standing!Classes
<1>10. 2 * t.validated + 3 * t.action_taken <= 2 * s.validated + 3 * s.action_taken + 3
    BY <1>2, OutcomeAdds DEF Standing!Stats
<1>11. Standing!CredibilityScore(t) <= Standing!CredibilityScore(s)
    <2> HIDE DEF s, t
    <2> QED
        BY <1>3, <1>8, <1>9, <1>10, MaliciousLowersScore
<1> QED
    BY <1>11 DEF Standing!Score

LEMMA RestrictionStep ==
    ASSUME StandingInv, [Standing!Next]_(Standing!vars), count' # count,
           \A k \in {"false", "malicious"} : ~(count'[k] < count[k])
    PROVE  Standing!Severity(Standing!Restriction') >= Standing!Severity(Standing!Restriction)
<1>1. count'["false"] >= count["false"] /\ count'["malicious"] >= count["malicious"]
    <2>1. count \in [Standing!Classes -> Nat] /\ count' \in [Standing!Classes -> Nat]
        BY StandingStep DEF StandingInv
    <2> QED
        BY <2>1 DEF Standing!Classes
<1>2. /\ count["false"] \in Nat /\ count["malicious"] \in Nat
      /\ count'["false"] \in Nat /\ count'["malicious"] \in Nat
    BY StandingStep DEF StandingInv, Standing!Classes
<1> DEFINE rank(f, m) == IF m >= 3 THEN 4 ELSE IF m >= 2 \/ f >= 5 THEN 3
                         ELSE IF m >= 1 \/ f >= 3 THEN 2 ELSE IF f >= 1 THEN 1 ELSE 0
<1>3. /\ Standing!Severity(Standing!Restriction) = rank(count["false"], count["malicious"])
      /\ Standing!Severity(Standing!Restriction') = rank(count'["false"], count'["malicious"])
    BY DEF Standing!Severity, Standing!Restriction, Standing!RestrictionLevel
<1>4. rank(count'["false"], count'["malicious"]) >= rank(count["false"], count["malicious"])
    BY <1>1, <1>2
<1> QED
    BY <1>3, <1>4

(* A reporter's standing is earned, for any history: the tier that spares  *)
(* reports a review takes four reports and a true one, a malicious report  *)
(* never raises the score whatever outcome goes with it, and only a        *)
(* verdict on a report that had been judged eases a restriction:           *)
(* refreshCredibilityProfile after each of the reports' transactions.      *)
THEOREM StandingEarned == SafetySpec => StandingIsEarned
<1>1. StandingInv => (part = "standing" => Standing!HighTierIsEarned)
    BY HighTier
<1>2. StandingInv /\ [SafetyNext]_<< part, phoneVars, reportVars >> =>
        [count'["malicious"] > count["malicious"]
           => Standing!Score' <= Standing!Score]_(Standing!vars)
    BY StandingSteps, MaliciousStep
<1>3. StandingInv /\ [SafetyNext]_<< part, phoneVars, reportVars >> =>
        [count' # count =>
           \/ \E from \in {"false", "malicious"} : count'[from] < count[from]
           \/ Standing!Severity(Standing!Restriction')
                >= Standing!Severity(Standing!Restriction)]_(Standing!vars)
    BY StandingSteps, RestrictionStep
<1> QED
    BY <1>1, <1>2, <1>3, StandingInductive, PTL
       DEF SafetySpec, StandingIsEarned, Standing!MaliciousNeverRaises,
           Standing!RestrictionNeverEases

-----------------------------------------------------------------------------
(* The reports of one user under review: ReportReview.                     *)

CallSet ==
    [step : {"idle", "read", "written", "counted", "scored", "done"},
     kind : {"create", "signal", "verdict"}, report : ReviewReports \cup {NoReport},
     read : Review!Classes \cup {Review!Unset}, next : Review!Classes \cup {Review!Unset},
     confirms : 0..1, level : Review!Levels]

(* What a signal has read as final it writes again, and nobody confirms a  *)
(* report twice, be it in two transactions that overlap.                   *)
ReviewInv ==
    /\ class \in [ReviewReports -> Review!Classes \cup {Review!Unset}]
    /\ confirmed \in [ReviewReports -> Nat]
    /\ level \in Review!Levels
    /\ call \in [ReviewCalls -> CallSet]
    /\ \A c \in ReviewCalls :
        /\ call[c].kind = "signal" /\ call[c].read \in Review!Final => call[c].next = call[c].read
        /\ call[c].kind = "create" => call[c].read = Review!Unset
    /\ \A r \in ReviewReports : Review!Confirming(r) <= Others

(* The transactions that are at confirming a report.                       *)
Voices(r) == {c \in ReviewCalls : call[c].report = r /\ call[c].confirms = 1}

LEMMA ReviewSteps ==
    ASSUME [SafetyNext]_<< part, phoneVars, reportVars >> PROVE [Review!Next]_(Review!vars)
BY DEF SafetyNext, JourneyNext, EmergencyNext, GuardianNext, OtpNext, StandingNext,
       SpreadNext, ReviewNext, phoneVars, reportVars, reviewVars, Review!vars

LEMMA VoicesCount ==
    ASSUME NEW r
    PROVE  /\ IsFiniteSet(Voices(r)) /\ Cardinality(Voices(r)) \in Nat
           /\ Review!Confirming(r) = confirmed[r] + Cardinality(Voices(r))
<1>1. IsFiniteSet(Voices(r))
    BY ReportAssumption, FS_Subset DEF Voices
<1>2. Review!Confirming(r) = confirmed[r] + Cardinality(Voices(r))
    BY DEF Voices, Review!Confirming, Review!Cardinality, Cardinality
<1> QED
    BY <1>1, <1>2, FS_CardinalityType

LEMMA VoicesCountNext ==
    ASSUME NEW CONSTANT r
    PROVE  (/\ IsFiniteSet(Voices(r)) /\ Cardinality(Voices(r)) \in Nat
            /\ Review!Confirming(r) = confirmed[r] + Cardinality(Voices(r)))'
BY VoicesCount, PTL

LEMMA IdleTyped == Review!Idle \in CallSet
BY DEF Review!Idle, CallSet, Review!Levels

LEMMA ReviewInit == Review!Init => ReviewInv
<1> SUFFICES ASSUME Review!Init PROVE ReviewInv
    OBVIOUS
<1>1. call \in [ReviewCalls -> CallSet] /\ \A c \in ReviewCalls : call[c] = Review!Idle
    BY IdleTyped DEF Review!Init
<1>2. ASSUME NEW r \in ReviewReports PROVE Review!Confirming(r) <= Others
    <2>1. Voices(r) = {}
        BY <1>1 DEF Voices, Review!Idle
    <2>2. Cardinality(Voices(r)) = 0 /\ confirmed[r] = 0
        BY <2>1, FS_EmptySet DEF Review!Init
    <2> QED
        BY <2>2, VoicesCount, ReportAssumption
<1> QED
    BY <1>1, <1>2 DEF Review!Init, ReviewInv, Review!Idle, Review!Levels, Review!Final, Review!Unset

(* A transaction that begins, goes on or ends: only its own entry changes, *)
(* and with it at most its own voice.                                      *)
LEMMA OneVoice ==
    ASSUME ReviewInv, NEW c \in ReviewCalls, NEW t \in CallSet, call' = [call EXCEPT ![c] = t],
           NEW CONSTANT r \in ReviewReports
    PROVE  Cardinality(Voices(r)') = Cardinality(Voices(r))
             - (IF call[c].report = r /\ call[c].confirms = 1 THEN 1 ELSE 0)
             + (IF t.report = r /\ t.confirms = 1 THEN 1 ELSE 0)
<1>1. \A d \in ReviewCalls : call'[d] = IF d = c THEN t ELSE call[d]
    BY DEF ReviewInv
<1>2. IsFiniteSet(Voices(r) \ {c}) /\ Cardinality(Voices(r) \ {c}) \in Nat
    BY VoicesCount, FS_Subset, FS_CardinalityType
<1>3. c \notin Voices(r) \ {c}
    OBVIOUS
<1>4. Cardinality((Voices(r) \ {c}) \cup {c}) = Cardinality(Voices(r) \ {c}) + 1
    BY <1>2, <1>3, FS_AddElement
<1>5. /\ call[c].report = r /\ call[c].confirms = 1 => Voices(r) = (Voices(r) \ {c}) \cup {c}
      /\ ~(call[c].report = r /\ call[c].confirms = 1) => Voices(r) = Voices(r) \ {c}
    BY DEF Voices
<1>6. /\ t.report = r /\ t.confirms = 1 => Voices(r)' = (Voices(r) \ {c}) \cup {c}
      /\ ~(t.report = r /\ t.confirms = 1) => Voices(r)' = Voices(r) \ {c}
    BY <1>1 DEF Voices
<1> DEFINE without == Cardinality(Voices(r) \ {c})
<1>7. /\ Cardinality(Voices(r)) =
             without + (IF call[c].report = r /\ call[c].confirms = 1 THEN 1 ELSE 0)
      /\ Cardinality(Voices(r)') = without + (IF t.report = r /\ t.confirms = 1 THEN 1 ELSE 0)
    BY <1>2, <1>4, <1>5, <1>6
<1> HIDE DEF without
<1> QED
    BY <1>2, <1>7 DEF without

(* A transaction that goes on without writing what others see.             *)
LEMMA OwnStep ==
    ASSUME ReviewInv, NEW c \in ReviewCalls, NEW t \in CallSet,
           call' = [call EXCEPT ![c] = t], UNCHANGED << class, confirmed, level >>,
           t.kind = "signal" /\ t.read \in Review!Final => t.next = t.read,
           t.kind = "create" => t.read = Review!Unset,
           \A r \in ReviewReports : t.report = r /\ t.confirms = 1 =>
               \/ call[c].report = r /\ call[c].confirms = 1
               \/ Review!Confirming(r) + 1 <= Others
    PROVE  ReviewInv'
<1>1. ASSUME NEW r \in ReviewReports PROVE Review!Confirming(r)' <= Others
    <2>1. /\ Cardinality(Voices(r)) \in Nat /\ Cardinality(Voices(r)') \in Nat
          /\ confirmed[r] \in Nat /\ confirmed'[r] = confirmed[r]
          /\ Review!Confirming(r) = confirmed[r] + Cardinality(Voices(r))
          /\ Review!Confirming(r)' = confirmed'[r] + Cardinality(Voices(r)')
          /\ Review!Confirming(r) <= Others
        BY VoicesCount, VoicesCountNext DEF ReviewInv
    <2>2. Cardinality(Voices(r)') = Cardinality(Voices(r))
             - (IF call[c].report = r /\ call[c].confirms = 1 THEN 1 ELSE 0)
             + (IF t.report = r /\ t.confirms = 1 THEN 1 ELSE 0)
        BY OneVoice
    <2> QED
        BY <2>1, <2>2, ReportAssumption
<1>2. call' \in [ReviewCalls -> CallSet]
    BY DEF ReviewInv
<1>3. \A d \in ReviewCalls : call'[d] = IF d = c THEN t ELSE call[d]
    BY DEF ReviewInv
<1> QED
    BY <1>1, <1>2, <1>3 DEF ReviewInv

LEMMA DeriveTyped ==
    ASSUME NEW existing \in Review!Classes \cup {Review!Unset}, NEW n
    PROVE  /\ Review!Derive(existing, n) \in Review!Classes \cup {Review!Unset}
           /\ existing \in Review!Final => Review!Derive(existing, n) = existing
BY DEF Review!Derive, Review!InitialClassification, Review!Classes

LEMMA BeginOK ==
    ASSUME ReviewInv, NEW c \in ReviewCalls, NEW r \in ReviewReports,
           \/ Review!Create(c, r)
           \/ \E confirms \in 0..1 : Review!Signal(c, r, confirms)
           \/ \E verdict \in Review!Classes : Review!Classify(c, r, verdict)
    PROVE  ReviewInv'
<1>1. ASSUME NEW kind \in {"create", "signal", "verdict"},
             NEW read \in Review!Classes \cup {Review!Unset},
             NEW next \in Review!Classes \cup {Review!Unset},
             NEW confirms \in 0..1, NEW step \in {"written", "read"},
             call[c] = Review!Idle, Review!Begin(c, kind, r, read, next, confirms, step),
             UNCHANGED << class, confirmed, level >>,
             kind = "signal" /\ read \in Review!Final => next = read,
             kind = "create" => read = Review!Unset,
             confirms = 1 => Review!Confirming(r) + 1 <= Others
      PROVE  ReviewInv'
    <2> DEFINE t == [Review!Idle EXCEPT !.step = step, !.kind = kind, !.report = r,
                                        !.read = read, !.next = next, !.confirms = confirms]
    <2>1. /\ t \in CallSet /\ t.kind = kind /\ t.read = read /\ t.next = next
          /\ t.report = r /\ t.confirms = confirms
        BY IdleTyped DEF CallSet
    <2>2. call' = [call EXCEPT ![c] = t]
        BY <1>1 DEF Review!Begin
    <2> HIDE DEF t
    <2> QED
        BY <1>1, <2>1, <2>2, OwnStep
<1>2. CASE Review!Create(c, r)
    <2>1. Review!Unset \in Review!Classes \cup {Review!Unset}
        OBVIOUS
    <2>2. Review!Derive(Review!Unset, 0) \in Review!Classes \cup {Review!Unset}
        BY <2>1, DeriveTyped
    <2> QED
        BY <1>1, <1>2, <2>1, <2>2 DEF Review!Create
<1>3. ASSUME NEW confirms \in 0..1, Review!Signal(c, r, confirms) PROVE ReviewInv'
    <2>1. class[r] \in Review!Classes \cup {Review!Unset}
        BY DEF ReviewInv
    <2>2. /\ Review!Derive(class[r], confirmed[r] + confirms) \in Review!Classes \cup {Review!Unset}
          /\ class[r] \in Review!Final =>
               Review!Derive(class[r], confirmed[r] + confirms) = class[r]
        BY <2>1, DeriveTyped
    <2> QED
        BY <1>1, <1>3, <2>1, <2>2 DEF Review!Signal
<1>4. ASSUME NEW verdict \in Review!Classes, Review!Classify(c, r, verdict) PROVE ReviewInv'
    <2>1. class[r] \in Review!Classes \cup {Review!Unset}
        BY DEF ReviewInv
    <2> QED
        BY <1>1, <1>4, <2>1 DEF Review!Classify
<1> QED
    BY <1>2, <1>3, <1>4

LEMMA GoOnOK ==
    ASSUME ReviewInv, NEW c \in ReviewCalls,
           Review!Write(c) \/ Review!Count(c) \/ Review!WriteProfile(c) \/ Review!Rederive(c)
    PROVE  ReviewInv'
<1>1. call[c] \in CallSet
    BY DEF ReviewInv
<1>2. ASSUME NEW t \in CallSet, call' = [call EXCEPT ![c] = t],
             UNCHANGED << class, confirmed, level >>,
             t.report = call[c].report, t.confirms = call[c].confirms, t.read = call[c].read,
             t.kind = call[c].kind, t.next = call[c].next \/ t.kind = "verdict"
      PROVE  ReviewInv'
    BY <1>2, OwnStep DEF ReviewInv
<1>3. CASE Review!Write(c)
    <2> DEFINE t == [call[c] EXCEPT !.step = "written"]
    <2>1. /\ t \in CallSet /\ t.report = call[c].report /\ t.confirms = call[c].confirms
          /\ t.read = call[c].read /\ t.kind = call[c].kind /\ t.next = call[c].next
        BY <1>1 DEF CallSet
    <2> QED
        BY <1>2, <1>3, <2>1 DEF Review!Write
<1>4. CASE Review!Count(c)
    <2> DEFINE rows == [r \in ReviewReports |-> Review!Seen(c, r)]
               t == [call[c] EXCEPT !.step = "counted",
                                    !.level = Review!RestrictionLevel(Review!Tally(rows))]
    <2>1. Review!RestrictionLevel(Review!Tally(rows)) \in Review!Levels
        BY DEF Review!RestrictionLevel, Review!Levels
    <2>2. /\ t \in CallSet /\ t.report = call[c].report /\ t.confirms = call[c].confirms
          /\ t.read = call[c].read /\ t.kind = call[c].kind /\ t.next = call[c].next
        BY <1>1, <2>1 DEF CallSet
    <2>3. call' = [call EXCEPT ![c] = t]
        BY <1>4 DEF Review!Count
    <2> QED
        BY <1>2, <1>4, <2>2, <2>3 DEF Review!Count
<1>5. CASE Review!WriteProfile(c)
    <2> DEFINE t == [call[c] EXCEPT !.step = "scored"]
    <2>1. /\ t \in CallSet /\ t.report = call[c].report /\ t.confirms = call[c].confirms
          /\ t.read = call[c].read /\ t.kind = call[c].kind /\ t.next = call[c].next
        BY <1>1 DEF CallSet
    <2> QED
        BY <1>2, <1>5, <2>1 DEF Review!WriteProfile
<1>6. CASE Review!Rederive(c)
    <2> DEFINE next == Review!Derive(call[c].next, confirmed[call[c].report])
               t == [call[c] EXCEPT !.step = "done", !.next = next]
    <2>1. next \in Review!Classes \cup {Review!Unset}
        BY <1>1, DeriveTyped DEF CallSet
    <2>2. /\ t \in CallSet /\ t.report = call[c].report /\ t.confirms = call[c].confirms
          /\ t.read = call[c].read /\ t.kind = call[c].kind
        BY <1>1, <2>1 DEF CallSet
    <2>3. call[c].kind = "verdict" /\ call' = [call EXCEPT ![c] = t]
        BY <1>6 DEF Review!Rederive
    <2> QED
        BY <1>2, <1>6, <2>2, <2>3 DEF Review!Rederive
<1> QED
    BY <1>3, <1>4, <1>5, <1>6

LEMMA RollBackOK == ASSUME ReviewInv, NEW c \in ReviewCalls, Review!RollBack(c) PROVE ReviewInv'
<1>1. /\ Review!Idle.kind = "signal" /\ Review!Idle.read \notin Review!Final
      /\ Review!Idle.confirms = 0
    BY DEF Review!Idle, Review!Final, Review!Unset
<1>2. call' = [call EXCEPT ![c] = Review!Idle] /\ UNCHANGED << class, confirmed, level >>
    BY DEF Review!RollBack
<1>3. /\ Review!Idle.kind = "signal" /\ Review!Idle.read \in Review!Final =>
           Review!Idle.next = Review!Idle.read
      /\ Review!Idle.kind = "create" => Review!Idle.read = Review!Unset
      /\ \A r \in ReviewReports : Review!Idle.report = r /\ Review!Idle.confirms = 1 =>
           \/ call[c].report = r /\ call[c].confirms = 1
           \/ Review!Confirming(r) + 1 <= Others
    BY <1>1
<1> QED
    BY <1>2, <1>3, IdleTyped, OwnStep

LEMMA CommitOK == ASSUME ReviewInv, NEW c \in ReviewCalls, Review!Commit(c) PROVE ReviewInv'
<1> DEFINE r == call[c].report
<1>1. /\ class' = [class EXCEPT ![r] = call[c].next] /\ level' = call[c].level
      /\ confirmed' = [confirmed EXCEPT ![r] = confirmed[r] + call[c].confirms]
      /\ call' = [call EXCEPT ![c] = Review!Idle]
    BY DEF Review!Commit
<1>2. call[c] \in CallSet
    BY DEF ReviewInv
<1>3. /\ call[c].next \in Review!Classes \cup {Review!Unset} /\ call[c].level \in Review!Levels
      /\ call[c].confirms \in {0, 1}
    BY <1>2 DEF CallSet
<1>4. /\ class' \in [ReviewReports -> Review!Classes \cup {Review!Unset}]
      /\ level' \in Review!Levels
      /\ confirmed' \in [ReviewReports -> Nat]
      /\ call' \in [ReviewCalls -> CallSet]
    <2>1. confirmed[r] + call[c].confirms \in Nat \/ r \notin ReviewReports
        BY <1>3 DEF ReviewInv
    <2> QED
        BY <1>1, <1>3, <2>1, IdleTyped DEF ReviewInv
<1>5. ASSUME NEW CONSTANT s \in ReviewReports PROVE Review!Confirming(s)' <= Others
    <2>1. /\ Cardinality(Voices(s)) \in Nat /\ Cardinality(Voices(s)') \in Nat
          /\ confirmed[s] \in Nat
          /\ Review!Confirming(s) = confirmed[s] + Cardinality(Voices(s))
          /\ Review!Confirming(s)' = confirmed'[s] + Cardinality(Voices(s)')
          /\ Review!Confirming(s) <= Others
        BY VoicesCount, VoicesCountNext DEF ReviewInv
    <2>2. Cardinality(Voices(s)') = Cardinality(Voices(s))
            - (IF r = s /\ call[c].confirms = 1 THEN 1 ELSE 0)
        <3>1. Review!Idle.confirms = 0
            BY DEF Review!Idle
        <3>2. Cardinality(Voices(s)') = Cardinality(Voices(s))
                - (IF call[c].report = s /\ call[c].confirms = 1 THEN 1 ELSE 0)
                + (IF Review!Idle.report = s /\ Review!Idle.confirms = 1 THEN 1 ELSE 0)
            BY <1>1, IdleTyped, OneVoice
        <3> QED
            BY <2>1, <3>1, <3>2
    <2>3. confirmed'[s] = confirmed[s] + (IF r = s /\ call[c].confirms = 1 THEN 1 ELSE 0)
        BY <1>1, <1>3, <2>1 DEF ReviewInv
    <2> QED
        BY <2>1, <2>2, <2>3
<1>6. \A d \in ReviewCalls : call'[d] = IF d = c THEN Review!Idle ELSE call[d]
    BY <1>1 DEF ReviewInv
<1>7. Review!Idle.kind = "signal" /\ Review!Idle.read \notin Review!Final
    BY DEF Review!Idle, Review!Final, Review!Unset
<1> QED
    BY <1>4, <1>5, <1>6, <1>7 DEF ReviewInv

LEMMA ReviewStep == ASSUME ReviewInv, [Review!Next]_(Review!vars) PROVE ReviewInv'
<1>1. CASE UNCHANGED Review!vars
    <2>1. UNCHANGED << class, confirmed, level, call >>
        BY <1>1 DEF Review!vars
    <2>2. \A r \in ReviewReports : Review!Confirming(r)' = Review!Confirming(r)
        BY <2>1 DEF Review!Confirming
    <2> QED
        BY <2>1, <2>2 DEF ReviewInv
<1>2. ASSUME NEW c \in ReviewCalls, NEW r \in ReviewReports,
             \/ Review!Create(c, r)
             \/ \E confirms \in 0..1 : Review!Signal(c, r, confirms)
             \/ \E verdict \in Review!Classes : Review!Classify(c, r, verdict)
      PROVE  ReviewInv'
    BY <1>2, BeginOK
<1>3. ASSUME NEW c \in ReviewCalls,
             \/ Review!Write(c) \/ Review!Count(c) \/ Review!WriteProfile(c) \/ Review!Rederive(c)
             \/ Review!Commit(c) \/ Review!RollBack(c)
      PROVE  ReviewInv'
    BY <1>3, GoOnOK, CommitOK, RollBackOK
<1> QED
    BY <1>1, <1>2, <1>3 DEF Review!Next

LEMMA ReviewInductive == SafetySpec => []ReviewInv
<1>1. SafetyInit => ReviewInv
    BY ReviewInit DEF SafetyInit
<1>2. ReviewInv /\ [SafetyNext]_<< part, phoneVars, reportVars >> => ReviewInv'
    BY ReviewSteps, ReviewStep
<1> QED
    BY <1>1, <1>2, PTL DEF SafetySpec

LEMMA ReviewTyped == ASSUME ReviewInv PROVE Review!TypeOK
<1>1. ASSUME NEW r \in ReviewReports PROVE confirmed[r] \in 0..Others
    <2>1. /\ confirmed[r] \in Nat /\ Cardinality(Voices(r)) \in Nat
          /\ confirmed[r] + Cardinality(Voices(r)) <= Others
        BY VoicesCount DEF ReviewInv
    <2> QED
        BY <2>1, ReportAssumption
<1> QED
    BY <1>1 DEF ReviewInv, Review!TypeOK, CallSet

(* Who takes a final class away.                                           *)
LEMMA HeededStep ==
    ASSUME ReviewInv, [Review!Next]_(Review!vars), NEW r \in ReviewReports,
           class[r] \in Review!Final, class'[r] # class[r]
    PROVE  \E c \in ReviewCalls : /\ call[c].report = r /\ call'[c] = Review!Idle
                                  /\ call[c].kind = "verdict" \/ call[c].read # class[r]
<1>1. PICK c \in ReviewCalls : Review!Commit(c)
    BY DEF Review!Next, Review!vars, Review!Create, Review!Signal, Review!Classify, Review!Write,
       Review!Count, Review!WriteProfile, Review!Rederive, Review!RollBack
<1>2. /\ class' = [class EXCEPT ![call[c].report] = call[c].next]
      /\ call' = [call EXCEPT ![c] = Review!Idle]
    BY <1>1 DEF Review!Commit
<1>3. call[c].report = r /\ call[c].next # class[r] /\ call'[c] = Review!Idle
    BY <1>2 DEF ReviewInv
<1>4. ASSUME call[c].kind # "verdict" PROVE call[c].read # class[r]
    <2>1. CASE call[c].kind = "signal"
        BY <1>3, <2>1 DEF ReviewInv
    <2>2. CASE call[c].kind = "create"
        BY <2>2 DEF ReviewInv, Review!Final, Review!Unset
    <2> QED
        BY <1>4, <2>1, <2>2 DEF ReviewInv, CallSet
<1> QED
    BY <1>3, <1>4

(* A final verdict is undone only by a reviewer or by a signal that had    *)
(* read the report before the verdict, however many transactions overlap:  *)
(* refreshReportSignals keeps what it has read as final.                   *)
THEOREM VerdictHeeded == SafetySpec => VerdictIsHeeded
<1>1. ReviewInv /\ [SafetyNext]_<< part, phoneVars, reportVars >> =>
        [\A r \in ReviewReports :
           class[r] \in Review!Final /\ class'[r] # class[r] =>
             \E c \in ReviewCalls :
               /\ call[c].report = r /\ call'[c] = Review!Idle
               /\ call[c].kind = "verdict" \/ call[c].read # class[r]]_(Review!vars)
    BY ReviewSteps, HeededStep
<1> QED
    BY <1>1, ReviewInductive, PTL DEF SafetySpec, VerdictIsHeeded, Review!VerdictIsHeeded

-----------------------------------------------------------------------------
(* One-time codes: OtpChallenge.                                           *)

(* The types of Otp!TypeOK, but for the bound on the wrong answers.        *)
OtpTypes ==
    /\ made \in 0..MaxCodes /\ consumed \subseteq 1..made /\ codesExpired \subseteq 1..made
    /\ attempts \in [Otp!Codes -> 0..MaxAttempts]
    /\ verification \in
          [OtpCalls -> [at : {"idle", "sent", "read", "found", "accepted", "rejected"},
                        how : Otp!Hows, code : 0..MaxCodes, found : 0..MaxCodes]]
    /\ accepted \subseteq OtpCalls
    /\ rejected \in [Otp!Codes -> Nat]
    /\ spent \in [OtpCalls -> SUBSET Otp!Codes]

(* What a sign-in has read of the codes stays what it was: a code that was *)
(* spent when it began is not the one it finds.                            *)
OtpReads ==
    \A c \in OtpCalls :
        /\ verification[c].at # "read"
        /\ spent[c] \subseteq consumed
        /\ verification[c].at = "found" => verification[c].found \in 0..made \ spent[c]
        /\ c \in accepted =>
              /\ verification[c].at = "accepted"
              /\ verification[c].code = verification[c].found
              /\ verification[c].found \in consumed
              /\ verification[c].found \notin spent[c]

(* A code a sign-in holds is not consumed, and held by one sign-in only.   *)
OtpLocks ==
    /\ \A c \in OtpCalls : Otp!Holds(c) # 0 => Otp!Holds(c) \notin consumed
    /\ \A c, d \in OtpCalls : Otp!Holds(c) # 0 /\ Otp!Holds(c) = Otp!Holds(d) => c = d

(* The wrong answers to a code are counted by the sign-ins that gave them. *)
RejectedCalls(i) == {c \in OtpCalls : verification[c].at = "rejected" /\ verification[c].found = i}
OtpRejections == \A i \in Otp!Codes : rejected[i] <= Cardinality(RejectedCalls(i))

OtpInv == OtpTypes /\ OtpReads /\ OtpLocks /\ Otp!LinkedOnce /\ OtpRejections


LEMMA OtpCardinality == ASSUME NEW S PROVE Otp!Cardinality(S) = Cardinality(S)
BY DEF Otp!Cardinality, Cardinality

LEMMA NewestIsOpen ==
    ASSUME OtpTypes
    PROVE  /\ Otp!Newest \in 0..MaxCodes
           /\ Otp!Newest # 0 => Otp!Newest \in Otp!Codes /\ Otp!Open(Otp!Newest)
<1> DEFINE O == {i \in Otp!Codes : Otp!Open(i)}
<1>1. CASE O = {}
    <2>1. Otp!Newest = 0 BY <1>1 DEF Otp!Newest
    <2> QED BY <2>1, OtpAssumption
<1>2. CASE O # {}
    <2>1. O \in SUBSET (1..MaxCodes) BY DEF Otp!Codes
    <2>2. \E x \in O : \A y \in O : y <= x
        <3> HIDE DEF O
        <3> QED BY <2>1, <1>2, GreatestNumber, OtpAssumption
    <2>3. \E i \in Otp!Codes : Otp!Open(i) /\ \A k \in Otp!Codes : Otp!Open(k) => k <= i
        BY <2>2
    <2>4. Otp!Newest =
             CHOOSE i \in Otp!Codes : Otp!Open(i) /\ \A k \in Otp!Codes : Otp!Open(k) => k <= i
        BY <2>3 DEF Otp!Newest
    <2>5. Otp!Newest \in Otp!Codes /\ Otp!Open(Otp!Newest) BY <2>3, <2>4
    <2> QED BY <2>5, OtpAssumption DEF Otp!Codes
<1> QED BY <1>1, <1>2

LEMMA OtpInitially == Otp!Init => OtpInv
<1> SUFFICES ASSUME Otp!Init PROVE OtpInv OBVIOUS
<1> USE OtpAssumption DEF Otp!Init, Otp!NoCall
<1>1. OtpTypes BY DEF OtpTypes, Otp!Hows, Otp!Codes
<1>2. OtpReads BY DEF OtpReads
<1>3. OtpLocks BY DEF OtpLocks, Otp!Holds
<1>4. Otp!LinkedOnce BY DEF Otp!LinkedOnce
<1>5. OtpRejections
    <2> SUFFICES ASSUME NEW i \in Otp!Codes PROVE 0 <= Cardinality(RejectedCalls(i))
        BY DEF OtpRejections, Otp!Codes
    <2>1. IsFiniteSet(RejectedCalls(i)) BY FS_Subset DEF RejectedCalls
    <2> QED BY <2>1, FS_CardinalityType
<1> QED BY <1>1, <1>2, <1>3, <1>4, <1>5 DEF OtpInv

(* A step that changes no call, no history and none of the codes consumed *)
LEMMA OtpTablePreserves ==
    ASSUME OtpInv, OtpTypes', made <= made',
           UNCHANGED << consumed, verification, accepted, rejected, spent >>
    PROVE  OtpInv'
<1>1. \A n \in 0..made : n \in 0..made' BY DEF OtpTypes, OtpInv
<1>2. OtpReads' BY <1>1 DEF OtpInv, OtpReads
<1>3. OtpLocks' /\ Otp!LinkedOnce' BY DEF OtpInv, OtpLocks, Otp!Holds, Otp!LinkedOnce
<1>4. OtpRejections' BY DEF OtpInv, OtpRejections, RejectedCalls, Otp!Codes
<1> QED BY <1>2, <1>3, <1>4 DEF OtpInv

(* A call that was not rejected before and is not afterwards leaves the count *)
LEMMA OtpRejectionsKept ==
    ASSUME OtpInv, NEW c \in OtpCalls, UNCHANGED rejected,
           verification[c].at # "rejected", verification'[c].at # "rejected",
           \A d \in OtpCalls \ {c} : verification'[d] = verification[d]
    PROVE  OtpRejections'
<1> SUFFICES ASSUME NEW i \in Otp!Codes
             PROVE  rejected[i] <= Cardinality(RejectedCalls(i)')
    BY DEF OtpRejections, Otp!Codes
<1>1. RejectedCalls(i)' = RejectedCalls(i) BY DEF RejectedCalls
<1> QED BY <1>1 DEF OtpInv, OtpRejections

LEMMA OtpCreatePreserves ==
    ASSUME OtpInv, Otp!CreatePhoneChallenge PROVE OtpInv'
<1>1. OtpTypes' BY OtpAssumption DEF OtpInv, OtpTypes, Otp!CreatePhoneChallenge, Otp!Codes
<1>2. made <= made' BY DEF OtpInv, OtpTypes, Otp!CreatePhoneChallenge
<1> QED BY <1>1, <1>2, OtpTablePreserves DEF Otp!CreatePhoneChallenge

LEMMA OtpExpirePreserves ==
    ASSUME OtpInv, NEW i \in Otp!Codes, Otp!Expire(i) PROVE OtpInv'
<1>1. OtpTypes' BY DEF OtpInv, OtpTypes, Otp!Expire, Otp!Codes
<1>2. made <= made' BY DEF OtpInv, OtpTypes, Otp!Expire
<1> QED BY <1>1, <1>2, OtpTablePreserves DEF Otp!Expire

LEMMA OtpSubmitPreserves ==
    ASSUME OtpInv, NEW c \in OtpCalls, NEW how \in Otp!Hows, NEW code \in 0..MaxCodes,
           Otp!Submit(c, how, code)
    PROVE  OtpInv'
<1> USE DEF OtpInv, Otp!Submit, Otp!table
<1>1. verification'[c] = [at |-> "sent", how |-> how, code |-> code, found |-> 0]
    BY DEF OtpTypes
<1>2. \A d \in OtpCalls \ {c} : verification'[d] = verification[d] /\ spent'[d] = spent[d]
    BY DEF OtpTypes
<1>3. spent'[c] = consumed BY DEF OtpTypes
<1>4. OtpTypes' BY OtpAssumption DEF OtpTypes, Otp!Codes
<1>5. OtpReads' BY <1>1, <1>2, <1>3 DEF OtpReads
<1>6. OtpLocks' BY <1>1, <1>2 DEF OtpLocks, Otp!Holds
<1>7. Otp!LinkedOnce'
    <2>1. c \notin accepted BY DEF OtpReads
    <2>2. \A d \in accepted : verification'[d] = verification[d]
        BY <2>1, <1>2 DEF OtpTypes
    <2> QED BY <2>2 DEF Otp!LinkedOnce
<1>8. OtpRejections' BY <1>1, <1>2, OtpRejectionsKept
<1> QED BY <1>4, <1>5, <1>6, <1>7, <1>8

LEMMA OtpSelectPreserves ==
    ASSUME OtpInv, NEW c \in OtpCalls, Otp!Select(c) PROVE OtpInv'
<1> USE DEF OtpInv, Otp!Select, Otp!table
<1> DEFINE n == Otp!Newest
<1>1. /\ n \in 0..MaxCodes
      /\ n # 0 => n \in Otp!Codes /\ Otp!Open(n)
    BY NewestIsOpen
<1> HIDE DEF n
<1>2. /\ verification'[c].at = "found" /\ verification'[c].found = n
      /\ verification'[c].how = verification[c].how
    BY DEF OtpTypes, n
<1>3. \A d \in OtpCalls \ {c} : verification'[d] = verification[d]
    BY DEF OtpTypes
<1>4. n \notin consumed BY <1>1 DEF Otp!Open, OtpTypes
<1>5. OtpTypes'
    <2>1. verification'[c] \in [at : {"idle", "sent", "read", "found", "accepted", "rejected"},
                               how : Otp!Hows, code : 0..MaxCodes, found : 0..MaxCodes]
        BY <1>1 DEF OtpTypes, n
    <2> QED BY <2>1 DEF OtpTypes
<1>6. OtpReads'
    <2>1. c \notin accepted /\ spent[c] \subseteq consumed BY DEF OtpReads
    <2>2. n \in 0..made BY <1>1, OtpAssumption DEF Otp!Open, Otp!Codes, OtpTypes
    <2>3. UNCHANGED << made, consumed, accepted, spent >> OBVIOUS
    <2>4. ASSUME NEW d \in OtpCalls \ {c}
          PROVE  /\ verification'[d].at # "read"
                 /\ verification'[d].at = "found" => verification'[d].found \in 0..made \ spent[d]
                 /\ d \in accepted =>
                        /\ verification'[d].at = "accepted"
                        /\ verification'[d].code = verification'[d].found
                        /\ verification'[d].found \in consumed \ spent[d]
        BY <1>3 DEF OtpReads
    <2>5. n \in 0..made \ spent[c] BY <2>1, <2>2, <1>4
    <2>6. \A d \in OtpCalls : spent[d] \subseteq consumed BY DEF OtpReads
    <2> HIDE DEF OtpInv, Otp!Select
    <2> QED BY <2>1, <2>3, <2>4, <2>5, <2>6, <1>2 DEF OtpReads
<1>7. OtpLocks'
    <2>1. Otp!Holds(c)' = IF verification[c].how = "link" THEN n ELSE 0
        BY <1>2 DEF Otp!Holds
    <2>2. \A d \in OtpCalls \ {c} : Otp!Holds(d)' = Otp!Holds(d)
        <3> HIDE DEF OtpInv, Otp!Select
        <3> QED BY <1>3 DEF Otp!Holds
    <2>3. verification[c].how = "link" => \A d \in OtpCalls \ {c} : n = 0 \/ Otp!Holds(d) # n
        BY DEF Otp!FreeFor, n
    <2>4. \A d \in OtpCalls : Otp!Holds(d)' # 0 => Otp!Holds(d)' \notin consumed'
        BY <2>1, <2>2, <1>4 DEF OtpLocks
    <2>5. \A d, e \in OtpCalls :
             Otp!Holds(d)' # 0 /\ Otp!Holds(d)' = Otp!Holds(e)' => d = e
        BY <2>1, <2>2, <2>3 DEF OtpLocks
    <2> QED BY <2>4, <2>5 DEF OtpLocks
<1>8. Otp!LinkedOnce'
    <2>1. c \notin accepted BY DEF OtpReads
    <2>2. \A d \in accepted : verification'[d] = verification[d]
        BY <2>1, <1>3 DEF OtpTypes
    <2> QED BY <2>2 DEF Otp!LinkedOnce
<1>9. OtpRejections' BY <1>2, <1>3, OtpRejectionsKept
<1> QED BY <1>5, <1>6, <1>7, <1>8, <1>9

LEMMA OtpConsumePreserves ==
    ASSUME OtpInv, NEW c \in OtpCalls, Otp!Consume(c) PROVE OtpInv'
<1> DEFINE i == verification[c].found
<1> USE DEF OtpInv, Otp!Consume
<1>1. verification[c].at = "found" /\ verification[c].code = i BY DEF OtpReads
<1>2. /\ verification'[c].at = "accepted" /\ verification'[c].found = i
      /\ verification'[c].code = i /\ verification'[c].how = verification[c].how
    BY <1>1 DEF OtpTypes
<1>3. \A d \in OtpCalls \ {c} : verification'[d] = verification[d]
    BY DEF OtpTypes
<1>4. i # 0 /\ i \notin spent[c] BY <1>1 DEF OtpReads
<1>5. \A d \in OtpCalls \ {c} : Otp!Holds(d) # i BY <1>4 DEF Otp!FreeFor
<1>6. consumed' = consumed \cup {i} /\ accepted' = accepted \cup {c} /\ c \notin accepted
    BY <1>1 DEF OtpReads
<1>7. OtpTypes'
    <2>1. verification'[c] \in [at : {"idle", "sent", "read", "found", "accepted", "rejected"},
                               how : Otp!Hows, code : 0..MaxCodes, found : 0..MaxCodes]
        BY DEF OtpTypes
    <2>2. verification' \in [OtpCalls -> [at : {"idle", "sent", "read", "found", "accepted", "rejected"},
                               how : Otp!Hows, code : 0..MaxCodes, found : 0..MaxCodes]]
        BY <2>1 DEF OtpTypes
    <2>3. i \in 1..made BY <1>1, <1>4 DEF OtpReads, OtpTypes
    <2> QED BY <2>2, <2>3 DEF OtpTypes
<1>8. OtpReads' BY <1>2, <1>3, <1>4, <1>6 DEF OtpReads
<1>9. OtpLocks'
    <2>1. Otp!Holds(c)' = 0 BY <1>2 DEF Otp!Holds
    <2>2. \A d \in OtpCalls \ {c} : Otp!Holds(d)' = Otp!Holds(d) BY <1>3 DEF Otp!Holds
    <2> QED BY <2>1, <2>2, <1>5, <1>6 DEF OtpLocks
<1>10. Otp!LinkedOnce'
    <2>1. \A d \in accepted : verification'[d] = verification[d]
        BY <1>3, <1>6 DEF OtpTypes
    <2>2. ASSUME NEW d \in accepted, verification[c].how = "link", verification[d].code = i
          PROVE  FALSE
        <3>1. i \in consumed BY <2>2 DEF OtpReads, OtpTypes
        <3>2. Otp!Holds(c) = i BY <1>1, <2>2 DEF Otp!Holds
        <3> QED BY <3>1, <3>2, <1>4 DEF OtpLocks
    <2> QED BY <2>1, <2>2, <1>2, <1>6 DEF Otp!LinkedOnce
<1>11. OtpRejections' BY <1>1, <1>2, <1>3, OtpRejectionsKept
<1> QED BY <1>7, <1>8, <1>9, <1>10, <1>11

LEMMA OtpRejectPreserves ==
    ASSUME OtpInv, NEW c \in OtpCalls, Otp!Reject(c) PROVE OtpInv'
<1> DEFINE i == verification[c].found
<1> USE DEF OtpInv, Otp!Reject, Otp!table
<1>1. verification[c].at = "found" BY DEF OtpReads
<1>2. /\ verification'[c].at = "rejected" /\ verification'[c].found = i
      /\ verification'[c].how = verification[c].how
    BY DEF OtpTypes
<1>3. \A d \in OtpCalls \ {c} : verification'[d] = verification[d]
    BY DEF OtpTypes
<1>4. i \in 0..MaxCodes BY DEF OtpTypes
<1>5. OtpTypes'
    <2>1. verification'[c] \in [at : {"idle", "sent", "read", "found", "accepted", "rejected"},
                               how : Otp!Hows, code : 0..MaxCodes, found : 0..MaxCodes]
        BY DEF OtpTypes
    <2>2. verification' \in [OtpCalls -> [at : {"idle", "sent", "read", "found", "accepted", "rejected"},
                               how : Otp!Hows, code : 0..MaxCodes, found : 0..MaxCodes]]
        BY <2>1 DEF OtpTypes
    <2>3. rejected \in [Otp!Codes -> Nat] BY DEF OtpTypes
    <2>4. i # 0 => rejected[i] + 1 \in Nat BY <1>4, <2>3, OtpAssumption DEF Otp!Codes
    <2>5. rejected' \in [Otp!Codes -> Nat]
        <3>1. rejected' = IF i = 0 THEN rejected ELSE [rejected EXCEPT ![i] = rejected[i] + 1]
            OBVIOUS
        <3> HIDE DEF i, OtpInv, Otp!Reject
        <3> QED BY <2>3, <2>4, <3>1
    <2> QED BY <2>2, <2>5 DEF OtpTypes
<1>6. OtpReads' BY <1>1, <1>2, <1>3 DEF OtpReads
<1>7. OtpLocks'
    <2>1. Otp!Holds(c)' = 0 BY <1>2 DEF Otp!Holds
    <2>2. \A d \in OtpCalls \ {c} : Otp!Holds(d)' = Otp!Holds(d) BY <1>3 DEF Otp!Holds
    <2> QED BY <2>1, <2>2 DEF OtpLocks
<1>8. Otp!LinkedOnce'
    <2>1. c \notin accepted BY <1>1 DEF OtpReads
    <2>2. \A d \in accepted : verification'[d] = verification[d]
        BY <2>1, <1>3 DEF OtpTypes
    <2> QED BY <2>2 DEF Otp!LinkedOnce
<1>9. ASSUME NEW k \in Otp!Codes PROVE rejected'[k] <= Cardinality(RejectedCalls(k)')
    <2>1. IsFiniteSet(RejectedCalls(k)) BY FS_Subset, OtpAssumption DEF RejectedCalls
    <2>2. rejected[k] \in Nat /\ rejected[k] <= Cardinality(RejectedCalls(k))
        BY DEF OtpTypes, OtpRejections
    <2>3. CASE k # i
        <3>1. RejectedCalls(k)' = RejectedCalls(k) BY <1>1, <1>2, <1>3, <2>3 DEF RejectedCalls
        <3>2. rejected'[k] = rejected[k] BY <2>3 DEF OtpTypes
        <3> QED BY <2>2, <3>1, <3>2
    <2>4. CASE k = i
        <3>1. RejectedCalls(k)' = RejectedCalls(k) \cup {c}
            BY <1>1, <1>2, <1>3, <2>4 DEF RejectedCalls
        <3>2. c \notin RejectedCalls(k) BY <1>1 DEF RejectedCalls
        <3>3. Cardinality(RejectedCalls(k)') = Cardinality(RejectedCalls(k)) + 1
            BY <2>1, <3>1, <3>2, FS_AddElement
        <3>4. i # 0 BY <2>4, OtpAssumption DEF Otp!Codes
        <3>5. rejected'[k] = rejected[k] + 1 BY <2>4, <3>4 DEF OtpTypes
        <3>6. Cardinality(RejectedCalls(k)) \in Nat BY <2>1, FS_CardinalityType
        <3> QED BY <2>2, <3>3, <3>5, <3>6
    <2> QED BY <2>3, <2>4
<1>10. OtpRejections' BY <1>9 DEF OtpRejections, Otp!Codes
<1> QED BY <1>5, <1>6, <1>7, <1>8, <1>10

LEMMA OtpStutters == OtpInv /\ UNCHANGED otpVars => OtpInv'
<1> SUFFICES ASSUME OtpInv, UNCHANGED otpVars PROVE OtpInv' OBVIOUS
<1>1. OtpTypes' BY DEF otpVars, OtpInv, OtpTypes, Otp!Codes, Otp!Hows
<1>2. made <= made' BY DEF OtpInv, OtpTypes, otpVars
<1> QED BY <1>1, <1>2, OtpTablePreserves DEF otpVars

LEMMA OtpStep == OtpInv /\ (OtpNext \/ UNCHANGED otpVars) => OtpInv'
<1> SUFFICES ASSUME OtpInv, OtpNext \/ UNCHANGED otpVars PROVE OtpInv' OBVIOUS
<1>1. CASE UNCHANGED otpVars BY <1>1, OtpStutters
<1>2. CASE OtpNext
    BY <1>2, OtpCreatePreserves, OtpExpirePreserves, OtpSubmitPreserves, OtpSelectPreserves,
       OtpConsumePreserves, OtpRejectPreserves DEF OtpNext, Otp!Next
<1> QED BY <1>1, <1>2

LEMMA OtpInductive == SafetySpec => []OtpInv
<1>1. SafetyInit => OtpInv BY OtpInitially DEF SafetyInit
<1>2. OtpInv /\ [SafetyNext]_<< part, phoneVars, reportVars >> => OtpInv'
    <2> SUFFICES ASSUME OtpInv, [SafetyNext]_<< part, phoneVars, reportVars >> PROVE OtpInv'
        OBVIOUS
    <2>1. OtpNext \/ UNCHANGED otpVars
        BY DEF SafetyNext, JourneyNext, EmergencyNext, GuardianNext, StandingNext, SpreadNext,
               ReviewNext, phoneVars
    <2> QED BY <2>1, OtpStep
<1> QED BY <1>1, <1>2, PTL DEF SafetySpec

LEMMA OtpTyped == OtpInv => Otp!TypeOK
<1> SUFFICES ASSUME OtpInv PROVE Otp!TypeOK OBVIOUS
<1>1. ASSUME NEW i \in Otp!Codes PROVE rejected[i] \in 0..Cardinality(OtpCalls)
    <2>1. RejectedCalls(i) \subseteq OtpCalls BY DEF RejectedCalls
    <2>2. /\ IsFiniteSet(RejectedCalls(i))
          /\ Cardinality(RejectedCalls(i)) <= Cardinality(OtpCalls)
        BY <2>1, FS_Subset, OtpAssumption
    <2>3. Cardinality(RejectedCalls(i)) \in Nat /\ Cardinality(OtpCalls) \in Nat
        BY <2>2, FS_CardinalityType, OtpAssumption
    <2>4. rejected[i] \in Nat /\ rejected[i] <= Cardinality(RejectedCalls(i))
        BY DEF OtpInv, OtpTypes, OtpRejections
    <2> QED BY <2>2, <2>3, <2>4
<1>2. rejected \in [Otp!Codes -> 0..Cardinality(OtpCalls)] BY <1>1 DEF OtpInv, OtpTypes
<1> QED BY <1>2, OtpCardinality DEF OtpInv, OtpTypes, Otp!TypeOK

(* A phone code spent before a call began never serves it, and one code    *)
(* links one number at most, however sign-ins and links interleave.        *)
THEOREM CodesSpentOnce == SafetySpec => []CodesStaySpent
<1>1. OtpInv => CodesStaySpent
    BY DEF OtpInv, OtpReads, OtpTypes, CodesStaySpent, Otp!SpentStaysSpent
<1> QED BY <1>1, OtpInductive, PTL

-----------------------------------------------------------------------------
(* Passive detection: PassiveGuardian.                                     *)

(* The runs of the effect and the checks they make.                        *)
GuardianPlaces == Places \cup {None}
GuardianChecks == [since : 0..clock, place : GuardianPlaces]
GuardianRuns ==
    [at : {"over", "permission", "scoring", "creating"}, since : 0..clock,
     place : GuardianPlaces, watched : BOOLEAN, last : GuardianChecks]

GuardianTypes ==
    /\ clock \in 1..MaxTime /\ home \in BOOLEAN /\ watched \in BOOLEAN
    /\ place \in GuardianPlaces
    /\ runs \in 0..MaxRuns /\ heeded \in 0..runs
    /\ ref \in GuardianChecks /\ alarm \in GuardianChecks
    /\ run \in [1..MaxRuns -> GuardianRuns]

(* No run goes on once the screen is left, and none is from the future.    *)
GuardianMounted ==
    /\ heeded # 0 => home
    /\ \A r \in 1..MaxRuns :
          run[r].at # "over" => home /\ r <= runs /\ run[r].since \in 1..clock

(* The run that is heeded has the place and the watching of the screen,    *)
(* unless it was left to look again.                                       *)
GuardianHeeded ==
    /\ \A r \in 1..MaxRuns : run[r].at = "scoring" => run[r].place \in Places
    /\ \A r \in 1..MaxRuns : r = heeded /\ run[r].at # "over" => run[r].watched = watched
    /\ \A r \in 1..MaxRuns :
          r = heeded /\ run[r].at # "over" =>
             place = run[r].place \/ (run[r].at # "permission" /\ place = None)

GuardianInv == GuardianTypes /\ GuardianMounted /\ GuardianHeeded

LEMMA MeshScoreBounded == \A m \in Guardian!MeshScores : m \in 0..24
BY DEF Guardian!MeshScores, Guardian!MeshScore

(* Neither hour nor devices nor the want of a watcher make a soft alert *)
LEMMA SoftAlertNeedsZone ==
    ASSUME NEW check \in GuardianRuns, check.place \in Places,
           NEW time \in Guardian!TimeScores, NEW mesh \in Guardian!MeshScores,
           Guardian!SoftAlert(check, time, mesh)
    PROVE  check.place \in Zoned
<1>1. mesh \in 0..24 BY MeshScoreBounded
<1>2. time \in 0..18 BY DEF Guardian!TimeScores
<1>3. SUFFICES ASSUME check.place \notin Zoned PROVE FALSE OBVIOUS
<1>4. 0 + time + (IF check.watched THEN 0 ELSE 8) + mesh >= 56
    BY <1>3 DEF Guardian!SoftAlert
<1> DEFINE w == IF check.watched THEN 0 ELSE 8
<1>5. w \in 0..8 OBVIOUS
<1>6. 0 + time + w + mesh >= 56 BY <1>4
<1> HIDE DEF w
<1> QED BY <1>1, <1>2, <1>5, <1>6

LEMMA GuardianInitially == Guardian!Init => GuardianInv
<1> SUFFICES ASSUME Guardian!Init PROVE GuardianInv OBVIOUS
<1> USE GuardianAssumption DEF Guardian!Init, Guardian!Over, Guardian!NoCheck
<1>1. GuardianTypes
    <2>1. None \in GuardianPlaces /\ 0 \in 0..clock /\ clock \in 1..MaxTime
        BY DEF GuardianPlaces
    <2>2. Guardian!NoCheck \in GuardianChecks BY <2>1 DEF GuardianChecks
    <2>3. Guardian!Over \in GuardianRuns BY <2>1, <2>2 DEF GuardianRuns
    <2>4. run \in [1..MaxRuns -> GuardianRuns] BY <2>3
    <2>5. ref \in GuardianChecks /\ alarm \in GuardianChecks BY <2>2
    <2>6. runs \in 0..MaxRuns /\ heeded \in 0..runs OBVIOUS
    <2>7. home \in BOOLEAN /\ watched \in BOOLEAN BY Zenon
    <2>8. place \in GuardianPlaces BY <2>1
    <2> QED BY <2>1, <2>4, <2>5, <2>6, <2>7, <2>8 DEF GuardianTypes
<1>2. GuardianMounted BY DEF GuardianMounted
<1>3. GuardianHeeded BY DEF GuardianHeeded
<1> QED BY <1>1, <1>2, <1>3 DEF GuardianInv

LEMMA OverIsRun ==
    ASSUME GuardianTypes
    PROVE  /\ Guardian!NoCheck \in GuardianChecks
           /\ Guardian!Over \in GuardianRuns /\ Guardian!Over.at = "over"
BY DEF GuardianTypes, GuardianChecks, GuardianRuns, GuardianPlaces, Guardian!NoCheck,
       Guardian!Over

(* The effect runs anew *)
LEMMA RunEffectPreserves ==
    ASSUME GuardianInv, NEW p \in GuardianPlaces, NEW w \in BOOLEAN,
           NEW last \in GuardianChecks, Guardian!RunEffect(p, w, last),
           home' = TRUE, UNCHANGED << clock, ref, alarm >>
    PROVE  /\ GuardianInv'
           /\ \A r \in 1..MaxRuns : run[r].at = "scoring" => run'[r].at # "creating"
<1> DEFINE x == IF p # None /\ Guardian!Fresh(last, clock, p) THEN Guardian!Over
                ELSE [at |-> "permission", since |-> clock, place |-> p,
                      watched |-> w, last |-> last]
<1> USE GuardianAssumption DEF GuardianInv
<1>1. /\ runs + 1 \in 1..MaxRuns /\ runs' = runs + 1 /\ heeded' = runs + 1
      /\ place' = p /\ watched' = w /\ run' = [run EXCEPT ![runs + 1] = x]
    BY DEF Guardian!RunEffect, GuardianTypes
<1>2. x \in GuardianRuns
    BY OverIsRun DEF GuardianTypes, GuardianRuns
<1>3. x.at # "over" =>
          x.at = "permission" /\ x.since = clock /\ x.place = p /\ x.watched = w
    BY OverIsRun
<1>4. x.at \in {"over", "permission"} BY OverIsRun
<1> HIDE DEF x
<1>5. run'[runs + 1] = x /\ \A r \in 1..MaxRuns : r # runs + 1 => run'[r] = run[r]
    BY <1>1 DEF GuardianTypes
<1>6. GuardianRuns' = GuardianRuns /\ GuardianChecks' = GuardianChecks
    BY DEF GuardianRuns, GuardianChecks, GuardianPlaces
<1>7. run' \in [1..MaxRuns -> GuardianRuns]
    BY <1>1, <1>2 DEF GuardianTypes
<1>8. GuardianTypes' BY <1>1, <1>6, <1>7 DEF GuardianTypes, GuardianPlaces
<1>9. GuardianMounted'
    <2>1. ASSUME NEW r \in 1..MaxRuns, run'[r].at # "over"
          PROVE  r <= runs' /\ run'[r].since \in 1..clock'
        <3>1. CASE r = runs + 1 BY <3>1, <2>1, <1>1, <1>3, <1>5 DEF GuardianTypes
        <3>2. CASE r # runs + 1
            BY <3>2, <2>1, <1>1, <1>5 DEF GuardianTypes, GuardianMounted
        <3> QED BY <3>1, <3>2
    <2> QED BY <2>1 DEF GuardianMounted
<1>10. GuardianHeeded'
    <2>1. ASSUME NEW r \in 1..MaxRuns, r # runs + 1
          PROVE  r # heeded' /\ (run'[r].at = "scoring" => run'[r].place \in Places)
        BY <2>1, <1>1, <1>5 DEF GuardianHeeded
    <2> QED BY <2>1, <1>1, <1>3, <1>4, <1>5 DEF GuardianHeeded
<1>11. \A r \in 1..MaxRuns : run[r].at = "scoring" => run'[r].at # "creating"
    BY <1>4, <1>5
<1> QED BY <1>8, <1>9, <1>10, <1>11

(* A run goes on, with all else as it was but the two records of checks *)
LEMMA RunGoesOn ==
    ASSUME GuardianInv, NEW r \in 1..MaxRuns, NEW x \in GuardianRuns,
           run[r].at # "over", run' = [run EXCEPT ![r] = x],
           ref' \in GuardianChecks, alarm' \in GuardianChecks,
           UNCHANGED << clock, home, place, watched, runs, heeded >>,
           x.at # "over" =>
              /\ x.since = run[r].since /\ x.watched = run[r].watched
              /\ x.place \in Places /\ x.at # "permission"
              /\ run[r].place = x.place \/ run[r].place = None
    PROVE  GuardianInv'
<1> USE DEF GuardianInv
<1>1. run'[r] = x /\ \A s \in 1..MaxRuns : s # r => run'[s] = run[s]
    BY DEF GuardianTypes
<1>2. GuardianRuns' = GuardianRuns /\ GuardianChecks' = GuardianChecks
    BY DEF GuardianRuns, GuardianChecks, GuardianPlaces
<1>3. run' \in [1..MaxRuns -> GuardianRuns] BY DEF GuardianTypes
<1>4. GuardianTypes' BY <1>2, <1>3 DEF GuardianTypes, GuardianPlaces
<1>5. GuardianMounted' BY <1>1 DEF GuardianMounted
<1>6. GuardianHeeded'
    <2>1. ASSUME r = heeded, x.at # "over"
          PROVE  x.watched = watched /\ place \in {x.place, None}
        BY <2>1 DEF GuardianHeeded
    <2>2. ASSUME NEW s \in 1..MaxRuns, s # r
          PROVE  /\ run'[s].at = "scoring" => run'[s].place \in Places
                 /\ s = heeded' /\ run'[s].at # "over" =>
                      /\ run'[s].watched = watched'
                      /\ place' = run'[s].place \/ (run'[s].at # "permission" /\ place' = None)
        BY <2>2, <1>1 DEF GuardianHeeded
    <2> QED BY <2>1, <2>2, <1>1 DEF GuardianHeeded
<1> QED BY <1>4, <1>5, <1>6

LEMMA GuardianQuietPreserves ==
    ASSUME GuardianInv, NEW r \in 1..MaxRuns, Guardian!Quiet(r)
    PROVE  GuardianInv' /\ run'[r].at # "creating"
<1>1. Guardian!Over \in GuardianRuns /\ Guardian!Over.at = "over"
    BY OverIsRun DEF GuardianInv
<1>2. ref' \in GuardianChecks /\ alarm' \in GuardianChecks
    BY DEF Guardian!Quiet, GuardianInv, GuardianTypes
<1>3. run'[r] = Guardian!Over BY DEF Guardian!Quiet, GuardianInv, GuardianTypes
<1> QED BY <1>1, <1>2, <1>3, RunGoesOn DEF Guardian!Quiet

LEMMA GuardianPermittedPreserves ==
    ASSUME GuardianInv, NEW r \in 1..MaxRuns, Guardian!Permitted(r) PROVE GuardianInv'
<1>1. PICK p \in IF run[r].place = None THEN Places ELSE {run[r].place} :
        IF Guardian!Fresh(run[r].last, run[r].since, p)
          THEN run' = [run EXCEPT ![r] = Guardian!Over] /\ UNCHANGED ref
          ELSE /\ ref' = [since |-> run[r].since, place |-> p]
               /\ run' = [run EXCEPT ![r].at = "scoring", ![r].place = p]
    BY DEF Guardian!Permitted
<1>2. run[r].at = "permission" /\ UNCHANGED << clock, home, place, watched, runs, heeded, alarm >>
    BY DEF Guardian!Permitted
<1>3. /\ run[r] \in GuardianRuns /\ ref \in GuardianChecks /\ alarm \in GuardianChecks
      /\ run[r].place \in GuardianPlaces /\ run[r].since \in 0..clock
    BY DEF GuardianInv, GuardianTypes, GuardianRuns
<1>4. p \in Places /\ (run[r].place = p \/ run[r].place = None)
    BY <1>3 DEF GuardianPlaces
<1>5. CASE Guardian!Fresh(run[r].last, run[r].since, p)
    <2>1. Guardian!Over \in GuardianRuns /\ Guardian!Over.at = "over"
        BY OverIsRun DEF GuardianInv
    <2> QED BY <1>1, <1>2, <1>3, <1>5, <2>1, RunGoesOn
<1>6. CASE ~Guardian!Fresh(run[r].last, run[r].since, p)
    <2> DEFINE x == [run[r] EXCEPT !.at = "scoring", !.place = p]
    <2>1. x \in GuardianRuns BY <1>3, <1>4 DEF GuardianRuns, GuardianPlaces
    <2>2. /\ x.at = "scoring" /\ x.place = p /\ x.since = run[r].since
          /\ x.watched = run[r].watched
        BY <1>3 DEF GuardianRuns
    <2>3. run' = [run EXCEPT ![r] = x] BY <1>1, <1>6
    <2>4. ref' \in GuardianChecks
        BY <1>1, <1>3, <1>4, <1>6 DEF GuardianChecks, GuardianPlaces
    <2> HIDE DEF x
    <2> QED BY <1>2, <1>3, <1>4, <2>1, <2>2, <2>3, <2>4, RunGoesOn
<1> QED BY <1>5, <1>6

(* A run that has just been permitted scores first.                        *)
LEMMA GuardianPermittedCreatesNone ==
    ASSUME GuardianInv, NEW r \in 1..MaxRuns, Guardian!Permitted(r)
    PROVE  run'[r].at # "creating"
<1>1. PICK p : run' = [run EXCEPT ![r] = Guardian!Over]
               \/ run' = [run EXCEPT ![r].at = "scoring", ![r].place = p]
    BY DEF Guardian!Permitted
<1>2. run \in [1..MaxRuns -> GuardianRuns] BY DEF GuardianInv, GuardianTypes
<1>3. CASE run' = [run EXCEPT ![r] = Guardian!Over] BY <1>2, <1>3 DEF Guardian!Over
<1>4. CASE run' = [run EXCEPT ![r].at = "scoring", ![r].place = p]
    <2>1. run'[r] = [run[r] EXCEPT !.at = "scoring", !.place = p] BY <1>2, <1>4
    <2>2. run[r] \in GuardianRuns BY <1>2
    <2> QED BY <2>1, <2>2 DEF GuardianRuns
<1> QED BY <1>1, <1>3, <1>4

LEMMA GuardianAssessPreserves ==
    ASSUME GuardianInv, NEW r \in 1..MaxRuns, Guardian!Assess(r)
    PROVE  /\ GuardianInv'
           /\ run'[r].at = "creating" =>
                /\ home /\ place \in {run[r].place, None} /\ run[r].watched = watched
                /\ run[r].place \in Zoned
<1>1. PICK time \in Guardian!TimeScores, mesh \in Guardian!MeshScores :
        IF r = heeded /\ Guardian!SoftAlert(run[r], time, mesh)
          THEN /\ run' = [run EXCEPT ![r].at = "creating"]
               /\ alarm' = [since |-> run[r].since, place |-> run[r].place]
          ELSE run' = [run EXCEPT ![r] = Guardian!Over] /\ UNCHANGED alarm
    BY DEF Guardian!Assess
<1>2. run[r].at = "scoring" /\ UNCHANGED << clock, home, place, watched, runs, heeded, ref >>
    BY DEF Guardian!Assess
<1>3. /\ run \in [1..MaxRuns -> GuardianRuns]
      /\ run[r] \in GuardianRuns /\ ref \in GuardianChecks /\ alarm \in GuardianChecks
      /\ run[r].place \in GuardianPlaces /\ run[r].since \in 0..clock
    BY DEF GuardianInv, GuardianTypes, GuardianRuns
<1>4. run[r].place \in Places BY <1>2 DEF GuardianInv, GuardianHeeded
<1>5. CASE r = heeded /\ Guardian!SoftAlert(run[r], time, mesh)
    <2> DEFINE x == [run[r] EXCEPT !.at = "creating"]
    <2>1. x \in GuardianRuns BY <1>3 DEF GuardianRuns
    <2>2. /\ x.at = "creating" /\ x.place = run[r].place /\ x.since = run[r].since
          /\ x.watched = run[r].watched
        BY <1>3 DEF GuardianRuns
    <2>3. run' = [run EXCEPT ![r] = x] BY <1>1, <1>5
    <2>4. alarm' \in GuardianChecks BY <1>1, <1>3, <1>5 DEF GuardianChecks
    <2> HIDE DEF x
    <2>5. GuardianInv' BY <1>2, <1>3, <1>4, <2>1, <2>2, <2>3, <2>4, RunGoesOn
    <2>6. run[r].watched = watched /\ place \in {run[r].place, None}
        BY <1>2, <1>5 DEF GuardianInv, GuardianHeeded
    <2>7. home BY <1>2 DEF GuardianInv, GuardianMounted
    <2>8. run[r].place \in Zoned BY <1>3, <1>4, <1>5, SoftAlertNeedsZone
    <2> QED BY <2>5, <2>6, <2>7, <2>8
<1>6. CASE ~(r = heeded /\ Guardian!SoftAlert(run[r], time, mesh))
    <2>1. Guardian!Over \in GuardianRuns /\ Guardian!Over.at = "over"
        BY OverIsRun DEF GuardianInv
    <2>2. run' = [run EXCEPT ![r] = Guardian!Over] /\ alarm' = alarm BY <1>1, <1>6
    <2>3. GuardianInv' BY <1>2, <1>3, <2>1, <2>2, RunGoesOn
    <2>4. run'[r].at = "over" BY <1>3, <2>1, <2>2
    <2> QED BY <2>3, <2>4
<1> QED BY <1>5, <1>6

LEMMA GuardianUnmountPreserves ==
    ASSUME GuardianInv, Guardian!Unmount
    PROVE  GuardianInv' /\ \A r \in 1..MaxRuns : run'[r].at = "over"
<1> USE DEF GuardianInv, Guardian!Unmount
<1>1. /\ Guardian!NoCheck \in GuardianChecks
      /\ Guardian!Over \in GuardianRuns /\ Guardian!Over.at = "over"
    BY OverIsRun
<1>2. \A r \in 1..MaxRuns : run'[r] = Guardian!Over OBVIOUS
<1>3. GuardianRuns' = GuardianRuns /\ GuardianChecks' = GuardianChecks
    BY DEF GuardianRuns, GuardianChecks, GuardianPlaces
<1>4. run' \in [1..MaxRuns -> GuardianRuns] BY <1>1
<1>5. GuardianTypes'
    <2>1. ref' \in GuardianChecks /\ alarm' \in GuardianChecks BY <1>1
    <2>2. home' \in BOOLEAN OBVIOUS
    <2>3. heeded' \in 0..runs' BY DEF GuardianTypes
    <2> QED BY <1>3, <1>4, <2>1, <2>2, <2>3 DEF GuardianTypes, GuardianPlaces
<1>6. GuardianMounted' /\ GuardianHeeded'
    BY <1>1, <1>2 DEF GuardianMounted, GuardianHeeded
<1> QED BY <1>1, <1>2, <1>5, <1>6

LEMMA GuardianTickPreserves ==
    ASSUME GuardianInv, Guardian!Tick PROVE GuardianInv'
<1> USE DEF GuardianInv, Guardian!Tick
<1>1. clock \in 1..MaxTime /\ clock' \in 1..MaxTime /\ clock' = clock + 1
    BY GuardianAssumption DEF GuardianTypes
<1>2. \A n \in 0..clock : n \in 0..clock' BY <1>1
<1>3. ASSUME NEW k \in GuardianChecks PROVE k \in GuardianChecks'
    BY <1>2 DEF GuardianChecks, GuardianPlaces
<1>4. ASSUME NEW x \in GuardianRuns PROVE x \in GuardianRuns'
    BY <1>2, <1>3 DEF GuardianRuns, GuardianPlaces
<1>5. GuardianTypes' BY <1>1, <1>3, <1>4 DEF GuardianTypes, GuardianPlaces
<1>6. GuardianMounted'
    BY <1>1 DEF GuardianMounted
<1>7. GuardianHeeded' BY DEF GuardianHeeded
<1> QED BY <1>5, <1>6, <1>7

(* The whole step *)
LEMMA GuardianStep ==
    ASSUME GuardianInv, Guardian!Next
    PROVE  /\ GuardianInv'
           /\ \A r \in 1..MaxRuns :
                run[r].at = "scoring" /\ run'[r].at = "creating" =>
                    /\ home /\ place \in {run[r].place, None} /\ run[r].watched = watched
                    /\ run[r].place \in Zoned
<1>1. /\ place \in GuardianPlaces /\ watched \in BOOLEAN /\ ref \in GuardianChecks
      /\ Guardian!NoCheck \in GuardianChecks /\ run \in [1..MaxRuns -> GuardianRuns]
    BY OverIsRun DEF GuardianInv, GuardianTypes
<1>2. CASE \E p \in Places : Guardian!NewFix(p)
    BY <1>1, <1>2, RunEffectPreserves
       DEF Guardian!NewFix, GuardianPlaces, GuardianInv, GuardianTypes
<1>3. CASE Guardian!WatchChanges
    BY <1>1, <1>3, RunEffectPreserves DEF Guardian!WatchChanges, GuardianInv, GuardianTypes
<1>4. CASE Guardian!ComeHome
    BY <1>1, <1>4, RunEffectPreserves DEF Guardian!ComeHome
<1>5. ASSUME NEW r \in 1..MaxRuns, Guardian!Permitted(r)
      PROVE  GuardianInv' /\ \A s \in 1..MaxRuns :
                run[s].at = "scoring" => run'[s].at # "creating"
    <2>1. \A s \in 1..MaxRuns : s # r => run'[s] = run[s]
        BY <1>1, <1>5 DEF Guardian!Permitted
    <2> QED BY <1>5, <2>1, GuardianPermittedPreserves, GuardianPermittedCreatesNone
<1>6. ASSUME NEW r \in 1..MaxRuns, Guardian!Quiet(r)
      PROVE  GuardianInv' /\ \A s \in 1..MaxRuns :
                run[s].at = "scoring" => run'[s].at # "creating"
    <2>1. \A s \in 1..MaxRuns : s # r => run'[s] = run[s]
        BY <1>1, <1>6 DEF Guardian!Quiet
    <2> QED BY <1>6, <2>1, GuardianQuietPreserves
<1>7. ASSUME NEW r \in 1..MaxRuns, Guardian!Assess(r)
      PROVE  GuardianInv' /\ \A s \in 1..MaxRuns :
                run[s].at = "scoring" /\ run'[s].at = "creating" =>
                    /\ home /\ place \in {run[s].place, None} /\ run[s].watched = watched
                    /\ run[s].place \in Zoned
    <2>1. \A s \in 1..MaxRuns : s # r => run'[s] = run[s]
        BY <1>1, <1>7 DEF Guardian!Assess
    <2> QED BY <1>7, <2>1, GuardianAssessPreserves
<1>8. ASSUME NEW r \in 1..MaxRuns, Guardian!Created(r)
      PROVE  GuardianInv' /\ \A s \in 1..MaxRuns :
                run[s].at = "scoring" => run'[s].at # "creating"
    <2>1. CASE r = heeded BY <2>1, <1>8, GuardianUnmountPreserves DEF Guardian!Created
    <2>2. CASE r # heeded
        <3>1. Guardian!Quiet(r) BY <2>2, <1>8 DEF Guardian!Created, Guardian!Quiet
        <3> QED BY <3>1, <1>6
    <2> QED BY <2>1, <2>2
<1>9. CASE Guardian!LeaveHome BY <1>9, GuardianUnmountPreserves DEF Guardian!LeaveHome
<1>10. CASE Guardian!Tick
    BY <1>10, GuardianTickPreserves DEF Guardian!Tick
<1> QED
    BY <1>2, <1>3, <1>4, <1>5, <1>6, <1>7, <1>8, <1>9, <1>10 DEF Guardian!Next

LEMMA GuardianStutters == GuardianInv /\ UNCHANGED guardianVars => GuardianInv'
BY DEF guardianVars, GuardianInv, GuardianTypes, GuardianMounted, GuardianHeeded,
       GuardianChecks, GuardianRuns, GuardianPlaces

(* Whatever is done in MCSafety is a step of detection or leaves it alone. *)
LEMMA GuardianShown ==
    ASSUME [SafetyNext]_<< part, phoneVars, reportVars >>
    PROVE  Guardian!Next \/ UNCHANGED guardianVars
BY DEF SafetyNext, JourneyNext, EmergencyNext, GuardianNext, OtpNext, StandingNext, SpreadNext,
       ReviewNext, phoneVars

LEMMA GuardianInductive == SafetySpec => []GuardianInv
<1>1. SafetyInit => GuardianInv BY GuardianInitially DEF SafetyInit
<1>2. GuardianInv /\ [SafetyNext]_<< part, phoneVars, reportVars >> => GuardianInv'
    BY GuardianShown, GuardianStep, GuardianStutters
<1> QED BY <1>1, <1>2, PTL DEF SafetySpec

LEMMA GuardianTyped == GuardianInv => Guardian!TypeOK
BY DEF GuardianInv, GuardianTypes, GuardianMounted, GuardianChecks, GuardianRuns,
       GuardianPlaces, Guardian!TypeOK

(* A passive alert is asked for only where the phone is by then, with the  *)
(* watcher it has by then, and in a risk zone.                             *)
THEOREM AlarmsAreDue == SafetySpec => AlarmIsDue
<1> DEFINE Weight == [p \in Places |-> IF p \in Zoned THEN 44 ELSE 0]
           Due == \A r \in 1..MaxRuns :
                    run[r].at = "scoring" /\ run'[r].at = "creating" =>
                        /\ home /\ place \in {run[r].place, None} /\ run[r].watched = watched
                        /\ Weight[run[r].place] > 0
<1>1. GuardianInv /\ [SafetyNext]_<< part, phoneVars, reportVars >> => [Due]_guardianVars
    <2> SUFFICES ASSUME GuardianInv, Guardian!Next PROVE Due
        BY GuardianShown
    <2>1. \A p \in Zoned : Weight[p] = 44 BY GuardianAssumption
    <2> QED BY <2>1, GuardianStep
<1> QED BY <1>1, GuardianInductive, PTL
        DEF SafetySpec, AlarmIsDue, Guardian!AlarmIsDue, Guardian!vars, guardianVars

-----------------------------------------------------------------------------
(* The fixes of a journey: JourneySync.                                    *)

Updates == Journey!Updates

LEMMA JourneyElements ==
    ASSUME NEW S, NEW s \in Seq(S)
    PROVE  Journey!ToSet(s) = Elements(s) /\ Elements(s) \subseteq S
<1>1. Len(s) \in Nat /\ DOMAIN s = 1..Len(s) /\ s \in [1..Len(s) -> S] BY LenProperties
<1>2. Journey!ToSet(s) = {s[i] : i \in DOMAIN s} BY DEF Journey!ToSet
<1> QED BY <1>1, <1>2 DEF Elements

(* The phone's slice and filter are those of Slices.                       *)
LEMMA JourneySlices ==
    /\ \A s, kept : Journey!Filter(s, kept) = Filter(s, kept)
    /\ \A s, n : Journey!LastOf(s, n) = LastOf(s, n)
BY DEF Journey!Filter, Filter, Journey!LastOf, LastOf, Journey!Nth, Nth, Journey!Before, Before,
       Journey!Cardinality, Cardinality

(* What writePending leaves of a queue *)
LEMMA LatestProperties ==
    ASSUME NEW S, NEW s \in Seq(S)
    PROVE  /\ Journey!Latest(s) \in Seq(S) /\ Len(Journey!Latest(s)) <= MaxPending
           /\ \E d \in Nat :
                /\ d + Len(Journey!Latest(s)) = Len(s)
                /\ d # 0 => Len(Journey!Latest(s)) = MaxPending
                /\ \A i \in 1..Len(Journey!Latest(s)) : Journey!Latest(s)[i] = s[d + i]
<1> DEFINE l == LastOf(s, MaxPending)
<1>1. Journey!Latest(s) = l BY JourneySlices DEF Journey!Latest
<1>2. MaxPending \in Nat \ {0} BY JourneyAssumption
<1>3. /\ l \in Seq(S) /\ Len(l) <= MaxPending
      /\ \E d \in Nat :
            /\ d + Len(l) = Len(s)
            /\ d # 0 => Len(l) = MaxPending
            /\ \A i \in 1..Len(l) : l[i] = s[d + i]
    BY <1>2, LastOfProperties
<1> HIDE DEF l
<1> QED BY <1>1, <1>3

LEMMA LatestIsPart ==
    ASSUME NEW S, NEW s \in Seq(S)
    PROVE  Elements(Journey!Latest(s)) \subseteq Elements(s)
<1> DEFINE l == Journey!Latest(s)
<1>1. l \in Seq(S) BY LatestProperties
<1>2. PICK d \in Nat : d + Len(l) = Len(s) /\ \A i \in 1..Len(l) : l[i] = s[d + i]
    BY LatestProperties
<1>3. Len(l) \in Nat /\ Len(s) \in Nat BY <1>1, LenProperties
<1>4. \A i \in 1..Len(l) : d + i \in 1..Len(s) BY <1>2, <1>3
<1> HIDE DEF l
<1>5. Elements(l) \subseteq Elements(s) BY <1>2, <1>4 DEF Elements
<1> QED BY <1>5 DEF l

(* The updates of one journey, and the others *)
LEMMA OfProperties ==
    ASSUME NEW s \in Seq(Updates), NEW j
    PROVE  /\ Journey!Of(j, s) \in Seq(Updates)
           /\ Elements(Journey!Of(j, s)) = {u \in Elements(s) : u.journey = j}
           /\ \A n, m \in 1..Len(Journey!Of(j, s)) : n < m =>
                 \E i, k \in 1..Len(s) :
                     i < k /\ Journey!Of(j, s)[n] = s[i] /\ Journey!Of(j, s)[m] = s[k]
<1> DEFINE kept == {i \in DOMAIN s : s[i].journey = j}
           f == Filter(s, kept)
<1>1. Len(s) \in Nat /\ DOMAIN s = 1..Len(s) BY LenProperties
<1>2. kept \in SUBSET (1..Len(s)) BY <1>1
<1>3. Journey!Of(j, s) = f BY JourneySlices DEF Journey!Of
<1>4. \A i \in 1..Len(s) : i \in kept <=> s[i].journey = j BY <1>1
<1> HIDE DEF kept
<1>5. /\ f \in Seq(Updates)
      /\ \A n \in 1..Len(f) : \E i \in kept : f[n] = s[i]
      /\ \A i \in kept : \E n \in 1..Len(f) : f[n] = s[i]
      /\ \A n, m \in 1..Len(f) : n < m =>
            \E i, k \in kept : i < k /\ f[n] = s[i] /\ f[m] = s[k]
    BY <1>2, FilterProperties
<1> HIDE DEF f
<1>6. \A i \in kept : i \in 1..Len(s) /\ s[i].journey = j BY <1>2, <1>4
<1>7. ASSUME NEW u \in Elements(f) PROVE u \in Elements(s) /\ u.journey = j
    <2>1. PICK n \in 1..Len(f) : u = f[n] BY DEF Elements
    <2>2. PICK i \in kept : f[n] = s[i] BY <1>5
    <2> QED BY <1>6, <2>1, <2>2 DEF Elements
<1>8. ASSUME NEW u \in Elements(s), u.journey = j PROVE u \in Elements(f)
    <2>1. PICK i \in 1..Len(s) : u = s[i] BY DEF Elements
    <2>2. PICK n \in 1..Len(f) : f[n] = s[i] BY <1>4, <1>5, <1>8, <2>1
    <2> QED BY <2>1, <2>2 DEF Elements
<1>9. ASSUME NEW n \in 1..Len(f), NEW m \in 1..Len(f), n < m
      PROVE  \E i, k \in 1..Len(s) : i < k /\ f[n] = s[i] /\ f[m] = s[k]
    <2>1. PICK i \in kept, k \in kept : i < k /\ f[n] = s[i] /\ f[m] = s[k] BY <1>5, <1>9
    <2> QED BY <1>6, <2>1
<1> QED BY <1>3, <1>5, <1>7, <1>8, <1>9

LEMMA BesidesProperties ==
    ASSUME NEW s \in Seq(Updates), NEW j
    PROVE  /\ Journey!Besides(j, s) \in Seq(Updates)
           /\ Elements(Journey!Besides(j, s)) = {u \in Elements(s) : u.journey # j}
           /\ \A n, m \in 1..Len(Journey!Besides(j, s)) : n < m =>
                 \E i, k \in 1..Len(s) :
                     i < k /\ Journey!Besides(j, s)[n] = s[i] /\ Journey!Besides(j, s)[m] = s[k]
<1> DEFINE kept == {i \in DOMAIN s : s[i].journey # j}
           f == Filter(s, kept)
<1>1. Len(s) \in Nat /\ DOMAIN s = 1..Len(s) BY LenProperties
<1>2. kept \in SUBSET (1..Len(s)) BY <1>1
<1>3. Journey!Besides(j, s) = f BY JourneySlices DEF Journey!Besides
<1>4. \A i \in 1..Len(s) : i \in kept <=> s[i].journey # j BY <1>1
<1> HIDE DEF kept
<1>5. /\ f \in Seq(Updates)
      /\ \A n \in 1..Len(f) : \E i \in kept : f[n] = s[i]
      /\ \A i \in kept : \E n \in 1..Len(f) : f[n] = s[i]
      /\ \A n, m \in 1..Len(f) : n < m =>
            \E i, k \in kept : i < k /\ f[n] = s[i] /\ f[m] = s[k]
    BY <1>2, FilterProperties
<1> HIDE DEF f
<1>6. \A i \in kept : i \in 1..Len(s) /\ s[i].journey # j BY <1>2, <1>4
<1>7. ASSUME NEW u \in Elements(f) PROVE u \in Elements(s) /\ u.journey # j
    <2>1. PICK n \in 1..Len(f) : u = f[n] BY DEF Elements
    <2>2. PICK i \in kept : f[n] = s[i] BY <1>5
    <2> QED BY <1>6, <2>1, <2>2 DEF Elements
<1>8. ASSUME NEW u \in Elements(s), u.journey # j PROVE u \in Elements(f)
    <2>1. PICK i \in 1..Len(s) : u = s[i] BY DEF Elements
    <2>2. PICK n \in 1..Len(f) : f[n] = s[i] BY <1>4, <1>5, <1>8, <2>1
    <2> QED BY <2>1, <2>2 DEF Elements
<1>9. ASSUME NEW n \in 1..Len(f), NEW m \in 1..Len(f), n < m
      PROVE  \E i, k \in 1..Len(s) : i < k /\ f[n] = s[i] /\ f[m] = s[k]
    <2>1. PICK i \in kept, k \in kept : i < k /\ f[n] = s[i] /\ f[m] = s[k] BY <1>5, <1>9
    <2> QED BY <1>6, <2>1
<1> QED BY <1>3, <1>5, <1>7, <1>8, <1>9

(* What a call sends *)
WorkBefore(found, u) ==
    LET mine == Journey!Of(u.journey, found)
    IN  IF u \in Elements(mine) THEN mine ELSE Append(mine, u)

LEMMA WorkIsLatest ==
    ASSUME NEW found \in Seq(Updates), NEW u \in Updates
    PROVE  /\ Journey!Work(found, u) = Journey!Latest(WorkBefore(found, u))
           /\ WorkBefore(found, u) \in Seq(Updates)
           /\ Elements(WorkBefore(found, u)) =
                 {v \in Elements(found) : v.journey = u.journey} \cup {u}
<1> DEFINE mine == Journey!Of(u.journey, found)
<1>1. mine \in Seq(Updates) /\ Elements(mine) = {v \in Elements(found) : v.journey = u.journey}
    BY OfProperties
<1>2. Journey!ToSet(mine) = Elements(mine) BY <1>1, JourneyElements
<1>3. Journey!Work(found, u) =
         Journey!Latest(IF u \in Elements(mine) THEN mine ELSE Append(mine, u))
    BY <1>2 DEF Journey!Work
<1>4. WorkBefore(found, u) = IF u \in Elements(mine) THEN mine ELSE Append(mine, u)
    BY DEF WorkBefore
<1> HIDE DEF mine
<1>5. CASE u \in Elements(mine) BY <1>1, <1>3, <1>4, <1>5
<1>6. CASE u \notin Elements(mine)
    <2>1. WorkBefore(found, u) = Append(mine, u) BY <1>4, <1>6
    <2>2. /\ Append(mine, u) \in Seq(Updates) /\ Len(Append(mine, u)) = Len(mine) + 1
          /\ \A i \in 1..Len(mine) : Append(mine, u)[i] = mine[i]
          /\ Append(mine, u)[Len(mine) + 1] = u /\ Len(mine) \in Nat
        BY <1>1, AppendProperties, LenProperties
    <2>3. Elements(Append(mine, u)) = Elements(mine) \cup {u}
        BY <2>2 DEF Elements
    <2> QED BY <1>1, <1>3, <1>6, <2>1, <2>2, <2>3
<1> QED BY <1>5, <1>6

LEMMA WorkProperties ==
    ASSUME NEW found \in Seq(Updates), NEW u \in Updates
    PROVE  /\ Journey!Work(found, u) \in Seq(Updates)
           /\ Len(Journey!Work(found, u)) \in 1..MaxPending
           /\ \A v \in Elements(Journey!Work(found, u)) :
                 v.journey = u.journey /\ (v \in Elements(found) \/ v = u)
<1> DEFINE b == WorkBefore(found, u)
           w == Journey!Work(found, u)
<1>1. w = Journey!Latest(b) /\ b \in Seq(Updates) BY WorkIsLatest
<1>2. \A v \in Elements(b) : v.journey = u.journey /\ (v \in Elements(found) \/ v = u)
    BY WorkIsLatest
<1>3. u \in Elements(b) BY WorkIsLatest
<1> HIDE DEF b, w
<1>4. w \in Seq(Updates) /\ Len(w) <= MaxPending BY <1>1, LatestProperties
<1>5. Elements(w) \subseteq Elements(b) BY <1>1, LatestIsPart
<1>6. Len(w) \in Nat /\ Len(b) \in Nat BY <1>1, <1>4, LenProperties
<1>7. Len(b) > 0 BY <1>3, <1>6 DEF Elements
<1>8. PICK d \in Nat : d + Len(w) = Len(b) /\ (d # 0 => Len(w) = MaxPending)
    BY <1>1, LatestProperties
<1>9. Len(w) \in 1..MaxPending BY <1>4, <1>6, <1>7, <1>8, JourneyAssumption
<1> QED BY <1>2, <1>4, <1>5, <1>9 DEF w

-----------------------------------------------------------------------------
(* What a call of the background task may be.                              *)
Hearings == {"active", "over", "nothing"}
FixCalls ==
    {Journey!Idle}
    \cup [at : {"read"}, own : Updates]
    \cup [at : {"send"}, next : Nat, work : Seq(Updates), other : Seq(Updates)]
    \cup [at : {"write"}, keep : Seq(Updates), heard : Hearings, tried : SUBSET Updates]
    \cup [at : {"return"}, heard : Hearings]
Discards == {Journey!NoDiscard} \cup [at : {"write"}, journey : Journey!Journeys, found : Seq(Updates)]

Sendable(x) == x.at = "send" => x.next \in 1..Len(x.work) /\ Len(x.work) <= MaxPending

JourneyTypes ==
    /\ queue \in Seq(Updates) /\ Len(queue) <= MaxPending
    /\ fixCalls \in [Callbacks -> FixCalls]
    /\ \A c \in Callbacks : Sendable(fixCalls[c])
    /\ discard \in Discards
    /\ current \in {0} \cup Journey!Journeys
    /\ status \in [Journey!Journeys -> {"none", "active", "over"}]
    /\ taken \in 0..MaxFixes
    /\ recorded \subseteq Updates /\ owed \subseteq Updates

LEMMA FixCallCases ==
    ASSUME NEW x \in FixCalls
    PROVE  /\ x.at \in {"idle", "read", "send", "write", "return"}
           /\ x.at = "idle" => x = Journey!Idle
           /\ x.at = "read" => x.own \in Updates /\ x = [at |-> "read", own |-> x.own]
           /\ x.at = "send" =>
                 /\ x.next \in Nat /\ x.work \in Seq(Updates) /\ x.other \in Seq(Updates)
                 /\ x = [at |-> "send", next |-> x.next, work |-> x.work, other |-> x.other]
           /\ x.at = "write" =>
                 /\ x.keep \in Seq(Updates) /\ x.heard \in Hearings /\ x.tried \subseteq Updates
                 /\ x = [at |-> "write", keep |-> x.keep, heard |-> x.heard, tried |-> x.tried]
           /\ x.at = "return" => x.heard \in Hearings /\ x = [at |-> "return", heard |-> x.heard]
<1>1. CASE x = Journey!Idle BY <1>1 DEF Journey!Idle
<1>2. CASE x \in [at : {"read"}, own : Updates] BY <1>2
<1>3. CASE x \in [at : {"send"}, next : Nat, work : Seq(Updates), other : Seq(Updates)] BY <1>3
<1>4. CASE x \in [at : {"write"}, keep : Seq(Updates), heard : Hearings, tried : SUBSET Updates]
    BY <1>4
<1>5. CASE x \in [at : {"return"}, heard : Hearings] BY <1>5
<1> QED BY <1>1, <1>2, <1>3, <1>4, <1>5 DEF FixCalls

LEMMA FixCallIs ==
    /\ Journey!Idle \in FixCalls /\ Journey!Idle.at = "idle"
    /\ \A u \in Updates : [at |-> "read", own |-> u] \in FixCalls
    /\ \A n \in Nat, w, o \in Seq(Updates) :
          [at |-> "send", next |-> n, work |-> w, other |-> o] \in FixCalls
    /\ \A k \in Seq(Updates), h \in Hearings, t \in SUBSET Updates :
          [at |-> "write", keep |-> k, heard |-> h, tried |-> t] \in FixCalls
    /\ \A h \in Hearings : [at |-> "return", heard |-> h] \in FixCalls
BY DEF FixCalls, Journey!Idle

-----------------------------------------------------------------------------
(* A call takes one step                                                   *)
LEMMA CallMoves ==
    ASSUME JourneyTypes, NEW c \in Callbacks, NEW x \in FixCalls, Sendable(x),
           fixCalls' = [fixCalls EXCEPT ![c] = x]
    PROVE  /\ fixCalls' \in [Callbacks -> FixCalls]
           /\ \A d \in Callbacks : Sendable(fixCalls[d]')
           /\ fixCalls[c]' = x /\ \A d \in Callbacks \ {c} : fixCalls[d]' = fixCalls[d]
BY DEF JourneyTypes

LEMMA QueueWritten ==
    ASSUME NEW k \in Seq(Updates), queue' = Journey!Latest(k)
    PROVE  queue' \in Seq(Updates) /\ Len(queue') <= MaxPending
BY LatestProperties

(* What a call that sends may turn into                                    *)
LEMMA SendingCall ==
    ASSUME JourneyTypes, NEW c \in Callbacks, fixCalls[c].at = "send"
    PROVE  /\ fixCalls[c].next \in 1..Len(fixCalls[c].work) /\ Len(fixCalls[c].work) \in Nat
           /\ fixCalls[c].next \in Nat
           /\ fixCalls[c].work \in Seq(Updates) /\ fixCalls[c].other \in Seq(Updates)
           /\ Journey!Sending(c) \in Updates
           /\ Journey!Sending(c) = fixCalls[c].work[fixCalls[c].next]
           /\ Journey!ToSet(fixCalls[c].work) = Elements(fixCalls[c].work)
           /\ Elements(fixCalls[c].work) \subseteq Updates
           /\ Journey!KeepAll(c) = fixCalls[c].other \o fixCalls[c].work
           /\ Journey!KeepAll(c) \in Seq(Updates)
           /\ \A k, h : Journey!GoWrite(c, k, h) =
                 [at |-> "write", keep |-> k, heard |-> h, tried |-> Elements(fixCalls[c].work)]
<1> DEFINE x == fixCalls[c]
<1>1. x \in FixCalls /\ Sendable(x) BY DEF JourneyTypes
<1>2. x.at = "send" OBVIOUS
<1>3. x.next \in Nat /\ x.work \in Seq(Updates) /\ x.other \in Seq(Updates)
    <2> HIDE DEF x
    <2> QED BY <1>1, <1>2, FixCallCases
<1>4. x.next \in 1..Len(x.work) BY <1>1, <1>2 DEF Sendable
<1>5. Journey!Sending(c) = x.work[x.next] /\ Journey!KeepAll(c) = x.other \o x.work
    BY DEF Journey!Sending, Journey!KeepAll
<1>6. x.work[x.next] \in Updates
    <2> HIDE DEF x
    <2> QED BY <1>3, <1>4, ElementOfSeq
<1>7. x.other \o x.work \in Seq(Updates) /\ Len(x.work) \in Nat
    <2> HIDE DEF x
    <2> QED BY <1>3, ConcatProperties, LenProperties
<1>8. Journey!ToSet(x.work) = Elements(x.work) /\ Elements(x.work) \subseteq Updates
    <2> HIDE DEF x
    <2> QED BY <1>3, JourneyElements
<1>9. \A k, h : Journey!GoWrite(c, k, h) =
         [at |-> "write", keep |-> k, heard |-> h, tried |-> Journey!ToSet(x.work)]
    BY DEF Journey!GoWrite
<1> HIDE DEF x
<1>10. \A k, h : Journey!GoWrite(c, k, h) =
         [at |-> "write", keep |-> k, heard |-> h, tried |-> Elements(x.work)]
    BY <1>8, <1>9
<1> QED BY <1>3, <1>4, <1>5, <1>6, <1>7, <1>8, <1>10 DEF x

(* What Accepted makes of a call, case by case                             *)
LEMMA AcceptedCall ==
    ASSUME JourneyTypes, NEW c \in Callbacks, Journey!Accepted(c)
    PROVE  \E answer \in {"active", "over"} :
              /\ status' = [status EXCEPT ![Journey!Sending(c).journey] = answer]
              /\ \/ /\ answer = "over" \/ fixCalls[c].next = Len(fixCalls[c].work)
                    /\ fixCalls' = [fixCalls EXCEPT ![c] =
                            [at |-> "write", keep |-> fixCalls[c].other, heard |-> answer,
                             tried |-> Elements(fixCalls[c].work)]]
                 \/ /\ answer = "active" /\ fixCalls[c].next # Len(fixCalls[c].work)
                    /\ fixCalls' = [fixCalls EXCEPT ![c] =
                            [at |-> "send", next |-> fixCalls[c].next + 1,
                             work |-> fixCalls[c].work, other |-> fixCalls[c].other]]
<1>1. fixCalls[c].at = "send" BY DEF Journey!Accepted
<1>2. PICK answer \in {"active", "over"} :
          /\ status' = [status EXCEPT ![Journey!Sending(c).journey] = answer]
          /\ fixCalls' = [fixCalls EXCEPT ![c] =
                  IF answer = "over" \/ fixCalls[c].next = Len(fixCalls[c].work)
                    THEN Journey!GoWrite(c, fixCalls[c].other, answer)
                    ELSE [fixCalls[c] EXCEPT !.next = fixCalls[c].next + 1]]
    BY DEF Journey!Accepted
<1> DEFINE x == fixCalls[c]
<1>3. x = [at |-> "send", next |-> x.next, work |-> x.work, other |-> x.other]
    <2>1. x \in FixCalls BY DEF JourneyTypes
    <2>2. x.at = "send" BY <1>1
    <2> HIDE DEF x
    <2> QED BY <2>1, <2>2, FixCallCases
<1>4. [x EXCEPT !.next = x.next + 1] =
         [at |-> "send", next |-> x.next + 1, work |-> x.work, other |-> x.other]
    <2> HIDE DEF x
    <2> QED BY <1>3
<1>5. \A k, h : Journey!GoWrite(c, k, h) =
         [at |-> "write", keep |-> k, heard |-> h, tried |-> Elements(x.work)]
    BY <1>1, SendingCall
<1> QED BY <1>2, <1>4, <1>5

LEMMA AcceptedTyped ==
    ASSUME JourneyTypes, NEW c \in Callbacks, Journey!Accepted(c)
    PROVE  JourneyTypes'
<1>1. fixCalls[c].at = "send" BY DEF Journey!Accepted
<1>2. UNCHANGED << queue, discard, current, taken, owed >> BY DEF Journey!Accepted
<1>3. recorded' = recorded \cup {Journey!Sending(c)} BY DEF Journey!Accepted
<1> DEFINE x == fixCalls[c]
<1>4. PICK answer \in {"active", "over"} :
              /\ status' = [status EXCEPT ![Journey!Sending(c).journey] = answer]
              /\ \/ /\ answer = "over" \/ x.next = Len(x.work)
                    /\ fixCalls' = [fixCalls EXCEPT ![c] =
                            [at |-> "write", keep |-> x.other, heard |-> answer,
                             tried |-> Elements(x.work)]]
                 \/ /\ answer = "active" /\ x.next # Len(x.work)
                    /\ fixCalls' = [fixCalls EXCEPT ![c] =
                            [at |-> "send", next |-> x.next + 1,
                             work |-> x.work, other |-> x.other]]
    BY AcceptedCall
<1>5. /\ x.next \in 1..Len(x.work) /\ Len(x.work) \in Nat /\ x.next \in Nat
      /\ x.work \in Seq(Updates) /\ x.other \in Seq(Updates)
      /\ Journey!Sending(c) \in Updates /\ Elements(x.work) \subseteq Updates
    BY <1>1, SendingCall
<1>6. Len(x.work) <= MaxPending BY <1>1 DEF JourneyTypes, Sendable
<1> HIDE DEF x
<1>7. answer \in Hearings BY DEF Hearings
<1>8. fixCalls' \in [Callbacks -> FixCalls] /\ \A d \in Callbacks : Sendable(fixCalls[d]')
    <2>1. CASE fixCalls' = [fixCalls EXCEPT ![c] =
                            [at |-> "write", keep |-> x.other, heard |-> answer,
                             tried |-> Elements(x.work)]]
        <3> DEFINE y == [at |-> "write", keep |-> x.other, heard |-> answer,
                             tried |-> Elements(x.work)]
        <3>1. y \in FixCalls BY <1>5, <1>7, FixCallIs
        <3>2. Sendable(y) BY DEF Sendable
        <3> HIDE DEF y
        <3>3. fixCalls' = [fixCalls EXCEPT ![c] = y] BY <2>1 DEF y
        <3> QED BY <3>1, <3>2, <3>3, CallMoves
    <2>2. CASE /\ x.next # Len(x.work)
               /\ fixCalls' = [fixCalls EXCEPT ![c] =
                            [at |-> "send", next |-> x.next + 1,
                             work |-> x.work, other |-> x.other]]
        <3> DEFINE y == [at |-> "send", next |-> x.next + 1,
                             work |-> x.work, other |-> x.other]
        <3>1. y \in FixCalls
            <4>1. x.next + 1 \in Nat BY <1>5
            <4> QED BY <1>5, <4>1, FixCallIs
        <3>2. Sendable(y) BY <1>5, <1>6, <2>2 DEF Sendable
        <3> HIDE DEF y
        <3>3. fixCalls' = [fixCalls EXCEPT ![c] = y] BY <2>2 DEF y
        <3> QED BY <3>1, <3>2, <3>3, CallMoves
    <2> QED BY <1>4, <2>1, <2>2
<1>9. status' \in [Journey!Journeys -> {"none", "active", "over"}]
    BY <1>4 DEF JourneyTypes
<1>10. recorded' \subseteq Updates BY <1>3, <1>5 DEF JourneyTypes
<1> QED BY <1>2, <1>8, <1>9, <1>10 DEF JourneyTypes

(* A call gives up: its answer is lost, or there is none                   *)
LEMMA GivesUpTyped ==
    ASSUME JourneyTypes, NEW c \in Callbacks, fixCalls[c].at = "send",
           fixCalls' = [fixCalls EXCEPT ![c] = Journey!GoWrite(c, Journey!KeepAll(c), "nothing")]
    PROVE  /\ fixCalls' \in [Callbacks -> FixCalls]
           /\ \A d \in Callbacks : Sendable(fixCalls[d]')
           /\ fixCalls' = [fixCalls EXCEPT ![c] =
                    [at |-> "write", keep |-> fixCalls[c].other \o fixCalls[c].work,
                     heard |-> "nothing", tried |-> Elements(fixCalls[c].work)]]
<1> DEFINE y == [at |-> "write", keep |-> fixCalls[c].other \o fixCalls[c].work,
                     heard |-> "nothing", tried |-> Elements(fixCalls[c].work)]
<1>1. Journey!GoWrite(c, Journey!KeepAll(c), "nothing") = y BY SendingCall
<1>2. y \in FixCalls
    <2>1. /\ fixCalls[c].other \o fixCalls[c].work \in Seq(Updates)
          /\ Elements(fixCalls[c].work) \in SUBSET Updates
        BY SendingCall
    <2>2. "nothing" \in Hearings BY DEF Hearings
    <2> QED BY <2>1, <2>2, FixCallIs
<1>3. Sendable(y) BY DEF Sendable
<1>4. fixCalls' = [fixCalls EXCEPT ![c] = y] BY <1>1
<1>5. fixCalls' \in [Callbacks -> FixCalls] /\ \A d \in Callbacks : Sendable(fixCalls[d]')
    <2> HIDE DEF y
    <2> QED BY <1>2, <1>3, <1>4, CallMoves
<1> QED BY <1>4, <1>5

LEMMA AnswerLostTyped ==
    ASSUME JourneyTypes, NEW c \in Callbacks, Journey!AnswerLost(c)
    PROVE  JourneyTypes'
<1>1. /\ fixCalls[c].at = "send"
      /\ fixCalls' = [fixCalls EXCEPT ![c] = Journey!GoWrite(c, Journey!KeepAll(c), "nothing")]
      /\ UNCHANGED << queue, discard, current, taken, owed >>
      /\ recorded' = recorded \cup {Journey!Sending(c)}
      /\ \E answer \in {"active", "over"} :
            status' = [status EXCEPT ![Journey!Sending(c).journey] = answer]
    BY DEF Journey!AnswerLost
<1>2. fixCalls' \in [Callbacks -> FixCalls] /\ \A d \in Callbacks : Sendable(fixCalls[d]')
    BY <1>1, GivesUpTyped
<1>3. Journey!Sending(c) \in Updates BY <1>1, SendingCall
<1>4. recorded' \subseteq Updates BY <1>1, <1>3 DEF JourneyTypes
<1>5. status' \in [Journey!Journeys -> {"none", "active", "over"}] BY <1>1 DEF JourneyTypes
<1> QED BY <1>1, <1>2, <1>4, <1>5 DEF JourneyTypes

LEMMA FailsTyped ==
    ASSUME JourneyTypes, NEW c \in Callbacks, Journey!Fails(c)
    PROVE  JourneyTypes'
<1>1. /\ fixCalls[c].at = "send"
      /\ fixCalls' = [fixCalls EXCEPT ![c] = Journey!GoWrite(c, Journey!KeepAll(c), "nothing")]
      /\ UNCHANGED << queue, discard, current, status, taken, recorded, owed >>
    BY DEF Journey!Fails
<1>2. fixCalls' \in [Callbacks -> FixCalls] /\ \A d \in Callbacks : Sendable(fixCalls[d]')
    BY <1>1, GivesUpTyped
<1> QED BY <1>1, <1>2 DEF JourneyTypes

LEMMA CaptureTyped ==
    ASSUME JourneyTypes, NEW c \in Callbacks, Journey!Capture(c)
    PROVE  JourneyTypes'
<1>1. /\ current # 0
      /\ UNCHANGED << queue, discard, current, status, recorded, owed >> BY DEF Journey!Capture
<1>2. PICK f \in {taken, taken + 1} \cap Journey!Fixes :
          /\ taken' = f
          /\ fixCalls' = [fixCalls EXCEPT ![c] =
                 [at |-> "read", own |-> [journey |-> current, fix |-> f]]]
    BY DEF Journey!Capture
<1> DEFINE u == [journey |-> current, fix |-> f]
<1>3. u \in Updates BY <1>1 DEF JourneyTypes, Updates, Journey!Updates
<1> HIDE DEF u
<1>4. [at |-> "read", own |-> u] \in FixCalls BY <1>3, FixCallIs
<1>5. Sendable([at |-> "read", own |-> u]) BY DEF Sendable
<1>6. fixCalls' = [fixCalls EXCEPT ![c] = [at |-> "read", own |-> u]] BY <1>2 DEF u
<1>7. fixCalls' \in [Callbacks -> FixCalls] /\ \A d \in Callbacks : Sendable(fixCalls[d]')
    BY <1>4, <1>5, <1>6, CallMoves
<1>8. taken' \in 0..MaxFixes BY <1>2, JourneyAssumption DEF JourneyTypes, Journey!Fixes
<1> QED BY <1>1, <1>7, <1>8 DEF JourneyTypes

LEMMA ReadCall ==
    ASSUME JourneyTypes, NEW c \in Callbacks, Journey!Read(c)
    PROVE  /\ fixCalls[c].own \in Updates
           /\ fixCalls' = [fixCalls EXCEPT ![c] =
                [at |-> "send", next |-> 1, work |-> Journey!Work(queue, fixCalls[c].own),
                 other |-> Journey!Besides(fixCalls[c].own.journey, queue)]]
<1>1. fixCalls[c].at = "read" BY DEF Journey!Read
<1>2. fixCalls[c] \in FixCalls BY DEF JourneyTypes
<1>3. fixCalls[c].own \in Updates BY <1>1, <1>2, FixCallCases
<1> QED BY <1>3 DEF Journey!Read

LEMMA ReadTyped ==
    ASSUME JourneyTypes, NEW c \in Callbacks, Journey!Read(c)
    PROVE  JourneyTypes'
<1> DEFINE u == fixCalls[c].own
           w == Journey!Work(queue, u)
           o == Journey!Besides(u.journey, queue)
           y == [at |-> "send", next |-> 1, work |-> w, other |-> o]
<1>1. UNCHANGED << queue, discard, current, status, taken, recorded, owed >> BY DEF Journey!Read
<1>2. u \in Updates /\ fixCalls' = [fixCalls EXCEPT ![c] = y] BY ReadCall
<1>3. queue \in Seq(Updates) BY DEF JourneyTypes
<1>4. w \in Seq(Updates) /\ Len(w) \in 1..MaxPending
    <2> HIDE DEF u
    <2> QED BY <1>2, <1>3, WorkProperties
<1>5. o \in Seq(Updates)
    <2> HIDE DEF u
    <2> QED BY <1>3, BesidesProperties
<1> HIDE DEF u, w, o
<1>6. y \in FixCalls BY <1>4, <1>5, FixCallIs
<1>7. Sendable(y) BY <1>4, JourneyAssumption DEF Sendable
<1> HIDE DEF y
<1>8. fixCalls' \in [Callbacks -> FixCalls] /\ \A d \in Callbacks : Sendable(fixCalls[d]')
    BY <1>2, <1>6, <1>7, CallMoves
<1> QED BY <1>1, <1>8 DEF JourneyTypes

LEMMA WriteCall ==
    ASSUME JourneyTypes, NEW c \in Callbacks, Journey!Write(c)
    PROVE  /\ fixCalls[c].keep \in Seq(Updates) /\ fixCalls[c].heard \in Hearings
           /\ fixCalls[c].tried \subseteq Updates
           /\ queue' = Journey!Latest(fixCalls[c].keep)
           /\ fixCalls' = [fixCalls EXCEPT ![c] = [at |-> "return", heard |-> fixCalls[c].heard]]
           /\ owed' = IF fixCalls[c].heard = "nothing" THEN owed \cup fixCalls[c].tried ELSE owed
           /\ UNCHANGED << discard, current, status, taken, recorded >>
<1>1. fixCalls[c].at = "write" BY DEF Journey!Write
<1>2. fixCalls[c] \in FixCalls BY DEF JourneyTypes
<1>3. /\ fixCalls[c].keep \in Seq(Updates) /\ fixCalls[c].heard \in Hearings
      /\ fixCalls[c].tried \subseteq Updates
    BY <1>1, <1>2, FixCallCases
<1> QED BY <1>3 DEF Journey!Write, Journey!WritePending, JourneyTypes

LEMMA WriteTyped ==
    ASSUME JourneyTypes, NEW c \in Callbacks, Journey!Write(c)
    PROVE  JourneyTypes'
<1> DEFINE x == fixCalls[c]
           y == [at |-> "return", heard |-> x.heard]
<1>1. /\ x.keep \in Seq(Updates) /\ x.heard \in Hearings /\ x.tried \subseteq Updates
      /\ queue' = Journey!Latest(x.keep)
      /\ fixCalls' = [fixCalls EXCEPT ![c] = y]
      /\ owed' = IF x.heard = "nothing" THEN owed \cup x.tried ELSE owed
      /\ UNCHANGED << discard, current, status, taken, recorded >>
    BY WriteCall
<1>2. y \in FixCalls BY <1>1, FixCallIs
<1>3. Sendable(y) BY DEF Sendable
<1> HIDE DEF x, y
<1>4. fixCalls' \in [Callbacks -> FixCalls] /\ \A d \in Callbacks : Sendable(fixCalls[d]')
    BY <1>1, <1>2, <1>3, CallMoves
<1>5. queue' \in Seq(Updates) /\ Len(queue') <= MaxPending BY <1>1, QueueWritten
<1>6. owed' \subseteq Updates BY <1>1 DEF JourneyTypes
<1> QED BY <1>1, <1>4, <1>5, <1>6 DEF JourneyTypes

LEMMA ReturnTyped ==
    ASSUME JourneyTypes, NEW c \in Callbacks, Journey!Return(c)
    PROVE  JourneyTypes'
<1>1. /\ current' = IF fixCalls[c].heard = "over" THEN 0 ELSE current
      /\ fixCalls' = [fixCalls EXCEPT ![c] = Journey!Idle]
      /\ UNCHANGED << queue, discard, status, taken, recorded, owed >>
    BY DEF Journey!Return
<1>2. Journey!Idle \in FixCalls /\ Sendable(Journey!Idle) BY FixCallIs DEF Sendable
<1>3. fixCalls' \in [Callbacks -> FixCalls] /\ \A d \in Callbacks : Sendable(fixCalls[d]')
    BY <1>1, <1>2, CallMoves
<1>4. current' \in {0} \cup Journey!Journeys BY <1>1 DEF JourneyTypes
<1> QED BY <1>1, <1>3, <1>4 DEF JourneyTypes

LEMMA DiscardCases ==
    ASSUME NEW x \in Discards
    PROVE  /\ x.at \in {"idle", "write"}
           /\ x.at = "write" => x.journey \in Journey!Journeys /\ x.found \in Seq(Updates)
           /\ x = Journey!NoDiscard <=> x.at = "idle"
BY DEF Discards, Journey!NoDiscard

LEMMA DiscardWriteTyped ==
    ASSUME JourneyTypes, Journey!DiscardWrite
    PROVE  JourneyTypes'
<1>1. /\ discard.at = "write"
      /\ queue' = Journey!Latest(Journey!Besides(discard.journey, discard.found))
      /\ discard' = Journey!NoDiscard /\ current' = 0
      /\ UNCHANGED << fixCalls, status, taken, recorded, owed >>
    BY DEF Journey!DiscardWrite, Journey!WritePending
<1>2. discard.found \in Seq(Updates) BY <1>1, DiscardCases DEF JourneyTypes
<1>3. Journey!Besides(discard.journey, discard.found) \in Seq(Updates)
    BY <1>2, BesidesProperties
<1>4. queue' \in Seq(Updates) /\ Len(queue') <= MaxPending BY <1>1, <1>3, QueueWritten
<1>5. discard' \in Discards BY <1>1 DEF Discards
<1> QED BY <1>1, <1>4, <1>5 DEF JourneyTypes

LEMMA ScreenTyped ==
    ASSUME JourneyTypes, NEW j \in Journey!Journeys,
           Journey!StartJourney(j) \/ Journey!EndJourney(j) \/ Journey!Expire(j)
    PROVE  JourneyTypes'
<1>1. CASE Journey!StartJourney(j) BY <1>1 DEF Journey!StartJourney, JourneyTypes
<1>2. CASE Journey!EndJourney(j)
    <2>1. discard' = [at |-> "write", journey |-> j, found |-> queue]
        BY <1>2 DEF Journey!EndJourney
    <2>2. discard' \in Discards BY <2>1 DEF Discards, JourneyTypes
    <2> QED BY <1>2, <2>2 DEF Journey!EndJourney, JourneyTypes
<1>3. CASE Journey!Expire(j) BY <1>3 DEF Journey!Expire, JourneyTypes
<1> QED BY <1>1, <1>2, <1>3

LEMMA KilledTyped ==
    ASSUME JourneyTypes, Journey!Killed
    PROVE  JourneyTypes'
<1>1. fixCalls' = [c \in Callbacks |-> Journey!Idle] /\ discard' = Journey!NoDiscard
    BY DEF Journey!Killed
<1>2. Journey!Idle \in FixCalls /\ Sendable(Journey!Idle) BY FixCallIs DEF Sendable
<1>3. fixCalls' \in [Callbacks -> FixCalls] /\ \A d \in Callbacks : Sendable(fixCalls[d]')
    BY <1>1, <1>2
<1>4. discard' \in Discards BY <1>1 DEF Discards
<1> QED BY <1>3, <1>4 DEF Journey!Killed, JourneyTypes

LEMMA JourneyStep ==
    ASSUME JourneyTypes, [Journey!Next]_(Journey!vars)
    PROVE  JourneyTypes'
<1>1. CASE UNCHANGED Journey!vars BY <1>1 DEF Journey!vars, JourneyTypes
<1>2. CASE Journey!Next
    BY <1>2, AcceptedTyped, AnswerLostTyped, FailsTyped, CaptureTyped, ReadTyped, WriteTyped,
       ReturnTyped, DiscardWriteTyped, ScreenTyped, KilledTyped DEF Journey!Next
<1> QED BY <1>1, <1>2

LEMMA OnlyJourneys ==
    ASSUME [SafetyNext]_<< part, phoneVars, reportVars >>
    PROVE  [Journey!Next]_(Journey!vars)
<1>1. CASE SafetyNext
    BY <1>1 DEF SafetyNext, JourneyNext, EmergencyNext, GuardianNext, OtpNext, StandingNext,
       SpreadNext, ReviewNext, phoneVars, journeyVars, Journey!vars
<1>2. CASE UNCHANGED << part, phoneVars, reportVars >>
    BY <1>2 DEF phoneVars, journeyVars, Journey!vars
<1> QED BY <1>1, <1>2

LEMMA JourneyInitTyped == SafetyInit => JourneyTypes
<1> SUFFICES ASSUME SafetyInit PROVE JourneyTypes OBVIOUS
<1>1. Journey!Init BY DEF SafetyInit
<1>2. /\ queue = << >> /\ fixCalls = [c \in Callbacks |-> Journey!Idle]
      /\ discard = Journey!NoDiscard /\ current = 0
      /\ status = [j \in Journey!Journeys |-> "none"] /\ taken = 0
      /\ recorded = {} /\ owed = {}
    BY <1>1 DEF Journey!Init
<1>3. Journey!Idle \in FixCalls /\ Sendable(Journey!Idle) BY FixCallIs DEF Sendable
<1>4. fixCalls \in [Callbacks -> FixCalls] /\ \A c \in Callbacks : Sendable(fixCalls[c])
    BY <1>2, <1>3
<1>5. queue \in Seq(Updates) /\ Len(queue) <= MaxPending
    BY <1>2, EmptySeq, JourneyAssumption
<1>6. discard \in Discards BY <1>2 DEF Discards
<1> QED BY <1>2, <1>4, <1>5, <1>6, JourneyAssumption DEF JourneyTypes

(* The types are inductive alone: for any number of callbacks.             *)
LEMMA JourneyTypesInductive == SafetySpec => []JourneyTypes
<1>1. SafetyInit => JourneyTypes BY JourneyInitTyped
<1>2. JourneyTypes /\ [SafetyNext]_<< part, phoneVars, reportVars >> => JourneyTypes'
    <2> SUFFICES ASSUME JourneyTypes, [SafetyNext]_<< part, phoneVars, reportVars >>
                 PROVE  JourneyTypes'
        OBVIOUS
    <2>1. [Journey!Next]_(Journey!vars) BY OnlyJourneys
    <2> QED BY <2>1, JourneyStep
<1> QED BY <1>1, <1>2, PTL DEF SafetySpec

LEMMA JourneyTyped == JourneyTypes => Journey!TypeOK
<1> SUFFICES ASSUME JourneyTypes PROVE Journey!TypeOK OBVIOUS
<1>1. \A c \in Callbacks : fixCalls[c].at \in {"idle", "read", "send", "write", "return"}
    BY FixCallCases DEF JourneyTypes
<1>2. discard.at \in {"idle", "write"} BY DiscardCases DEF JourneyTypes
<1> QED BY <1>1, <1>2 DEF JourneyTypes, Journey!TypeOK, Updates

-----------------------------------------------------------------------------
(* The order of replay                                                     *)
Precedes(u, v) == u.journey <= v.journey /\ u.fix <= v.fix /\ u # v
InOrder(s) == \A i, k \in 1..Len(s) : i < k => Precedes(s[i], s[k])
Apart(a, b) == \A u \in Elements(a), v \in Elements(b) : u.journey < v.journey /\ u.fix <= v.fix

LEMMA LatestInOrder ==
    ASSUME NEW s \in Seq(Updates), InOrder(s)
    PROVE  InOrder(Journey!Latest(s))
<1> DEFINE l == Journey!Latest(s)
<1>1. l \in Seq(Updates) BY LatestProperties
<1>2. PICK d \in Nat : d + Len(l) = Len(s) /\ \A i \in 1..Len(l) : l[i] = s[d + i]
    BY LatestProperties
<1>3. Len(l) \in Nat /\ Len(s) \in Nat BY <1>1, LenProperties
<1> HIDE DEF l
<1>4. ASSUME NEW i \in 1..Len(l), NEW k \in 1..Len(l), i < k PROVE Precedes(l[i], l[k])
    <2>1. d + i \in 1..Len(s) /\ d + k \in 1..Len(s) /\ d + i < d + k BY <1>2, <1>3, <1>4
    <2>2. Precedes(s[d + i], s[d + k]) BY <2>1 DEF InOrder
    <2> QED BY <1>2, <2>2
<1>5. InOrder(l) BY <1>4 DEF InOrder
<1> QED BY <1>5 DEF l

LEMMA OfInOrder ==
    ASSUME NEW s \in Seq(Updates), InOrder(s), NEW j
    PROVE  InOrder(Journey!Of(j, s)) /\ InOrder(Journey!Besides(j, s))
<1>1. InOrder(Journey!Of(j, s))
    <2> DEFINE f == Journey!Of(j, s)
    <2>1. \A n, m \in 1..Len(f) : n < m => \E i, k \in 1..Len(s) : i < k /\ f[n] = s[i] /\ f[m] = s[k]
        BY OfProperties
    <2> HIDE DEF f
    <2>2. InOrder(f) BY <2>1 DEF InOrder
    <2> QED BY <2>2 DEF f
<1>2. InOrder(Journey!Besides(j, s))
    <2> DEFINE f == Journey!Besides(j, s)
    <2>1. \A n, m \in 1..Len(f) : n < m => \E i, k \in 1..Len(s) : i < k /\ f[n] = s[i] /\ f[m] = s[k]
        BY BesidesProperties
    <2> HIDE DEF f
    <2>2. InOrder(f) BY <2>1 DEF InOrder
    <2> QED BY <2>2 DEF f
<1> QED BY <1>1, <1>2

(* A call's own fix is no earlier than the queue it finds                  *)
LEMMA WorkBeforeInOrder ==
    ASSUME NEW found \in Seq(Updates), InOrder(found), NEW u \in Updates,
           \A v \in Elements(found) : v.journey <= u.journey /\ v.fix <= u.fix
    PROVE  InOrder(WorkBefore(found, u))
<1> DEFINE mine == Journey!Of(u.journey, found)
<1>1. mine \in Seq(Updates) /\ Elements(mine) = {v \in Elements(found) : v.journey = u.journey}
    BY OfProperties
<1>2. InOrder(mine) BY OfInOrder
<1>3. WorkBefore(found, u) = IF u \in Elements(mine) THEN mine ELSE Append(mine, u)
    BY DEF WorkBefore
<1> HIDE DEF mine
<1>4. CASE u \in Elements(mine) BY <1>2, <1>3, <1>4
<1>5. CASE u \notin Elements(mine)
    <2> DEFINE b == Append(mine, u)
    <2>1. /\ Len(b) = Len(mine) + 1 /\ b[Len(mine) + 1] = u /\ Len(mine) \in Nat
          /\ \A i \in 1..Len(mine) : b[i] = mine[i]
        BY <1>1, AppendProperties, LenProperties
    <2>2. \A i \in 1..Len(mine) : Precedes(mine[i], u)
        <3> SUFFICES ASSUME NEW i \in 1..Len(mine) PROVE Precedes(mine[i], u) OBVIOUS
        <3>1. mine[i] \in Elements(mine) BY DEF Elements
        <3>2. mine[i] \in Elements(found) BY <1>1, <3>1
        <3> QED BY <1>5, <3>1, <3>2 DEF Precedes
    <2> HIDE DEF b
    <2>3. ASSUME NEW i \in 1..Len(b), NEW k \in 1..Len(b), i < k PROVE Precedes(b[i], b[k])
        <3>1. i \in 1..Len(mine) BY <2>1, <2>3
        <3>2. CASE k \in 1..Len(mine) BY <1>2, <2>1, <2>3, <3>1, <3>2 DEF InOrder
        <3>3. CASE k \notin 1..Len(mine)
            <4>1. k = Len(mine) + 1 BY <2>1, <3>3
            <4> QED BY <2>1, <2>2, <3>1, <4>1
        <3> QED BY <3>2, <3>3
    <2>4. InOrder(b) BY <2>3 DEF InOrder
    <2> QED BY <1>3, <1>5, <2>4 DEF b
<1> QED BY <1>4, <1>5

(* What a call sends is in order, and behind all of other journeys.        *)
LEMMA WorkInOrder ==
    ASSUME NEW found \in Seq(Updates), InOrder(found), NEW u \in Updates,
           \A v \in Elements(found) : v.journey <= u.journey /\ v.fix <= u.fix
    PROVE  /\ InOrder(Journey!Work(found, u))
           /\ Apart(Journey!Besides(u.journey, found), Journey!Work(found, u))
<1> DEFINE w == Journey!Work(found, u)
           b == WorkBefore(found, u)
           o == Journey!Besides(u.journey, found)
<1>1. w = Journey!Latest(b) /\ b \in Seq(Updates) BY WorkIsLatest
<1>2. InOrder(b) BY WorkBeforeInOrder
<1>3. \A v \in Elements(w) : v.journey = u.journey /\ (v \in Elements(found) \/ v = u)
    BY WorkProperties
<1>4. Elements(o) = {v \in Elements(found) : v.journey # u.journey} BY BesidesProperties
<1> HIDE DEF w, b, o
<1>5. InOrder(w) BY <1>1, <1>2, LatestInOrder
<1>6. ASSUME NEW x \in Elements(o), NEW y \in Elements(w)
      PROVE  x.journey < y.journey /\ x.fix <= y.fix
    <2>1. x \in Elements(found) /\ x.journey # u.journey BY <1>4
    <2>2. x \in Updates /\ Elements(found) \subseteq Updates BY <2>1, JourneyElements
    <2>3. x.journey \in Nat /\ u.journey \in Nat /\ x.fix \in Nat /\ u.fix \in Nat
        BY <2>2 DEF Updates, Journey!Updates, Journey!Journeys, Journey!Fixes
    <2>4. x.journey < u.journey /\ x.fix <= u.fix BY <2>1, <2>3
    <2>5. CASE y = u BY <2>4, <2>5
    <2>6. CASE y \in Elements(found)
        <3>1. y.journey = u.journey BY <1>3
        <3>2. PICK i \in 1..Len(found) : x = found[i] BY <2>1 DEF Elements
        <3>3. PICK k \in 1..Len(found) : y = found[k] BY <2>6 DEF Elements
        <3>4. Len(found) \in Nat BY LenProperties
        <3>5. i < k
            <4>1. i # k BY <2>1, <3>1, <3>2, <3>3
            <4>2. ~(k < i)
                <5>1. k < i => y.journey <= x.journey BY <3>2, <3>3 DEF InOrder, Precedes
                <5> QED BY <2>3, <2>4, <3>1, <5>1
            <4> QED BY <3>4, <4>1, <4>2
        <3>6. x.fix <= y.fix BY <3>2, <3>3, <3>5 DEF InOrder, Precedes
        <3> QED BY <2>4, <3>1, <3>6
    <2> QED BY <1>3, <2>5, <2>6
<1>7. Apart(o, w) BY <1>6 DEF Apart
<1> QED BY <1>5, <1>7 DEF w, o

(* What a call leaves out of what it sends has been displaced              *)
LEMMA WorkDisplaces ==
    ASSUME NEW found \in Seq(Updates), InOrder(found), NEW u \in Updates,
           \A v \in Elements(found) : v.journey <= u.journey /\ v.fix <= u.fix,
           NEW v \in Elements(found), v.journey = u.journey,
           v \notin Elements(Journey!Work(found, u))
    PROVE  v.fix + MaxPending <= u.fix
<1> DEFINE w == Journey!Work(found, u)
           b == WorkBefore(found, u)
           n == Len(b)
           f == [i \in 1..n |-> b[i].fix]
<1>1. /\ w = Journey!Latest(b) /\ b \in Seq(Updates)
      /\ Elements(b) = {x \in Elements(found) : x.journey = u.journey} \cup {u}
    BY WorkIsLatest
<1>2. InOrder(b) BY WorkBeforeInOrder
<1> HIDE DEF w, b
<1>3. PICK d \in Nat : /\ d + Len(w) = n /\ (d # 0 => Len(w) = MaxPending)
                       /\ \A i \in 1..Len(w) : w[i] = b[d + i]
    BY <1>1, LatestProperties
<1>4. Len(w) \in Nat /\ n \in Nat BY <1>1, LatestProperties, LenProperties
<1>5. PICK i \in 1..n : v = b[i] BY <1>1 DEF Elements
<1>6. i <= d
    <2> SUFFICES ASSUME d < i PROVE FALSE BY <1>3, <1>4
    <2>1. i - d \in 1..Len(w) /\ d + (i - d) = i BY <1>3, <1>4
    <2>2. w[i - d] = v BY <1>3, <1>5, <2>1
    <2> QED BY <2>1, <2>2 DEF Elements, w
<1>7. n - i >= MaxPending BY <1>3, <1>4, <1>6, JourneyAssumption
<1>8. \A k \in 1..n : b[k] \in Updates /\ b[k] \in Elements(b)
    BY <1>1, ElementOfSeq DEF Elements
<1>9. \A k \in 1..n : b[k].fix \in Nat /\ b[k].journey = u.journey
    BY <1>1, <1>8 DEF Updates, Journey!Updates, Journey!Fixes
<1>10. f \in [1..n -> Nat] BY <1>9
<1>11. ASSUME NEW k \in 1..n, NEW m \in 1..n, k < m PROVE f[k] < f[m]
    <2>1. b[k].fix <= b[m].fix /\ b[k] # b[m] BY <1>2, <1>11 DEF InOrder, Precedes
    <2>2. b[k] = [journey |-> b[k].journey, fix |-> b[k].fix]
        BY <1>8 DEF Updates, Journey!Updates
    <2>3. b[m] = [journey |-> b[m].journey, fix |-> b[m].fix]
        BY <1>8 DEF Updates, Journey!Updates
    <2>4. b[k].fix # b[m].fix BY <1>9, <2>1, <2>2, <2>3
    <2> QED BY <1>9, <2>1, <2>4
<1>12. n \in 1..n /\ i <= n BY <1>4
<1>13. f[i] + (n - i) <= f[n]
    <2> HIDE DEF f, n
    <2> QED BY <1>4, <1>10, <1>11, <1>12, GrowsByOne
<1>14. f[i] = v.fix /\ f[n] = b[n].fix BY <1>5, <1>12
<1>15. b[n].fix <= u.fix
    <2>1. b[n] \in Elements(b) BY <1>8, <1>12
    <2>2. u.fix \in Nat BY DEF Updates, Journey!Updates, Journey!Fixes
    <2> QED BY <1>1, <2>1, <2>2
<1>16. v.fix \in Nat /\ u.fix \in Nat /\ b[n].fix \in Nat /\ MaxPending \in Nat
    BY <1>5, <1>9, <1>12, JourneyAssumption DEF Updates, Journey!Updates, Journey!Fixes
<1> HIDE DEF n, f
<1> QED BY <1>4, <1>7, <1>13, <1>14, <1>15, <1>16

(* What a call writes back when it gives up                                *)
LEMMA JoinedInOrder ==
    ASSUME NEW a \in Seq(Updates), NEW b \in Seq(Updates)
    PROVE  /\ a \o b \in Seq(Updates)
           /\ Elements(a \o b) = Elements(a) \cup Elements(b)
           /\ InOrder(a) /\ InOrder(b) /\ Apart(a, b) => InOrder(a \o b)
           /\ Len(b) <= MaxPending => Elements(b) \subseteq Elements(Journey!Latest(a \o b))
<1> DEFINE s == a \o b
           l == Journey!Latest(s)
<1>1. /\ s \in Seq(Updates) /\ Len(s) = Len(a) + Len(b)
      /\ \A i \in 1..(Len(a) + Len(b)) : s[i] = IF i <= Len(a) THEN a[i] ELSE b[i - Len(a)]
    BY ConcatProperties
<1>2. Len(a) \in Nat /\ Len(b) \in Nat BY LenProperties
<1> HIDE DEF s
<1>3. \A i \in 1..Len(s) : \/ i \in 1..Len(a) /\ s[i] = a[i]
                           \/ i - Len(a) \in 1..Len(b) /\ s[i] = b[i - Len(a)] /\ Len(a) < i
    BY <1>1, <1>2
<1>4. \A i \in 1..Len(a) : i \in 1..Len(s) /\ s[i] = a[i] BY <1>1, <1>2
<1>5. \A i \in 1..Len(b) : Len(a) + i \in 1..Len(s) /\ s[Len(a) + i] = b[i] BY <1>1, <1>2
<1>6. Elements(s) \subseteq Elements(a) \cup Elements(b) BY <1>3 DEF Elements
<1>7. Elements(a) \cup Elements(b) \subseteq Elements(s) BY <1>4, <1>5 DEF Elements
<1>8. ASSUME InOrder(a), InOrder(b), Apart(a, b) PROVE InOrder(s)
    <2> SUFFICES ASSUME NEW i \in 1..Len(s), NEW k \in 1..Len(s), i < k
                 PROVE  Precedes(s[i], s[k])
        BY DEF InOrder
    <2>1. CASE i \in 1..Len(a) /\ s[i] = a[i] /\ k \in 1..Len(a) /\ s[k] = a[k]
        BY <1>8, <2>1 DEF InOrder
    <2>2. CASE /\ i \in 1..Len(a) /\ s[i] = a[i]
               /\ k - Len(a) \in 1..Len(b) /\ s[k] = b[k - Len(a)]
        <3>1. s[i] \in Elements(a) /\ s[k] \in Elements(b) BY <2>2 DEF Elements
        <3>2. s[i].journey < s[k].journey /\ s[i].fix <= s[k].fix BY <1>8, <3>1 DEF Apart
        <3>3. s[i] \in Updates /\ s[k] \in Updates BY <1>1, ElementOfSeq
        <3>4. s[i].journey \in Nat /\ s[k].journey \in Nat
            BY <3>3 DEF Updates, Journey!Updates, Journey!Journeys
        <3> QED BY <3>2, <3>4 DEF Precedes
    <2>3. CASE /\ i - Len(a) \in 1..Len(b) /\ s[i] = b[i - Len(a)]
               /\ k - Len(a) \in 1..Len(b) /\ s[k] = b[k - Len(a)]
        <3>1. i - Len(a) < k - Len(a) BY <1>2
        <3> QED BY <1>8, <2>3, <3>1 DEF InOrder
    <2>4. ~(Len(a) < i /\ k \in 1..Len(a)) BY <1>2
    <2> QED BY <1>3, <2>1, <2>2, <2>3, <2>4
<1>9. ASSUME Len(b) <= MaxPending PROVE Elements(b) \subseteq Elements(l)
    <2>1. PICK d \in Nat : /\ d + Len(l) = Len(s) /\ (d # 0 => Len(l) = MaxPending)
                           /\ \A i \in 1..Len(l) : l[i] = s[d + i]
        BY <1>1, LatestProperties
    <2>2. Len(l) \in Nat BY <1>1, LatestProperties, LenProperties
    <2>3. d <= Len(a) BY <1>1, <1>2, <1>9, <2>1, <2>2, JourneyAssumption
    <2> HIDE DEF l
    <2>4. ASSUME NEW i \in 1..Len(b) PROVE b[i] \in Elements(l)
        <3>1. (Len(a) - d) + i \in 1..Len(l) BY <1>1, <1>2, <2>1, <2>2, <2>3
        <3>2. d + ((Len(a) - d) + i) = Len(a) + i BY <1>2
        <3>3. l[(Len(a) - d) + i] = b[i] BY <1>5, <2>1, <3>1, <3>2
        <3> QED BY <3>1, <3>3 DEF Elements
    <2> QED BY <2>4 DEF Elements
<1> QED BY <1>1, <1>6, <1>7, <1>8, <1>9 DEF s, l

-----------------------------------------------------------------------------
(* Every update the phone holds                                            *)
Held(x) ==
    IF x.at = "read" THEN {x.own}
    ELSE IF x.at = "send" THEN Elements(x.work) \cup Elements(x.other)
    ELSE IF x.at = "write" THEN Elements(x.keep) \cup x.tried
    ELSE {}
Found(d) == IF d.at = "write" THEN Elements(d.found) ELSE {}
Known ==
    Elements(queue) \cup owed \cup (UNION {Held(fixCalls[c]) : c \in Callbacks}) \cup Found(discard)

Live(u) == status[u.journey] # "over"
Needs(u) == u \notin recorded /\ Live(u) /\ ~(taken - u.fix >= MaxPending)
NoneLive == \A u \in Known : ~Live(u)

(* Journeys follow one another, and the phone is on the last.              *)
JourneysInTurn ==
    /\ \A i, j \in Journey!Journeys : i < j /\ status[j] # "none" => status[i] # "none"
    /\ current # 0 => /\ status[current] # "none"
                      /\ \A j \in Journey!Journeys : current < j => status[j] = "none"

(* What the phone holds is of journeys that began and fixes that were      *)
(* taken.                                                                  *)
KnownTaken == \A u \in Known : status[u.journey] # "none" /\ u.fix <= taken

(* The server's word that a journey is over is true of all the phone       *)
(* holds; and only the journey it is on has updates still wanted.          *)
OverHeard(x) == x.at \in {"write", "return"} /\ x.heard = "over" => NoneLive
LiveIsCurrent ==
    /\ \A u \in Known : Live(u) => u.journey = current
    /\ discard.at = "write" =>
          /\ NoneLive /\ current \in {0, discard.journey}
          /\ status[discard.journey] = "over"
    /\ \A c \in Callbacks : OverHeard(fixCalls[c])

(* Queues are in the order of taking, a callback's own fix behind them     *)
(* all.                                                                    *)
OwnIsLast(x) ==
    x.at = "read" => \A u \in Known : u.journey <= x.own.journey /\ u.fix <= x.own.fix
SentInOrder(x) ==
    x.at = "send" => InOrder(x.work) /\ InOrder(x.other) /\ Apart(x.other, x.work)
WrittenInOrder(x) == x.at = "write" => InOrder(x.keep)
AllInOrder ==
    /\ InOrder(queue)
    /\ discard.at = "write" => InOrder(discard.found)
    /\ \A c \in Callbacks :
          OwnIsLast(fixCalls[c]) /\ SentInOrder(fixCalls[c]) /\ WrittenInOrder(fixCalls[c])

(* What is owed and still wanted is in storage, and in all that is about   *)
(* to be written over it.                                                  *)
SentIsKept(x) ==
    x.at = "send" =>
        /\ \A i \in 1..Len(x.work) : i < x.next => x.work[i] \in recorded
        /\ \A u \in Elements(queue) : Needs(u) => u \in Elements(x.work)
WrittenIsKept(x) ==
    x.at = "write" =>
        /\ \A u \in Elements(queue) : Needs(u) => u \in Elements(Journey!Latest(x.keep))
        /\ x.heard = "nothing" =>
              \A u \in x.tried : Needs(u) => u \in Elements(Journey!Latest(x.keep))
OwedIsKept ==
    /\ \A u \in owed : Needs(u) => u \in Elements(queue)
    /\ \A c \in Callbacks : SentIsKept(fixCalls[c]) /\ WrittenIsKept(fixCalls[c])

(* One callback of the phone at a time                                     *)
Alone == \A c, d \in Callbacks : c = d

JourneyInv ==
    JourneyTypes /\ JourneysInTurn /\ KnownTaken /\ LiveIsCurrent /\ AllInOrder /\ OwedIsKept

-----------------------------------------------------------------------------
(* What no step takes back                                                 *)
LEMMA NothingUndone ==
    ASSUME JourneyTypes, Journey!Next
    PROVE  /\ \A j \in Journey!Journeys :
                /\ status[j] # "none" => status[j]' # "none"
                /\ status[j] = "over" => status[j]' = "over"
           /\ recorded \subseteq recorded' /\ taken <= taken'
           /\ \/ \E j \in Journey!Journeys : Journey!StartJourney(j)
              \/ \A j \in Journey!Journeys : status[j] = "none" => status[j]' = "none"
<1>1. \A j \in Journey!Journeys : Journey!StartJourney(j) \/ Journey!EndJourney(j) \/ Journey!Expire(j) =>
        /\ \A i \in Journey!Journeys :
                /\ status[i] # "none" => status[i]' # "none"
                /\ status[i] = "over" => status[i]' = "over"
        /\ recorded \subseteq recorded' /\ taken <= taken'
    BY DEF Journey!StartJourney, Journey!EndJourney, Journey!Expire, JourneyTypes
<1>2. \A j \in Journey!Journeys : Journey!EndJourney(j) \/ Journey!Expire(j) =>
        \A i \in Journey!Journeys : status[i] = "none" => status[i]' = "none"
    BY DEF Journey!EndJourney, Journey!Expire, JourneyTypes
<1>3. ASSUME NEW c \in Callbacks, Journey!Accepted(c) \/ Journey!AnswerLost(c)
      PROVE  /\ \A i \in Journey!Journeys :
                    /\ status[i] # "none" => status[i]' # "none"
                    /\ status[i] = "over" => status[i]' = "over"
                    /\ status[i] = "none" => status[i]' = "none"
             /\ recorded \subseteq recorded' /\ taken <= taken'
    <2> DEFINE u == Journey!Sending(c)
    <2>1. /\ status[u.journey] = "active" /\ taken' = taken /\ recorded' = recorded \cup {u}
          /\ \E answer \in {"active", "over"} : status' = [status EXCEPT ![u.journey] = answer]
        BY <1>3 DEF Journey!Accepted, Journey!AnswerLost
    <2> HIDE DEF u
    <2> QED BY <2>1 DEF JourneyTypes
<1>4. \A c \in Callbacks : Journey!Capture(c) => taken <= taken' /\ UNCHANGED << status, recorded >>
    BY DEF Journey!Capture, JourneyTypes
<1>5. \A c \in Callbacks : Journey!Read(c) \/ Journey!Fails(c) \/ Journey!Write(c) \/ Journey!Return(c)
         => UNCHANGED << status, recorded, taken >>
    BY DEF Journey!Read, Journey!Fails, Journey!Write, Journey!Return
<1>6. Journey!DiscardWrite \/ Journey!Killed => UNCHANGED << status, recorded, taken >>
    BY DEF Journey!DiscardWrite, Journey!Killed
<1>7. taken <= taken BY DEF JourneyTypes
<1>8. ASSUME UNCHANGED << status, recorded, taken >>
      PROVE  /\ \A j \in Journey!Journeys :
                /\ status[j] # "none" => status[j]' # "none"
                /\ status[j] = "over" => status[j]' = "over"
                /\ status[j] = "none" => status[j]' = "none"
             /\ recorded \subseteq recorded' /\ taken <= taken'
    BY <1>7, <1>8
<1>9. ASSUME NEW c \in Callbacks, Journey!Capture(c)
      PROVE  /\ \A j \in Journey!Journeys :
                /\ status[j] # "none" => status[j]' # "none"
                /\ status[j] = "over" => status[j]' = "over"
                /\ status[j] = "none" => status[j]' = "none"
             /\ recorded \subseteq recorded' /\ taken <= taken'
    BY <1>4, <1>9
<1> QED BY <1>1, <1>2, <1>3, <1>5, <1>6, <1>8, <1>9 DEF Journey!Next

LEMMA TurnStep ==
    ASSUME JourneyTypes, JourneysInTurn, Journey!Next
    PROVE  JourneysInTurn'
<1>1. CASE \E j \in Journey!Journeys : Journey!StartJourney(j)
    <2>1. PICK j \in Journey!Journeys : Journey!StartJourney(j) BY <1>1
    <2>2. /\ status[j] = "none" /\ \A i \in Journey!Journeys : i < j => status[i] # "none"
          /\ status' = [status EXCEPT ![j] = "active"] /\ current' = j
        BY <2>1 DEF Journey!StartJourney
    <2>3. \A i \in Journey!Journeys : i \in Nat BY DEF Journey!Journeys
    <2>4. \A k \in Journey!Journeys : j < k => status[k] = "none"
        BY <2>2 DEF JourneysInTurn
    <2>5. \A k \in Journey!Journeys :
            /\ k < j => status'[k] # "none"
            /\ j < k => status'[k] = "none"
            /\ k = j => status'[k] = "active"
        BY <2>2, <2>3, <2>4 DEF JourneyTypes
    <2>6. \A i, k \in Journey!Journeys : i < k /\ status'[k] # "none" => status'[i] # "none"
        BY <2>3, <2>2, <2>4, <2>5 DEF JourneyTypes
    <2>7. \A k \in Journey!Journeys : current' < k => status'[k] = "none" BY <2>2, <2>5
    <2>8. status'[current'] # "none" BY <2>2, <2>5
    <2> QED BY <2>6, <2>7, <2>8 DEF JourneysInTurn
<1>2. CASE ~(\E j \in Journey!Journeys : Journey!StartJourney(j))
    <2>1. \A j \in Journey!Journeys : status[j] = "none" <=> status[j]' = "none"
        BY <1>2, NothingUndone
    <2>2. current' \in {0, current}
        BY <1>2 DEF Journey!Next, Journey!EndJourney, Journey!Expire, Journey!Accepted,
           Journey!AnswerLost, Journey!Capture, Journey!Read, Journey!Fails, Journey!Write,
           Journey!Return, Journey!DiscardWrite, Journey!Killed
    <2> QED BY <2>1, <2>2 DEF JourneysInTurn, JourneyTypes
<1> QED BY <1>1, <1>2

-----------------------------------------------------------------------------
(* What the phone holds comes from what it held, and from new fixes only   *)
LEMMA HeldIsKnown ==
    ASSUME JourneyTypes
    PROVE  /\ Elements(queue) \subseteq Known /\ owed \subseteq Known
           /\ Found(discard) \subseteq Known /\ Known \subseteq Updates
           /\ \A c \in Callbacks : Held(fixCalls[c]) \subseteq Known
<1>1. \A c \in Callbacks : Held(fixCalls[c]) \subseteq Updates
    <2> SUFFICES ASSUME NEW c \in Callbacks PROVE Held(fixCalls[c]) \subseteq Updates OBVIOUS
    <2> DEFINE x == fixCalls[c]
    <2>1. x \in FixCalls BY DEF JourneyTypes
    <2> HIDE DEF x
    <2>2. /\ x.at = "read" => x.own \in Updates
          /\ x.at = "send" => x.work \in Seq(Updates) /\ x.other \in Seq(Updates)
          /\ x.at = "write" => x.keep \in Seq(Updates) /\ x.tried \subseteq Updates
        BY <2>1, FixCallCases
    <2>3. \A s \in Seq(Updates) : Elements(s) \subseteq Updates BY JourneyElements
    <2>4. Held(x) \subseteq Updates BY <2>2, <2>3 DEF Held
    <2> QED BY <2>4 DEF x
<1>2. Elements(queue) \subseteq Updates BY JourneyElements DEF JourneyTypes
<1>3. Found(discard) \subseteq Updates BY DiscardCases, JourneyElements DEF JourneyTypes, Found
<1>4. owed \subseteq Updates BY DEF JourneyTypes
<1> QED BY <1>1, <1>2, <1>3, <1>4 DEF Known

LEMMA KnownFrom ==
    ASSUME JourneyTypes, NEW K, Known \subseteq K, NEW c \in Callbacks, NEW y,
           fixCalls' = [fixCalls EXCEPT ![c] = y],
           Held(y) \subseteq K, Elements(queue)' \subseteq K, owed' \subseteq K, discard' = discard
    PROVE  Known' \subseteq K
<1>1. \A d \in Callbacks : Held(fixCalls[d]) \subseteq K BY HeldIsKnown
<1>2. \A d \in Callbacks : fixCalls'[d] = IF d = c THEN y ELSE fixCalls[d] BY DEF JourneyTypes
<1>3. \A d \in Callbacks : Held(fixCalls'[d]) \subseteq K BY <1>1, <1>2
<1>4. Found(discard)' \subseteq K BY HeldIsKnown DEF Found
<1>5. Known' = Elements(queue)' \cup owed' \cup (UNION {Held(fixCalls'[d]) : d \in Callbacks})
                 \cup Found(discard)'
    BY DEF Known, Held, Elements, Found
<1> QED BY <1>3, <1>4, <1>5

(* The steps of the screen, the server's timer and the system              *)
LEMMA ScreenKnows ==
    ASSUME JourneyTypes,
           \/ \E j \in Journey!Journeys :
                 Journey!StartJourney(j) \/ Journey!EndJourney(j) \/ Journey!Expire(j)
           \/ Journey!DiscardWrite \/ Journey!Killed
    PROVE  Known' \subseteq Known
<1>1. CASE \E j \in Journey!Journeys : Journey!StartJourney(j) \/ Journey!Expire(j)
    BY <1>1 DEF Journey!StartJourney, Journey!Expire, Known, Held, Elements, Found
<1>2. CASE \E j \in Journey!Journeys : Journey!EndJourney(j)
    <2>1. /\ UNCHANGED << queue, fixCalls, owed >>
          /\ discard'.at = "write" /\ discard'.found = queue
        BY <1>2 DEF Journey!EndJourney
    <2>2. Found(discard)' = Elements(queue) BY <2>1 DEF Found, Elements
    <2>3. Known' = Elements(queue) \cup owed \cup (UNION {Held(fixCalls[d]) : d \in Callbacks})
                 \cup Found(discard)'
        BY <2>1 DEF Known, Held, Elements, Found
    <2> QED BY <2>2, <2>3 DEF Known
<1>3. CASE Journey!DiscardWrite
    <2>1. /\ discard.at = "write" /\ UNCHANGED << fixCalls, owed >>
          /\ discard' = Journey!NoDiscard
          /\ queue' = Journey!Latest(Journey!Besides(discard.journey, discard.found))
        BY <1>3 DEF Journey!DiscardWrite, Journey!WritePending
    <2>2. discard.found \in Seq(Updates) BY <2>1, DiscardCases DEF JourneyTypes
    <2>3. Elements(queue') \subseteq Elements(discard.found)
        BY <2>1, <2>2, BesidesProperties, LatestIsPart
    <2>4. Found(discard)' = {} BY <2>1 DEF Found, Journey!NoDiscard
    <2>5. Known' = Elements(queue') \cup owed \cup (UNION {Held(fixCalls[d]) : d \in Callbacks})
                 \cup Found(discard)'
        BY <2>1 DEF Known, Held, Elements, Found
    <2> QED BY <2>1, <2>3, <2>4, <2>5 DEF Known, Found
<1>4. CASE Journey!Killed
    <2>1. /\ fixCalls' = [c \in Callbacks |-> Journey!Idle] /\ discard' = Journey!NoDiscard
          /\ UNCHANGED << queue, owed >>
        BY <1>4 DEF Journey!Killed
    <2>2. \A c \in Callbacks : Held(fixCalls'[c]) = {} BY <2>1 DEF Held, Journey!Idle
    <2>3. Found(discard)' = {} BY <2>1 DEF Found, Journey!NoDiscard
    <2>4. Known' = Elements(queue) \cup owed \cup (UNION {Held(fixCalls'[d]) : d \in Callbacks})
                 \cup Found(discard)'
        BY <2>1 DEF Known, Held, Elements, Found
    <2> QED BY <2>2, <2>3, <2>4 DEF Known
<1> QED BY <1>1, <1>2, <1>3, <1>4

(* The steps of a call that has its fix                                    *)
LEMMA CallKnows ==
    ASSUME JourneyTypes, NEW c \in Callbacks,
           \/ Journey!Read(c) \/ Journey!Accepted(c) \/ Journey!AnswerLost(c) \/ Journey!Fails(c)
           \/ Journey!Write(c) \/ Journey!Return(c)
    PROVE  Known' \subseteq Known
<1> DEFINE x == fixCalls[c]
<1>0. Held(x) \subseteq Known /\ Elements(queue) \subseteq Known /\ owed \subseteq Known
    BY HeldIsKnown
<1>1. CASE Journey!Read(c)
    <2> DEFINE w == Journey!Work(queue, x.own)
               o == Journey!Besides(x.own.journey, queue)
               y == [at |-> "send", next |-> 1, work |-> w, other |-> o]
    <2>1. x.own \in Updates /\ fixCalls' = [fixCalls EXCEPT ![c] = y] BY <1>1, ReadCall
    <2>2. UNCHANGED << queue, owed, discard >> /\ x.at = "read" BY <1>1 DEF Journey!Read
    <2>3. x.own \in Known BY <1>0, <2>2 DEF Held
    <2>4. queue \in Seq(Updates) BY DEF JourneyTypes
    <2> HIDE DEF x
    <2>5. Elements(w) \subseteq Elements(queue) \cup {x.own} BY <2>1, <2>4, WorkProperties
    <2>6. Elements(o) \subseteq Elements(queue) BY <2>4, BesidesProperties
    <2> HIDE DEF w, o
    <2>7. Held(y) = Elements(w) \cup Elements(o) BY DEF Held
    <2> HIDE DEF y
    <2>8. Held(y) \subseteq Known BY <1>0, <2>3, <2>5, <2>6, <2>7
    <2>9. Elements(queue)' \subseteq Known /\ owed' \subseteq Known
        BY <1>0, <2>2 DEF Elements
    <2> QED BY <2>1, <2>2, <2>8, <2>9, KnownFrom
<1>2. CASE Journey!Accepted(c)
    <2>1. x.at = "send" /\ UNCHANGED << queue, owed, discard >> BY <1>2 DEF Journey!Accepted
    <2>2. Elements(x.work) \subseteq Known /\ Elements(x.other) \subseteq Known
        BY <1>0, <2>1 DEF Held
    <2>3. Elements(queue)' \subseteq Known /\ owed' \subseteq Known
        BY <1>0, <2>1 DEF Elements
    <2>4. PICK answer \in {"active", "over"} :
              \/ fixCalls' = [fixCalls EXCEPT ![c] =
                            [at |-> "write", keep |-> x.other, heard |-> answer,
                             tried |-> Elements(x.work)]]
              \/ fixCalls' = [fixCalls EXCEPT ![c] =
                            [at |-> "send", next |-> x.next + 1,
                             work |-> x.work, other |-> x.other]]
        BY <1>2, AcceptedCall
    <2> HIDE DEF x
    <2>5. Held([at |-> "write", keep |-> x.other, heard |-> answer,
                             tried |-> Elements(x.work)]) \subseteq Known
        BY <2>2 DEF Held
    <2>6. Held([at |-> "send", next |-> x.next + 1, work |-> x.work, other |-> x.other])
             \subseteq Known
        BY <2>2 DEF Held
    <2> QED BY <2>1, <2>3, <2>4, <2>5, <2>6, KnownFrom
<1>3. CASE Journey!AnswerLost(c) \/ Journey!Fails(c)
    <2>1. /\ x.at = "send" /\ UNCHANGED << queue, owed, discard >>
          /\ fixCalls' = [fixCalls EXCEPT ![c] = Journey!GoWrite(c, Journey!KeepAll(c), "nothing")]
        BY <1>3 DEF Journey!AnswerLost, Journey!Fails
    <2> DEFINE y == [at |-> "write", keep |-> x.other \o x.work,
                     heard |-> "nothing", tried |-> Elements(x.work)]
    <2>2. fixCalls' = [fixCalls EXCEPT ![c] = y] BY <2>1, GivesUpTyped
    <2>3. Elements(x.work) \subseteq Known /\ Elements(x.other) \subseteq Known
        BY <1>0, <2>1 DEF Held
    <2>4. x.work \in Seq(Updates) /\ x.other \in Seq(Updates) BY <2>1, SendingCall
    <2> HIDE DEF x
    <2>5. Elements(x.other \o x.work) \subseteq Known BY <2>3, <2>4, JoinedInOrder
    <2>6. Held(y) \subseteq Known BY <2>3, <2>5 DEF Held
    <2>7. Elements(queue)' \subseteq Known /\ owed' \subseteq Known
        BY <1>0, <2>1 DEF Elements
    <2> HIDE DEF y
    <2> QED BY <2>1, <2>2, <2>6, <2>7, KnownFrom
<1>4. CASE Journey!Write(c)
    <2> DEFINE y == [at |-> "return", heard |-> x.heard]
    <2>1. /\ x.keep \in Seq(Updates) /\ queue' = Journey!Latest(x.keep)
          /\ fixCalls' = [fixCalls EXCEPT ![c] = y]
          /\ owed' \subseteq owed \cup x.tried /\ discard' = discard
        BY <1>4, WriteCall
    <2>2. x.at = "write" BY <1>4 DEF Journey!Write
    <2>3. Elements(x.keep) \subseteq Known /\ x.tried \subseteq Known BY <1>0, <2>2 DEF Held
    <2> HIDE DEF x
    <2>4. Elements(queue') \subseteq Known BY <2>1, <2>3, LatestIsPart
    <2>5. Elements(queue)' \subseteq Known BY <2>4 DEF Elements
    <2>6. owed' \subseteq Known BY <1>0, <2>1, <2>3
    <2>7. Held(y) \subseteq Known BY DEF Held
    <2> HIDE DEF y
    <2> QED BY <2>1, <2>5, <2>6, <2>7, KnownFrom
<1>5. CASE Journey!Return(c)
    <2>1. fixCalls' = [fixCalls EXCEPT ![c] = Journey!Idle] /\ UNCHANGED << queue, owed, discard >>
        BY <1>5 DEF Journey!Return
    <2>2. Held(Journey!Idle) \subseteq Known BY DEF Held, Journey!Idle
    <2>3. Elements(queue)' \subseteq Known /\ owed' \subseteq Known
        BY <1>0, <2>1 DEF Elements
    <2> QED BY <2>1, <2>2, <2>3, KnownFrom
<1> QED BY <1>1, <1>2, <1>3, <1>4, <1>5

LEMMA CaptureKnows ==
    ASSUME JourneyTypes, NEW c \in Callbacks, Journey!Capture(c)
    PROVE  \E u \in Updates :
              /\ u = [journey |-> current, fix |-> taken']
              /\ taken' \in {taken, taken + 1} /\ current \in Journey!Journeys
              /\ fixCalls[c] = Journey!Idle
              /\ fixCalls' = [fixCalls EXCEPT ![c] = [at |-> "read", own |-> u]]
              /\ Known' \subseteq Known \cup {u}
              /\ UNCHANGED << queue, discard, current, status, recorded, owed >>
<1>1. /\ current # 0 /\ fixCalls[c] = Journey!Idle
      /\ UNCHANGED << queue, discard, current, status, recorded, owed >> BY DEF Journey!Capture
<1> DEFINE u == [journey |-> current, fix |-> taken']
<1>2. /\ taken' \in {taken, taken + 1} \cap Journey!Fixes
      /\ fixCalls' = [fixCalls EXCEPT ![c] = [at |-> "read", own |-> u]]
    BY DEF Journey!Capture
<1>3. u \in Updates /\ current \in Journey!Journeys
    BY <1>1, <1>2 DEF JourneyTypes, Updates, Journey!Updates
<1> HIDE DEF u
<1>4. Held([at |-> "read", own |-> u]) = {u} BY DEF Held
<1>5. Elements(queue)' \subseteq Known /\ owed' \subseteq Known
    BY <1>1, HeldIsKnown DEF Elements
<1>6. Known' \subseteq Known \cup {u}
    <2> DEFINE K == Known \cup {u}
               y == [at |-> "read", own |-> u]
    <2>1. Known \subseteq K /\ Held(y) \subseteq K /\ Elements(queue)' \subseteq K /\ owed' \subseteq K
        BY <1>4, <1>5
    <2>2. discard' = discard /\ fixCalls' = [fixCalls EXCEPT ![c] = y] BY <1>1, <1>2
    <2> HIDE DEF K, y
    <2>3. Known' \subseteq K BY <2>1, <2>2, KnownFrom
    <2> QED BY <2>3 DEF K
<1> QED BY <1>1, <1>2, <1>3, <1>6 DEF u

-----------------------------------------------------------------------------
(* An update that is not wanted is never wanted again.                     *)
LEMMA NeedsFade ==
    ASSUME JourneyTypes, Journey!Next, NEW u \in Updates
    PROVE  /\ ~Live(u) => ~Live(u)'
           /\ Needs(u)' => Needs(u)
           /\ Needs(u)' => Live(u)'
<1>1. u.journey \in Journey!Journeys /\ u.fix \in Nat
    BY DEF Updates, Journey!Updates, Journey!Fixes
<1>2. /\ status[u.journey] = "over" => status[u.journey]' = "over"
      /\ recorded \subseteq recorded' /\ taken <= taken'
    BY <1>1, NothingUndone
<1>3. taken \in Nat /\ taken' \in Nat /\ MaxPending \in Nat
    BY JourneyStep, JourneyAssumption DEF JourneyTypes
<1>4. taken - u.fix >= MaxPending => taken' - u.fix >= MaxPending BY <1>1, <1>2, <1>3
<1> QED BY <1>2, <1>4 DEF Live, Needs

(* Only the taking of a fix adds to what the phone holds.                  *)
LEMMA KnownMoves ==
    ASSUME JourneyTypes, Journey!Next
    PROVE  \/ Known' \subseteq Known
           \/ \E c \in Callbacks : Journey!Capture(c)
BY ScreenKnows, CallKnows DEF Journey!Next

LEMMA TakenStep ==
    ASSUME JourneyTypes, JourneysInTurn, KnownTaken, Journey!Next
    PROVE  KnownTaken'
<1>1. \A u \in Known : u.journey \in Journey!Journeys /\ u.fix \in Nat /\ u \in Updates
    BY HeldIsKnown DEF Updates, Journey!Updates, Journey!Fixes
<1>2. taken \in Nat /\ taken' \in Nat BY JourneyStep DEF JourneyTypes
<1>3. \A u \in Known : status[u.journey]' # "none" /\ u.fix <= taken'
    BY <1>1, <1>2, NothingUndone DEF KnownTaken
<1>4. CASE Known' \subseteq Known BY <1>3, <1>4 DEF KnownTaken
<1>5. CASE \E c \in Callbacks : Journey!Capture(c)
    <2>1. PICK u \in Updates :
              /\ u = [journey |-> current, fix |-> taken'] /\ current \in Journey!Journeys
              /\ Known' \subseteq Known \cup {u} /\ status' = status
        BY <1>5, CaptureKnows
    <2>2. status[u.journey]' # "none" BY <2>1 DEF JourneysInTurn, Journey!Journeys
    <2>3. u.fix <= taken' BY <1>2, <2>1
    <2> QED BY <1>3, <2>1, <2>2, <2>3 DEF KnownTaken
<1> QED BY <1>4, <1>5, KnownMoves

-----------------------------------------------------------------------------
LEMMA NoneLiveStays ==
    ASSUME JourneyTypes, Journey!Next, NoneLive, Known' \subseteq Known
    PROVE  NoneLive'
<1>1. \A u \in Known : ~Live(u)' BY NeedsFade, HeldIsKnown DEF NoneLive
<1>2. \A u \in Known' : ~Live(u)' BY <1>1
<1> QED BY <1>2 DEF NoneLive

LEMMA DiscardedStaysOver ==
    ASSUME JourneyTypes, LiveIsCurrent, Journey!Next, discard.at = "write"
    PROVE  status'[discard.journey] = "over"
<1>1. discard.journey \in Journey!Journeys BY DiscardCases DEF JourneyTypes
<1>2. status[discard.journey] = "over" BY DEF LiveIsCurrent
<1>3. ASSUME NEW j \in Journey!Journeys, status[j] = "over" PROVE status'[j] = "over"
    BY <1>3, NothingUndone
<1>4. \A j \in Journey!Journeys : status[j] = "over" => status'[j] = "over" BY <1>3
<1> QED BY <1>1, <1>2, <1>4

(* Only the journey the phone is on has updates that are still wanted      *)
LEMMA LiveScreen ==
    ASSUME JourneyTypes, KnownTaken, LiveIsCurrent, Journey!Next,
           \/ \E j \in Journey!Journeys :
                 Journey!StartJourney(j) \/ Journey!EndJourney(j) \/ Journey!Expire(j)
           \/ Journey!DiscardWrite \/ Journey!Killed
    PROVE  LiveIsCurrent'
<1>0. Known' \subseteq Known BY ScreenKnows
<1>1. \A u \in Known : u.journey \in Journey!Journeys /\ u \in Updates
    BY HeldIsKnown DEF Updates, Journey!Updates
<1>2. \A u \in Known : Live(u)' => Live(u) BY <1>1, NeedsFade
<1>3. NoneLive => NoneLive' BY <1>0, NoneLiveStays
<1>4. CASE \E j \in Journey!Journeys : Journey!StartJourney(j)
    <2>1. PICK j \in Journey!Journeys : Journey!StartJourney(j) BY <1>4
    <2>2. current = 0 /\ discard = Journey!NoDiscard /\ fixCalls' = fixCalls /\ discard' = discard
        BY <2>1 DEF Journey!StartJourney
    <2>3. \A u \in Known : ~Live(u)
        BY <1>1, <2>2 DEF LiveIsCurrent, Journey!Journeys
    <2>4. NoneLive' BY <1>3, <2>3 DEF NoneLive
    <2> QED BY <2>2, <2>4 DEF LiveIsCurrent, OverHeard, NoneLive, Journey!NoDiscard
<1>5. CASE \E j \in Journey!Journeys : Journey!EndJourney(j)
    <2>1. PICK j \in Journey!Journeys : Journey!EndJourney(j) BY <1>5
    <2>2. /\ current = j /\ current' = current /\ status' = [status EXCEPT ![j] = "over"]
          /\ fixCalls' = fixCalls /\ discard'.journey = j
        BY <2>1 DEF Journey!EndJourney
    <2>3. status'[j] = "over" BY <2>2 DEF JourneyTypes
    <2>4. \A u \in Known : Live(u)' => u.journey = j
        BY <1>2, <2>2 DEF LiveIsCurrent
    <2>5. \A u \in Known : ~Live(u)' BY <2>3, <2>4 DEF Live
    <2>6. NoneLive' BY <1>0, <2>5 DEF NoneLive
    <2> QED BY <2>2, <2>3, <2>6 DEF LiveIsCurrent, OverHeard, NoneLive
<1>6. CASE \E j \in Journey!Journeys : Journey!Expire(j)
    <2>1. UNCHANGED << current, fixCalls, discard >> BY <1>6 DEF Journey!Expire
    <2>2. \A u \in Known' : Live(u)' => u.journey = current'
        BY <1>0, <1>2, <2>1 DEF LiveIsCurrent
    <2>3. discard.at = "write" => status'[discard.journey] = "over" BY DiscardedStaysOver
    <2> QED BY <1>3, <2>1, <2>2, <2>3 DEF LiveIsCurrent, OverHeard
<1>7. CASE Journey!DiscardWrite
    <2>1. /\ discard.at = "write" /\ discard' = Journey!NoDiscard /\ fixCalls' = fixCalls
        BY <1>7 DEF Journey!DiscardWrite
    <2>2. NoneLive' BY <1>3, <2>1 DEF LiveIsCurrent
    <2> QED BY <2>1, <2>2 DEF LiveIsCurrent, OverHeard, NoneLive, Journey!NoDiscard
<1>8. CASE Journey!Killed
    <2>1. /\ discard' = Journey!NoDiscard /\ fixCalls' = [c \in Callbacks |-> Journey!Idle]
          /\ current' = current
        BY <1>8 DEF Journey!Killed
    <2>2. \A c \in Callbacks : fixCalls'[c].at = "idle" BY <2>1, FixCallIs
    <2>3. \A u \in Known' : Live(u)' => u.journey = current'
        BY <1>0, <1>2, <2>1 DEF LiveIsCurrent
    <2> QED BY <2>1, <2>2, <2>3 DEF LiveIsCurrent, OverHeard, Journey!NoDiscard
<1> QED BY <1>4, <1>5, <1>6, <1>7, <1>8

(* A callback keeps what the phone holds to its current journey.           *)
LEMMA LiveCall ==
    ASSUME JourneyTypes, KnownTaken, LiveIsCurrent, Journey!Next, Alone, NEW c \in Callbacks,
           \/ Journey!Capture(c) \/ Journey!Read(c) \/ Journey!Accepted(c) \/ Journey!AnswerLost(c)
           \/ Journey!Fails(c) \/ Journey!Write(c) \/ Journey!Return(c)
    PROVE  LiveIsCurrent'
<1>1. \A u \in Known : u.journey \in Journey!Journeys /\ u \in Updates
    BY HeldIsKnown DEF Updates, Journey!Updates
<1>2. \A u \in Known : Live(u)' => Live(u) BY <1>1, NeedsFade
<1>3. discard.at = "write" => status'[discard.journey] = "over" BY DiscardedStaysOver
<1>4. Callbacks = {c} BY DEF Alone
<1>5. CASE Journey!Capture(c)
    <2>1. PICK u \in Updates :
              /\ u = [journey |-> current, fix |-> taken'] /\ current \in Journey!Journeys
              /\ fixCalls' = [fixCalls EXCEPT ![c] = [at |-> "read", own |-> u]]
              /\ Known' \subseteq Known \cup {u}
              /\ UNCHANGED << queue, discard, current, status, recorded, owed >>
        BY <1>5, CaptureKnows
    <2>2. \A v \in Known' : Live(v)' => v.journey = current'
        BY <1>2, <2>1 DEF LiveIsCurrent
    <2>3. ASSUME discard.at = "write" PROVE NoneLive'
        <3>1. current = discard.journey
            BY <2>1, <2>3 DEF LiveIsCurrent, Journey!Journeys
        <3>2. status[u.journey]' = "over" BY <1>3, <2>1, <2>3, <3>1
        <3>3. \A v \in Known : ~Live(v)' BY <1>2, <2>3 DEF LiveIsCurrent, NoneLive
        <3> QED BY <2>1, <3>2, <3>3 DEF NoneLive, Live
    <2>4. fixCalls'[c].at = "read" BY <2>1 DEF JourneyTypes
    <2> QED BY <1>3, <1>4, <2>1, <2>2, <2>3, <2>4 DEF LiveIsCurrent, OverHeard
<1>6. CASE ~Journey!Capture(c)
    <2>0. Known' \subseteq Known BY <1>6, CallKnows
    <2>1. NoneLive => NoneLive' BY <2>0, NoneLiveStays
    <2>2. discard' = discard
        BY <1>6 DEF Journey!Read, Journey!Accepted, Journey!AnswerLost, Journey!Fails,
           Journey!Write, Journey!Return
    <2>3. \A u \in Known' : Live(u)' => u.journey = current
        BY <1>2, <2>0 DEF LiveIsCurrent
    <2>4. CASE Journey!Return(c)
        <3>1. /\ fixCalls[c].at = "return"
              /\ current' = IF fixCalls[c].heard = "over" THEN 0 ELSE current
              /\ fixCalls' = [fixCalls EXCEPT ![c] = Journey!Idle]
            BY <2>4 DEF Journey!Return
        <3>2. fixCalls[c].heard = "over" => NoneLive' BY <2>1, <3>1 DEF LiveIsCurrent, OverHeard
        <3>3. \A u \in Known' : Live(u)' => u.journey = current'
            BY <2>3, <3>1, <3>2 DEF NoneLive
        <3>4. fixCalls'[c].at = "idle" BY <3>1, FixCallIs DEF JourneyTypes
        <3>5. discard.at = "write" => NoneLive' /\ current' \in {0, discard.journey}
            BY <2>1, <3>1 DEF LiveIsCurrent
        <3> QED BY <1>3, <1>4, <2>2, <3>3, <3>4, <3>5 DEF LiveIsCurrent, OverHeard
    <2>5. CASE ~Journey!Return(c)
        <3>1. current' = current
            BY <1>6, <2>5 DEF Journey!Read, Journey!Accepted, Journey!AnswerLost, Journey!Fails,
               Journey!Write
        <3>2. OverHeard(fixCalls[c])'
            <4>1. CASE Journey!Read(c)
                <5>1. fixCalls'[c].at = "send" BY <4>1, ReadCall DEF JourneyTypes
                <5> QED BY <5>1 DEF OverHeard
            <4>2. CASE Journey!AnswerLost(c) \/ Journey!Fails(c)
                <5>1. fixCalls'[c].heard = "nothing"
                    <6>1. /\ fixCalls[c].at = "send"
                          /\ fixCalls' = [fixCalls EXCEPT
                                 ![c] = Journey!GoWrite(c, Journey!KeepAll(c), "nothing")]
                        BY <4>2 DEF Journey!AnswerLost, Journey!Fails
                    <6>2. fixCalls' = [fixCalls EXCEPT ![c] =
                              [at |-> "write", keep |-> fixCalls[c].other \o fixCalls[c].work,
                               heard |-> "nothing", tried |-> Elements(fixCalls[c].work)]]
                        BY <6>1, GivesUpTyped
                    <6> QED BY <6>2 DEF JourneyTypes
                <5> QED BY <5>1 DEF OverHeard
            <4>3. CASE Journey!Write(c)
                <5>1. fixCalls'[c] = [at |-> "return", heard |-> fixCalls[c].heard]
                    BY <4>3, WriteCall DEF JourneyTypes
                <5>2. fixCalls[c].at = "write" BY <4>3 DEF Journey!Write
                <5>3. fixCalls[c].heard = "over" => NoneLive
                    BY <5>2 DEF LiveIsCurrent, OverHeard
                <5> QED BY <2>1, <5>1, <5>3 DEF OverHeard
            <4>4. CASE Journey!Accepted(c)
                <5> DEFINE v == Journey!Sending(c)
                <5>1. fixCalls[c].at = "send" /\ status[v.journey] = "active"
                    BY <4>4 DEF Journey!Accepted
                <5>2. v \in Known
                    <6>1. /\ v = fixCalls[c].work[fixCalls[c].next]
                          /\ fixCalls[c].next \in 1..Len(fixCalls[c].work)
                        BY <5>1, SendingCall
                    <6>2. v \in Held(fixCalls[c]) BY <5>1, <6>1 DEF Held, Elements
                    <6> QED BY <6>2, HeldIsKnown
                <5>3. v.journey = current BY <5>1, <5>2 DEF LiveIsCurrent, Live
                <5>4. PICK answer \in {"active", "over"} :
                        /\ status' = [status EXCEPT ![v.journey] = answer]
                        /\ \/ fixCalls' = [fixCalls EXCEPT ![c] =
                                [at |-> "write", keep |-> fixCalls[c].other, heard |-> answer,
                                 tried |-> Elements(fixCalls[c].work)]]
                           \/ fixCalls' = [fixCalls EXCEPT ![c] =
                                [at |-> "send", next |-> fixCalls[c].next + 1,
                                 work |-> fixCalls[c].work, other |-> fixCalls[c].other]]
                    BY <4>4, AcceptedCall
                <5>5. fixCalls'[c].at = "send" \/ fixCalls'[c].heard = answer
                    BY <5>4 DEF JourneyTypes
                <5>6. ASSUME answer = "over" PROVE NoneLive'
                    <6>1. status'[current] = "over"
                        BY <1>1, <5>2, <5>3, <5>4, <5>6 DEF JourneyTypes
                    <6>2. \A u \in Known' : ~Live(u)' BY <2>3, <6>1 DEF Live
                    <6> QED BY <6>2 DEF NoneLive
                <5> QED BY <5>4, <5>5, <5>6 DEF OverHeard
            <4> QED BY <1>6, <2>5, <4>1, <4>2, <4>3, <4>4
        <3>3. \A d \in Callbacks : OverHeard(fixCalls[d])' BY <1>4, <3>2
        <3> QED BY <1>3, <2>1, <2>2, <2>3, <3>1, <3>3 DEF LiveIsCurrent
    <2> QED BY <2>4, <2>5
<1> QED BY <1>5, <1>6

-----------------------------------------------------------------------------
(* The screen, the server and a kill leave all in order.                   *)
LEMMA OrderScreen ==
    ASSUME JourneyTypes, AllInOrder, Journey!Next,
           \/ \E j \in Journey!Journeys :
                 Journey!StartJourney(j) \/ Journey!EndJourney(j) \/ Journey!Expire(j)
           \/ Journey!DiscardWrite \/ Journey!Killed
    PROVE  AllInOrder'
<1>0. Known' \subseteq Known BY ScreenKnows
<1>1. ASSUME fixCalls' = fixCalls
      PROVE  \A c \in Callbacks : /\ OwnIsLast(fixCalls[c])' /\ SentInOrder(fixCalls[c])'
                                  /\ WrittenInOrder(fixCalls[c])'
    <2> SUFFICES ASSUME NEW c \in Callbacks
                 PROVE  /\ OwnIsLast(fixCalls[c])' /\ SentInOrder(fixCalls[c])'
                        /\ WrittenInOrder(fixCalls[c])'
        OBVIOUS
    <2>1. OwnIsLast(fixCalls[c])' BY <1>0, <1>1 DEF AllInOrder, OwnIsLast
    <2>2. SentInOrder(fixCalls[c])'
        BY <1>1 DEF AllInOrder, SentInOrder, InOrder, Apart, Elements
    <2>3. WrittenInOrder(fixCalls[c])' BY <1>1 DEF AllInOrder, WrittenInOrder, InOrder
    <2> QED BY <2>1, <2>2, <2>3
<1>2. CASE \E j \in Journey!Journeys : Journey!StartJourney(j) \/ Journey!Expire(j)
    <2>1. UNCHANGED << queue, fixCalls, discard >>
        BY <1>2 DEF Journey!StartJourney, Journey!Expire
    <2> QED BY <1>1, <2>1 DEF AllInOrder, InOrder
<1>3. CASE \E j \in Journey!Journeys : Journey!EndJourney(j)
    <2>1. UNCHANGED << queue, fixCalls >> /\ discard'.found = queue
        BY <1>3 DEF Journey!EndJourney
    <2> QED BY <1>1, <2>1 DEF AllInOrder, InOrder
<1>4. CASE Journey!DiscardWrite
    <2>1. /\ discard.at = "write" /\ fixCalls' = fixCalls /\ discard' = Journey!NoDiscard
          /\ queue' = Journey!Latest(Journey!Besides(discard.journey, discard.found))
        BY <1>4 DEF Journey!DiscardWrite, Journey!WritePending
    <2>2. discard.found \in Seq(Updates) BY <2>1, DiscardCases DEF JourneyTypes
    <2>3. InOrder(discard.found) BY <2>1 DEF AllInOrder
    <2> DEFINE b == Journey!Besides(discard.journey, discard.found)
    <2>4. b \in Seq(Updates) BY <2>2, BesidesProperties
    <2>5. InOrder(b) BY <2>2, <2>3, OfInOrder
    <2> HIDE DEF b
    <2>6. InOrder(Journey!Latest(b)) BY <2>4, <2>5, LatestInOrder
    <2>7. InOrder(queue)' BY <2>1, <2>6 DEF InOrder, b
    <2> QED BY <1>1, <2>1, <2>7 DEF AllInOrder, Journey!NoDiscard
<1>5. CASE Journey!Killed
    <2>1. /\ discard' = Journey!NoDiscard /\ fixCalls' = [c \in Callbacks |-> Journey!Idle]
          /\ queue' = queue
        BY <1>5 DEF Journey!Killed
    <2>2. \A c \in Callbacks : fixCalls'[c].at = "idle" BY <2>1, FixCallIs
    <2>3. InOrder(queue)' BY <2>1 DEF AllInOrder, InOrder
    <2> QED BY <2>1, <2>2, <2>3
        DEF AllInOrder, OwnIsLast, SentInOrder, WrittenInOrder, Journey!NoDiscard
<1> QED BY <1>2, <1>3, <1>4, <1>5

(* What the order of a call says when the call has become x                *)
LEMMA OrderOf ==
    ASSUME JourneyTypes, AllInOrder, Alone, NEW c \in Callbacks, NEW x,
           fixCalls' = [fixCalls EXCEPT ![c] = x], discard' = discard, InOrder(queue'),
           x.at = "read" => \A u \in Known' : u.journey <= x.own.journey /\ u.fix <= x.own.fix,
           SentInOrder(x), WrittenInOrder(x)
    PROVE  AllInOrder'
<1>1. Callbacks = {c} BY DEF Alone
<1>2. fixCalls'[c] = x BY DEF JourneyTypes
<1>3. OwnIsLast(fixCalls[c])' BY <1>2 DEF OwnIsLast
<1>4. SentInOrder(fixCalls[c])' BY <1>2 DEF SentInOrder, InOrder, Apart, Elements
<1>5. WrittenInOrder(fixCalls[c])' BY <1>2 DEF WrittenInOrder, InOrder
<1>6. discard'.at = "write" => InOrder(discard.found)' BY DEF AllInOrder, InOrder
<1>7. InOrder(queue)' BY DEF InOrder
<1> QED BY <1>1, <1>3, <1>4, <1>5, <1>6, <1>7 DEF AllInOrder

(* A callback leaves all in order.                                         *)
LEMMA OrderCall ==
    ASSUME JourneyTypes, JourneysInTurn, KnownTaken, AllInOrder, Journey!Next, Alone,
           NEW c \in Callbacks,
           \/ Journey!Capture(c) \/ Journey!Read(c) \/ Journey!Accepted(c) \/ Journey!AnswerLost(c)
           \/ Journey!Fails(c) \/ Journey!Write(c) \/ Journey!Return(c)
    PROVE  AllInOrder'
<1>1. InOrder(queue) /\ queue \in Seq(Updates) BY DEF AllInOrder, JourneyTypes
<1>2. OwnIsLast(fixCalls[c]) /\ SentInOrder(fixCalls[c]) /\ WrittenInOrder(fixCalls[c])
    BY DEF AllInOrder
<1>3. \A u \in Known : u.journey \in Journey!Journeys /\ u \in Updates
    BY HeldIsKnown DEF Updates, Journey!Updates
<1>4. CASE Journey!Capture(c)
    <2>1. PICK u \in Updates :
              /\ u = [journey |-> current, fix |-> taken'] /\ current \in Journey!Journeys
              /\ fixCalls' = [fixCalls EXCEPT ![c] = [at |-> "read", own |-> u]]
              /\ Known' \subseteq Known \cup {u}
              /\ UNCHANGED << queue, discard, current, status, recorded, owed >>
        BY <1>4, CaptureKnows
    <2>2. \A v \in Known : v.journey <= current
        <3> SUFFICES ASSUME NEW v \in Known, ~(v.journey <= current) PROVE FALSE OBVIOUS
        <3>1. current < v.journey BY <1>3, <2>1 DEF Journey!Journeys
        <3>2. status[v.journey] = "none"
            BY <1>3, <2>1, <3>1 DEF JourneysInTurn, Journey!Journeys
        <3> QED BY <3>2 DEF KnownTaken
    <2>3. \A v \in Known : v.fix <= taken'
        <3>1. \A v \in Known : v.fix <= taken /\ v.fix \in Nat
            BY <1>3 DEF KnownTaken, Updates, Journey!Updates, Journey!Fixes
        <3>2. taken <= taken' /\ taken \in Nat /\ taken' \in Nat
            BY NothingUndone, JourneyStep DEF JourneyTypes
        <3> QED BY <3>1, <3>2
    <2>4. u.journey <= u.journey /\ u.fix <= u.fix
        BY DEF Updates, Journey!Updates, Journey!Journeys, Journey!Fixes
    <2>5. \A v \in Known' : v.journey <= u.journey /\ v.fix <= u.fix
        BY <2>1, <2>2, <2>3, <2>4
    <2> DEFINE x == [at |-> "read", own |-> u]
    <2>6. SentInOrder(x) /\ WrittenInOrder(x) BY DEF SentInOrder, WrittenInOrder
    <2>7. x.own = u OBVIOUS
    <2> HIDE DEF x
    <2> QED BY <1>1, <2>1, <2>5, <2>6, <2>7, OrderOf DEF x
<1>5. CASE Journey!Read(c)
    <2> DEFINE u == fixCalls[c].own
               w == Journey!Work(queue, u)
               o == Journey!Besides(u.journey, queue)
               y == [at |-> "send", next |-> 1, work |-> w, other |-> o]
    <2>1. u \in Updates /\ fixCalls' = [fixCalls EXCEPT ![c] = y] BY <1>5, ReadCall
    <2>2. UNCHANGED << queue, discard >> /\ fixCalls[c].at = "read" BY <1>5 DEF Journey!Read
    <2>3. \A v \in Elements(queue) : v.journey <= u.journey /\ v.fix <= u.fix
        BY <1>2, <2>2, HeldIsKnown DEF OwnIsLast
    <2> HIDE DEF u
    <2>4. InOrder(w) /\ Apart(o, w) BY <1>1, <2>1, <2>3, WorkInOrder
    <2>5. InOrder(o) BY <1>1, OfInOrder
    <2> HIDE DEF w, o
    <2>6. SentInOrder(y) /\ WrittenInOrder(y) /\ y.at # "read"
        BY <2>4, <2>5 DEF SentInOrder, WrittenInOrder
    <2> HIDE DEF y
    <2>7. InOrder(queue') BY <1>1, <2>2
    <2> QED BY <2>1, <2>2, <2>6, <2>7, OrderOf
<1>6. CASE Journey!Accepted(c)
    <2> DEFINE x == fixCalls[c]
    <2>1. x.at = "send" /\ UNCHANGED << queue, discard >> BY <1>6 DEF Journey!Accepted
    <2>2. InOrder(x.work) /\ InOrder(x.other) /\ Apart(x.other, x.work)
        BY <1>2, <2>1 DEF SentInOrder
    <2>3. PICK answer \in {"active", "over"} :
              \/ fixCalls' = [fixCalls EXCEPT ![c] =
                            [at |-> "write", keep |-> x.other, heard |-> answer,
                             tried |-> Elements(x.work)]]
              \/ fixCalls' = [fixCalls EXCEPT ![c] =
                            [at |-> "send", next |-> x.next + 1,
                             work |-> x.work, other |-> x.other]]
        BY <1>6, AcceptedCall
    <2> HIDE DEF x
    <2> DEFINE y == [at |-> "write", keep |-> x.other, heard |-> answer,
                             tried |-> Elements(x.work)]
               z == [at |-> "send", next |-> x.next + 1, work |-> x.work, other |-> x.other]
    <2>4. SentInOrder(y) /\ WrittenInOrder(y) /\ y.at # "read"
        BY <2>2 DEF SentInOrder, WrittenInOrder
    <2>5. SentInOrder(z) /\ WrittenInOrder(z) /\ z.at # "read"
        BY <2>2 DEF SentInOrder, WrittenInOrder
    <2>6. fixCalls' = [fixCalls EXCEPT ![c] = y] \/ fixCalls' = [fixCalls EXCEPT ![c] = z]
        BY <2>3
    <2>7. InOrder(queue') BY <1>1, <2>1
    <2> HIDE DEF y, z
    <2> QED BY <2>1, <2>4, <2>5, <2>6, <2>7, OrderOf
<1>7. CASE Journey!AnswerLost(c) \/ Journey!Fails(c)
    <2> DEFINE x == fixCalls[c]
               y == [at |-> "write", keep |-> x.other \o x.work,
                     heard |-> "nothing", tried |-> Elements(x.work)]
    <2>1. /\ x.at = "send" /\ UNCHANGED << queue, discard >>
          /\ fixCalls' = [fixCalls EXCEPT ![c] = Journey!GoWrite(c, Journey!KeepAll(c), "nothing")]
        BY <1>7 DEF Journey!AnswerLost, Journey!Fails
    <2>2. fixCalls' = [fixCalls EXCEPT ![c] = y] BY <2>1, GivesUpTyped
    <2>3. x.work \in Seq(Updates) /\ x.other \in Seq(Updates) BY <2>1, SendingCall
    <2>4. InOrder(x.work) /\ InOrder(x.other) /\ Apart(x.other, x.work)
        BY <1>2, <2>1 DEF SentInOrder
    <2> HIDE DEF x
    <2>5. InOrder(x.other \o x.work) BY <2>3, <2>4, JoinedInOrder
    <2>6. SentInOrder(y) /\ WrittenInOrder(y) /\ y.at # "read"
        BY <2>5 DEF SentInOrder, WrittenInOrder
    <2>7. InOrder(queue') BY <1>1, <2>1
    <2> HIDE DEF y
    <2> QED BY <2>1, <2>2, <2>6, <2>7, OrderOf
<1>8. CASE Journey!Write(c)
    <2> DEFINE y == [at |-> "return", heard |-> fixCalls[c].heard]
    <2>1. /\ fixCalls[c].keep \in Seq(Updates) /\ queue' = Journey!Latest(fixCalls[c].keep)
          /\ fixCalls' = [fixCalls EXCEPT ![c] = y] /\ discard' = discard
        BY <1>8, WriteCall
    <2>2. fixCalls[c].at = "write" BY <1>8 DEF Journey!Write
    <2>3. InOrder(fixCalls[c].keep) BY <1>2, <2>2 DEF WrittenInOrder
    <2>4. InOrder(queue') BY <2>1, <2>3, LatestInOrder
    <2>5. SentInOrder(y) /\ WrittenInOrder(y) /\ y.at # "read"
        BY DEF SentInOrder, WrittenInOrder
    <2> HIDE DEF y
    <2> QED BY <2>1, <2>4, <2>5, OrderOf
<1>9. CASE Journey!Return(c)
    <2>1. fixCalls' = [fixCalls EXCEPT ![c] = Journey!Idle] /\ UNCHANGED << queue, discard >>
        BY <1>9 DEF Journey!Return
    <2>2. SentInOrder(Journey!Idle) /\ WrittenInOrder(Journey!Idle) /\ Journey!Idle.at # "read"
        BY FixCallIs DEF SentInOrder, WrittenInOrder
    <2>3. InOrder(queue') BY <1>1, <2>1
    <2> QED BY <2>1, <2>2, <2>3, OrderOf
<1> QED BY <1>4, <1>5, <1>6, <1>7, <1>8, <1>9

-----------------------------------------------------------------------------
(* A step that takes nothing from storage that is still wanted             *)
LEMMA KeptScreen ==
    ASSUME JourneyTypes, LiveIsCurrent, OwedIsKept, Journey!Next,
           \/ \E j \in Journey!Journeys :
                 Journey!StartJourney(j) \/ Journey!EndJourney(j) \/ Journey!Expire(j)
           \/ Journey!DiscardWrite \/ Journey!Killed
    PROVE  OwedIsKept'
<1>0. Known' \subseteq Known BY ScreenKnows
<1>1. /\ Elements(queue) \subseteq Known /\ owed \subseteq Known /\ Known \subseteq Updates
      /\ \A c \in Callbacks : Held(fixCalls[c]) \subseteq Known
    BY HeldIsKnown
<1>2. \A u \in Known : Needs(u)' => Needs(u) /\ Live(u)' BY <1>1, NeedsFade
<1>3. recorded \subseteq recorded' BY NothingUndone
<1>4. ASSUME UNCHANGED << queue, fixCalls, owed >> PROVE OwedIsKept'
    <2>1. \A u \in owed' : Needs(u)' => u \in Elements(queue)'
        BY <1>1, <1>2, <1>4 DEF OwedIsKept, Elements
    <2>2. ASSUME NEW c \in Callbacks PROVE SentIsKept(fixCalls[c])' /\ WrittenIsKept(fixCalls[c])'
        <3> DEFINE x == fixCalls[c]
        <3>1. SentIsKept(x) /\ WrittenIsKept(x) BY DEF OwedIsKept
        <3>2. x' = x /\ queue' = queue BY <1>4
        <3>3. x.at = "write" => x.tried \subseteq Known BY <1>1 DEF Held
        <3>4. SentIsKept(x)'
            BY <1>1, <1>2, <1>3, <3>1, <3>2 DEF SentIsKept, Elements
        <3>5. WrittenIsKept(x)'
            <4>1. x'.at = "write" => x.at = "write" BY <3>2
            <4>2. ASSUME x.at = "write"
                  PROVE  \A u \in Elements(queue) : Needs(u)' => u \in Elements(Journey!Latest(x.keep))
                BY <1>1, <1>2, <3>1, <4>2 DEF WrittenIsKept
            <4>3. ASSUME x.at = "write", x.heard = "nothing"
                  PROVE  \A u \in x.tried : Needs(u)' => u \in Elements(Journey!Latest(x.keep))
                BY <1>2, <3>1, <3>3, <4>3 DEF WrittenIsKept
            <4>4. Journey!Latest(x.keep)' = Journey!Latest(x.keep)
                BY <1>4 DEF Journey!Latest, Journey!LastOf
            <4>5. /\ Elements(queue)' = Elements(queue)
                  /\ Elements(Journey!Latest(x.keep))' = Elements(Journey!Latest(x.keep))
                BY <1>4, <4>4 DEF Elements
            <4> QED BY <1>4, <3>2, <4>1, <4>2, <4>3, <4>5 DEF WrittenIsKept
        <3> QED BY <3>4, <3>5
    <2> QED BY <2>1, <2>2 DEF OwedIsKept
<1>5. CASE \E j \in Journey!Journeys :
              Journey!StartJourney(j) \/ Journey!EndJourney(j) \/ Journey!Expire(j)
    BY <1>4, <1>5 DEF Journey!StartJourney, Journey!EndJourney, Journey!Expire
<1>6. CASE Journey!DiscardWrite
    <2>1. discard.at = "write" /\ UNCHANGED << fixCalls, owed >> BY <1>6 DEF Journey!DiscardWrite
    <2>2. NoneLive BY <2>1 DEF LiveIsCurrent
    <2>3. NoneLive' BY <1>0, <2>2, NoneLiveStays
    <2>4. JourneyTypes' BY JourneyStep
    <2>5. /\ Elements(queue)' \subseteq Known' /\ owed' \subseteq Known'
          /\ \A c \in Callbacks : Held(fixCalls[c])' \subseteq Known'
        BY <2>1, <2>4, HeldIsKnown DEF Known
    <2>6. \A u \in Known' : ~Needs(u)' BY <2>3 DEF NoneLive, Needs
    <2>7. \A c \in Callbacks : fixCalls'[c].at = "write" => fixCalls'[c].tried \subseteq Known'
        BY <2>5 DEF Held
    <2>8. \A c \in Callbacks : SentIsKept(fixCalls[c])
        BY DEF OwedIsKept
    <2>9. \A c \in Callbacks : SentIsKept(fixCalls[c])'
        BY <1>3, <2>1, <2>5, <2>6, <2>8 DEF SentIsKept
    <2>10. \A c \in Callbacks : WrittenIsKept(fixCalls[c])'
        BY <2>5, <2>6, <2>7 DEF WrittenIsKept
    <2> QED BY <2>5, <2>6, <2>9, <2>10 DEF OwedIsKept
<1>7. CASE Journey!Killed
    <2>1. fixCalls' = [c \in Callbacks |-> Journey!Idle] /\ UNCHANGED << queue, owed >>
        BY <1>7 DEF Journey!Killed
    <2>2. \A c \in Callbacks : fixCalls'[c].at = "idle" BY <2>1, FixCallIs
    <2>3. \A u \in owed' : Needs(u)' => u \in Elements(queue)'
        BY <1>1, <1>2, <2>1 DEF OwedIsKept, Elements
    <2> QED BY <2>2, <2>3 DEF OwedIsKept, SentIsKept, WrittenIsKept
<1> QED BY <1>5, <1>6, <1>7

-----------------------------------------------------------------------------
(* What is kept when the call has become x                                 *)
LEMMA KeptOf ==
    ASSUME JourneyTypes, Alone, NEW c \in Callbacks, NEW x,
           fixCalls' = [fixCalls EXCEPT ![c] = x],
           \A u \in owed' : Needs(u)' => u \in Elements(queue)',
           x.at = "send" =>
                /\ \A i \in 1..Len(x.work) : i < x.next => x.work[i] \in recorded'
                /\ \A u \in Elements(queue)' : Needs(u)' => u \in Elements(x.work),
           x.at = "write" =>
                /\ \A u \in Elements(queue)' : Needs(u)' => u \in Elements(Journey!Latest(x.keep))
                /\ x.heard = "nothing" =>
                      \A u \in x.tried : Needs(u)' => u \in Elements(Journey!Latest(x.keep))
    PROVE  OwedIsKept'
<1>1. Callbacks = {c} BY DEF Alone
<1>2. fixCalls'[c] = x BY DEF JourneyTypes
<1>3. SentIsKept(fixCalls[c])'
    <2>1. fixCalls'[c].at = "send" =>
            /\ \A i \in 1..Len(fixCalls'[c].work) : i < fixCalls'[c].next =>
                   fixCalls'[c].work[i] \in recorded'
            /\ \A u \in Elements(queue)' : Needs(u)' => u \in Elements(fixCalls'[c].work)
        BY <1>2
    <2> QED BY <2>1 DEF SentIsKept, Elements
<1>4. WrittenIsKept(fixCalls[c])'
    <2>1. fixCalls'[c].at = "write" =>
            /\ \A u \in Elements(queue)' : Needs(u)' =>
                   u \in Elements(Journey!Latest(fixCalls'[c].keep))
            /\ fixCalls'[c].heard = "nothing" =>
                  \A u \in fixCalls'[c].tried : Needs(u)' =>
                      u \in Elements(Journey!Latest(fixCalls'[c].keep))
        BY <1>2
    <2>2. Journey!Latest(fixCalls[c].keep)' = Journey!Latest(fixCalls'[c].keep)
        BY DEF Journey!Latest, Journey!LastOf
    <2>3. Elements(Journey!Latest(fixCalls[c].keep))' = Elements(Journey!Latest(fixCalls'[c].keep))
        BY <2>2 DEF Elements
    <2> QED BY <2>1, <2>3 DEF WrittenIsKept
<1> QED BY <1>1, <1>3, <1>4 DEF OwedIsKept

(* What a call reads is sent, unless it is no longer wanted                *)
LEMMA ReadKeeps ==
    ASSUME JourneyInv, Journey!Next, NEW c \in Callbacks, Journey!Read(c),
           NEW v \in Elements(queue), Needs(v)'
    PROVE  v \in Elements(Journey!Work(queue, fixCalls[c].own))
<1> DEFINE u == fixCalls[c].own
<1>1. fixCalls[c].at = "read" /\ taken' = taken BY DEF Journey!Read
<1>2. u \in Updates BY ReadCall DEF JourneyInv
<1>3. \A w \in Known : w.journey <= u.journey /\ w.fix <= u.fix
    BY <1>1 DEF JourneyInv, AllInOrder, OwnIsLast
<1>4. u \in Known /\ Elements(queue) \subseteq Known /\ Known \subseteq Updates
    BY <1>1, HeldIsKnown DEF JourneyInv, Held
<1> HIDE DEF u
<1>5. v \in Updates /\ Needs(v) BY <1>4, NeedsFade DEF JourneyInv
<1>6. v.journey = current BY <1>4, <1>5 DEF JourneyInv, LiveIsCurrent, Needs
<1>7. v.journey = u.journey
    <2>1. v.journey <= u.journey BY <1>3, <1>4
    <2>2. status[u.journey] # "none" BY <1>4 DEF JourneyInv, KnownTaken
    <2>3. v.journey \in Journey!Journeys /\ u.journey \in Journey!Journeys
        BY <1>2, <1>5 DEF Updates, Journey!Updates
    <2>4. current # 0 /\ ~(current < u.journey)
        BY <1>6, <2>2, <2>3 DEF JourneyInv, JourneysInTurn, Journey!Journeys
    <2> QED BY <1>6, <2>1, <2>3, <2>4 DEF Journey!Journeys
<1>8. queue \in Seq(Updates) /\ InOrder(queue) BY DEF JourneyInv, JourneyTypes, AllInOrder
<1>9. \A w \in Elements(queue) : w.journey <= u.journey /\ w.fix <= u.fix BY <1>3, <1>4
<1>10. v \notin Elements(Journey!Work(queue, u)) => v.fix + MaxPending <= u.fix
    BY <1>2, <1>7, <1>8, <1>9, WorkDisplaces
<1>11. u.fix <= taken /\ ~(taken - v.fix >= MaxPending)
    BY <1>4, <1>5 DEF JourneyInv, KnownTaken, Needs
<1>12. u.fix \in Nat /\ v.fix \in Nat /\ MaxPending \in Nat /\ taken \in Nat
    BY <1>2, <1>5, JourneyAssumption DEF Updates, Journey!Updates, Journey!Fixes, JourneyInv,
       JourneyTypes
<1> QED BY <1>10, <1>11, <1>12 DEF u

(* A callback takes nothing from storage that is still wanted.             *)
LEMMA KeptCall ==
    ASSUME JourneyInv, Journey!Next, Alone, LiveIsCurrent', NEW c \in Callbacks,
           \/ Journey!Capture(c) \/ Journey!Read(c) \/ Journey!Accepted(c) \/ Journey!AnswerLost(c)
           \/ Journey!Fails(c) \/ Journey!Write(c) \/ Journey!Return(c)
    PROVE  OwedIsKept'
<1>0. JourneyTypes /\ OwedIsKept BY DEF JourneyInv
<1>1. /\ Elements(queue) \subseteq Known /\ owed \subseteq Known /\ Known \subseteq Updates
      /\ Held(fixCalls[c]) \subseteq Known
    BY <1>0, HeldIsKnown
<1>2. \A u \in Known : Needs(u)' => Needs(u) /\ Live(u)' BY <1>0, <1>1, NeedsFade
<1>3. recorded \subseteq recorded' BY <1>0, NothingUndone
<1>4. SentIsKept(fixCalls[c]) /\ WrittenIsKept(fixCalls[c]) BY <1>0 DEF OwedIsKept
<1>5. ASSUME UNCHANGED << queue, owed >>
      PROVE  /\ \A u \in owed' : Needs(u)' => u \in Elements(queue)'
             /\ Elements(queue)' = Elements(queue)
    BY <1>0, <1>1, <1>2, <1>5 DEF OwedIsKept, Elements
<1>6. CASE Journey!Capture(c)
    <2>1. PICK u \in Updates :
              /\ fixCalls' = [fixCalls EXCEPT ![c] = [at |-> "read", own |-> u]]
              /\ UNCHANGED << queue, owed >>
        BY <1>0, <1>6, CaptureKnows
    <2> DEFINE x == [at |-> "read", own |-> u]
    <2>2. x.at = "read" OBVIOUS
    <2> HIDE DEF x
    <2> QED BY <1>0, <1>5, <2>1, <2>2, KeptOf DEF x
<1>7. CASE Journey!Read(c)
    <2> DEFINE w == Journey!Work(queue, fixCalls[c].own)
               y == [at |-> "send", next |-> 1, work |-> w,
                     other |-> Journey!Besides(fixCalls[c].own.journey, queue)]
    <2>1. fixCalls' = [fixCalls EXCEPT ![c] = y] BY <1>0, <1>7, ReadCall
    <2>2. UNCHANGED << queue, owed >> BY <1>7 DEF Journey!Read
    <2>3. \A v \in Elements(queue) : Needs(v)' => v \in Elements(w)
        BY <1>7, ReadKeeps
    <2> HIDE DEF w
    <2>4. /\ y.at = "send" /\ y.work = w
          /\ \A i \in 1..Len(y.work) : i < y.next => y.work[i] \in recorded'
        OBVIOUS
    <2> HIDE DEF y
    <2> QED BY <1>0, <1>5, <2>1, <2>2, <2>3, <2>4, KeptOf
<1>8. CASE Journey!Accepted(c)
    <2> DEFINE x == fixCalls[c]
               v == Journey!Sending(c)
    <2>1. /\ x.at = "send" /\ UNCHANGED << queue, owed >> /\ recorded' = recorded \cup {v}
        BY <1>8 DEF Journey!Accepted
    <2>2. /\ v = x.work[x.next] /\ x.next \in 1..Len(x.work) /\ Len(x.work) \in Nat
        BY <1>0, <2>1, SendingCall
    <2>3. /\ \A i \in 1..Len(x.work) : i < x.next => x.work[i] \in recorded
          /\ \A u \in Elements(queue) : Needs(u) => u \in Elements(x.work)
        BY <1>4, <2>1 DEF SentIsKept
    <2>4. PICK answer \in {"active", "over"} :
              /\ status' = [status EXCEPT ![v.journey] = answer]
              /\ \/ /\ answer = "over" \/ x.next = Len(x.work)
                    /\ fixCalls' = [fixCalls EXCEPT ![c] =
                            [at |-> "write", keep |-> x.other, heard |-> answer,
                             tried |-> Elements(x.work)]]
                 \/ /\ answer = "active" /\ x.next # Len(x.work)
                    /\ fixCalls' = [fixCalls EXCEPT ![c] =
                            [at |-> "send", next |-> x.next + 1,
                             work |-> x.work, other |-> x.other]]
        BY <1>0, <1>8, AcceptedCall
    <2>5. \A i \in 1..Len(x.work) : i <= x.next => x.work[i] \in recorded'
        <3> HIDE DEF x
        <3>1. \A i \in 1..Len(x.work) : i <= x.next => i < x.next \/ i = x.next BY <2>2
        <3> QED BY <2>1, <2>2, <2>3, <3>1
    <2>6. CASE fixCalls' = [fixCalls EXCEPT ![c] =
                            [at |-> "send", next |-> x.next + 1,
                             work |-> x.work, other |-> x.other]]
        <3> DEFINE y == [at |-> "send", next |-> x.next + 1, work |-> x.work, other |-> x.other]
        <3>1. fixCalls' = [fixCalls EXCEPT ![c] = y] BY <2>6
        <3>2. y.at = "send" /\ y.work = x.work /\ y.next = x.next + 1 OBVIOUS
        <3> HIDE DEF x, y
        <3>3. \A i \in 1..Len(y.work) : i < y.next => y.work[i] \in recorded'
            BY <2>2, <2>5, <3>2
        <3>4. \A u \in Elements(queue)' : Needs(u)' => u \in Elements(y.work)
            BY <1>1, <1>2, <1>5, <2>1, <2>3, <3>2
        <3> QED BY <1>0, <1>5, <2>1, <3>1, <3>2, <3>3, <3>4, KeptOf
    <2>7. CASE /\ answer = "over" \/ x.next = Len(x.work)
               /\ fixCalls' = [fixCalls EXCEPT ![c] =
                            [at |-> "write", keep |-> x.other, heard |-> answer,
                             tried |-> Elements(x.work)]]
        <3> DEFINE y == [at |-> "write", keep |-> x.other, heard |-> answer,
                         tried |-> Elements(x.work)]
        <3>1. fixCalls' = [fixCalls EXCEPT ![c] = y] BY <2>7
        <3>2. y.at = "write" /\ y.heard = answer OBVIOUS
        <3>3. \A u \in Elements(queue) : ~Needs(u)'
            <4>1. CASE answer = "over"
                <5>1. fixCalls'[c] = y BY <1>0, <3>1 DEF JourneyTypes
                <5>2. fixCalls'[c].at = "write" /\ fixCalls'[c].heard = "over"
                    BY <3>2, <4>1, <5>1
                <5>3. NoneLive' BY <5>2 DEF LiveIsCurrent, OverHeard
                <5>4. JourneyTypes' BY <1>0, JourneyStep
                <5>5. Elements(queue)' \subseteq Known' BY DEF Known
                <5> QED BY <1>5, <2>1, <5>3, <5>5 DEF NoneLive, Needs
            <4>2. CASE x.next = Len(x.work)
                <5> HIDE DEF x
                <5>1. \A u \in Elements(x.work) : u \in recorded'
                    BY <2>2, <2>5, <4>2 DEF Elements
                <5>2. \A u \in Elements(x.work) : ~Needs(u)' BY <5>1 DEF Needs
                <5> QED BY <1>1, <1>2, <2>3, <5>2
            <4> QED BY <2>7, <4>1, <4>2
        <3> HIDE DEF x, y
        <3> QED BY <1>0, <1>5, <2>1, <3>1, <3>2, <3>3, KeptOf
    <2> QED BY <2>4, <2>6, <2>7
<1>9. CASE Journey!AnswerLost(c) \/ Journey!Fails(c)
    <2> DEFINE x == fixCalls[c]
               k == x.other \o x.work
               y == [at |-> "write", keep |-> k, heard |-> "nothing", tried |-> Elements(x.work)]
    <2>1. /\ x.at = "send" /\ UNCHANGED << queue, owed >>
          /\ fixCalls' = [fixCalls EXCEPT ![c] = Journey!GoWrite(c, Journey!KeepAll(c), "nothing")]
        BY <1>9 DEF Journey!AnswerLost, Journey!Fails
    <2>2. fixCalls' = [fixCalls EXCEPT ![c] = y] BY <1>0, <2>1, GivesUpTyped
    <2>3. x.work \in Seq(Updates) /\ x.other \in Seq(Updates) /\ Len(x.work) <= MaxPending
        BY <1>0, <2>1, SendingCall DEF JourneyTypes, Sendable
    <2>4. \A u \in Elements(queue) : Needs(u) => u \in Elements(x.work)
        BY <1>4, <2>1 DEF SentIsKept
    <2> HIDE DEF x
    <2>5. Elements(x.work) \subseteq Elements(Journey!Latest(k)) BY <2>3, JoinedInOrder
    <2>6. y.at = "write" /\ y.keep = k /\ y.tried = Elements(x.work) OBVIOUS
    <2> HIDE DEF k, y
    <2>7. \A u \in Elements(queue) : Needs(u)' => u \in Elements(Journey!Latest(k))
        BY <1>1, <1>2, <2>4, <2>5
    <2> QED BY <1>0, <1>5, <2>1, <2>2, <2>5, <2>6, <2>7, KeptOf
<1>10. CASE Journey!Write(c)
    <2> DEFINE x == fixCalls[c]
               y == [at |-> "return", heard |-> x.heard]
    <2>1. /\ queue' = Journey!Latest(x.keep) /\ fixCalls' = [fixCalls EXCEPT ![c] = y]
          /\ owed' = IF x.heard = "nothing" THEN owed \cup x.tried ELSE owed
        BY <1>0, <1>10, WriteCall
    <2>2. x.at = "write" BY <1>10 DEF Journey!Write
    <2>3. /\ \A u \in Elements(queue) : Needs(u) => u \in Elements(Journey!Latest(x.keep))
          /\ x.heard = "nothing" =>
                \A u \in x.tried : Needs(u) => u \in Elements(Journey!Latest(x.keep))
        BY <1>4, <2>2 DEF WrittenIsKept
    <2>4. x.tried \subseteq Known BY <1>1, <2>2 DEF Held
    <2>5. \A u \in owed : Needs(u) => u \in Elements(queue) BY <1>0 DEF OwedIsKept
    <2>6. y.at = "return" OBVIOUS
    <2> HIDE DEF x, y
    <2>7. Elements(queue)' = Elements(Journey!Latest(x.keep)) BY <2>1 DEF Elements
    <2>8. \A u \in owed : Needs(u)' => u \in Elements(queue)'
        BY <1>1, <1>2, <2>3, <2>5, <2>7
    <2>9. \A u \in owed' : Needs(u)' => u \in Elements(queue)'
        BY <1>2, <2>1, <2>3, <2>4, <2>7, <2>8
    <2> QED BY <1>0, <2>1, <2>6, <2>9, KeptOf
<1>11. CASE Journey!Return(c)
    <2>1. fixCalls' = [fixCalls EXCEPT ![c] = Journey!Idle] /\ UNCHANGED << queue, owed >>
        BY <1>11 DEF Journey!Return
    <2>2. Journey!Idle.at = "idle" BY FixCallIs
    <2> QED BY <1>0, <1>5, <2>1, <2>2, KeptOf
<1> QED BY <1>6, <1>7, <1>8, <1>9, <1>10, <1>11

-----------------------------------------------------------------------------
LEMMA JourneyInvStep ==
    ASSUME Alone, JourneyInv, [Journey!Next]_(Journey!vars)
    PROVE  JourneyInv'
<1>1. CASE UNCHANGED Journey!vars
    <2>0. /\ queue' = queue /\ fixCalls' = fixCalls /\ discard' = discard /\ current' = current
          /\ status' = status /\ taken' = taken /\ recorded' = recorded /\ owed' = owed
        BY <1>1 DEF Journey!vars
    <2>1. JourneyTypes' BY JourneyStep DEF JourneyInv
    <2>2. Known' = Known BY <2>0 DEF Known, Held, Found, Elements
    <2>3. JourneysInTurn' /\ KnownTaken' /\ LiveIsCurrent'
        BY <2>0, <2>2 DEF JourneyInv, JourneysInTurn, KnownTaken, LiveIsCurrent, OverHeard,
           NoneLive, Live
    <2>4. AllInOrder'
        BY <2>0, <2>2 DEF JourneyInv, AllInOrder, OwnIsLast, SentInOrder, WrittenInOrder, InOrder,
           Apart, Elements
    <2>5. OwedIsKept'
        <3>1. \A u : Needs(u)' = Needs(u) BY <2>0 DEF Needs, Live
        <3>2. Elements(queue)' = Elements(queue) BY <2>0 DEF Elements
        <3>3. \A u \in owed' : Needs(u)' => u \in Elements(queue)'
            BY <2>0, <3>1, <3>2 DEF JourneyInv, OwedIsKept
        <3>4. ASSUME NEW c \in Callbacks PROVE SentIsKept(fixCalls[c])'
            <4>1. SentIsKept(fixCalls[c]) BY DEF JourneyInv, OwedIsKept
            <4> QED BY <2>0, <3>1, <4>1 DEF SentIsKept, Elements
        <3>5. ASSUME NEW c \in Callbacks PROVE WrittenIsKept(fixCalls[c])'
            <4>1. WrittenIsKept(fixCalls[c]) BY DEF JourneyInv, OwedIsKept
            <4>2. Elements(Journey!Latest(fixCalls[c].keep))' =
                     Elements(Journey!Latest(fixCalls[c].keep))
                BY <2>0 DEF Elements, Journey!Latest, Journey!LastOf
            <4> QED BY <2>0, <3>1, <3>2, <4>1, <4>2 DEF WrittenIsKept
        <3> QED BY <3>3, <3>4, <3>5 DEF OwedIsKept
    <2> QED BY <2>1, <2>3, <2>4, <2>5 DEF JourneyInv
<1>2. CASE Journey!Next
    <2>1. JourneyTypes' /\ JourneysInTurn' /\ KnownTaken'
        BY <1>2, JourneyStep, TurnStep, TakenStep DEF JourneyInv
    <2>2. CASE \/ \E j \in Journey!Journeys :
                     Journey!StartJourney(j) \/ Journey!EndJourney(j) \/ Journey!Expire(j)
               \/ Journey!DiscardWrite \/ Journey!Killed
        BY <1>2, <2>1, <2>2, LiveScreen, OrderScreen, KeptScreen DEF JourneyInv
    <2>3. CASE \E c \in Callbacks :
                 \/ Journey!Capture(c) \/ Journey!Read(c) \/ Journey!Accepted(c)
                 \/ Journey!AnswerLost(c) \/ Journey!Fails(c) \/ Journey!Write(c)
                 \/ Journey!Return(c)
        <3>1. PICK c \in Callbacks :
                 \/ Journey!Capture(c) \/ Journey!Read(c) \/ Journey!Accepted(c)
                 \/ Journey!AnswerLost(c) \/ Journey!Fails(c) \/ Journey!Write(c)
                 \/ Journey!Return(c)
            BY <2>3
        <3>2. LiveIsCurrent' BY <1>2, <3>1, LiveCall DEF JourneyInv
        <3>3. AllInOrder' BY <1>2, <3>1, OrderCall DEF JourneyInv
        <3>4. OwedIsKept' BY <1>2, <3>1, <3>2, KeptCall
        <3> QED BY <2>1, <3>2, <3>3, <3>4 DEF JourneyInv
    <2> QED BY <1>2, <2>2, <2>3 DEF Journey!Next
<1> QED BY <1>1, <1>2

LEMMA JourneyInvInit ==
    ASSUME SafetyInit
    PROVE  JourneyInv
<1>1. /\ queue = << >> /\ fixCalls = [c \in Callbacks |-> Journey!Idle]
      /\ discard = Journey!NoDiscard /\ current = 0
      /\ status = [j \in Journey!Journeys |-> "none"] /\ owed = {}
    BY DEF SafetyInit, Journey!Init
<1>2. JourneyTypes BY JourneyInitTyped
<1>3. \A c \in Callbacks : fixCalls[c].at = "idle" BY <1>1, FixCallIs
<1>4. discard.at = "idle" BY <1>1 DEF Journey!NoDiscard
<1>5. Len(queue) = 0 BY <1>1, EmptySeq
<1>6. Elements(queue) = {} BY <1>5 DEF Elements
<1>7. Known = {} BY <1>1, <1>3, <1>4, <1>6 DEF Known, Held, Found
<1>8. JourneysInTurn BY <1>1 DEF JourneysInTurn
<1>9. KnownTaken /\ LiveIsCurrent
    BY <1>3, <1>4, <1>7 DEF KnownTaken, LiveIsCurrent, OverHeard
<1>10. InOrder(queue) BY <1>5 DEF InOrder
<1>11. AllInOrder
    BY <1>3, <1>4, <1>10 DEF AllInOrder, OwnIsLast, SentInOrder, WrittenInOrder
<1>12. OwedIsKept BY <1>1, <1>3 DEF OwedIsKept, SentIsKept, WrittenIsKept
<1> QED BY <1>2, <1>8, <1>9, <1>11, <1>12 DEF JourneyInv

LEMMA FixesFollow == JourneyInv => FixesAreKept
<1> SUFFICES ASSUME JourneyInv PROVE FixesAreKept OBVIOUS
<1>1. queue \in Seq(Updates) BY DEF JourneyInv, JourneyTypes
<1>2. Journey!ToSet(queue) = Elements(queue) BY <1>1, JourneyElements
<1>3. Journey!NothingForgotten
    <2>1. \A u \in owed : Needs(u) => u \in Elements(queue) BY DEF JourneyInv, OwedIsKept
    <2> QED BY <1>2, <2>1 DEF Journey!NothingForgotten, Needs, Live
<1>4. Journey!QueueInOrder
    <2>1. InOrder(queue) BY DEF JourneyInv, AllInOrder
    <2> QED BY <2>1 DEF InOrder, Precedes, Journey!QueueInOrder
<1> QED BY <1>3, <1>4 DEF FixesAreKept

(* While callbacks of the phone run one at a time, what a failed call set  *)
(* out to send stays in storage, in the order taken and once, until it is  *)
(* recorded, its journey is over or MAX_PENDING later fixes have displaced *)
(* it.                                                                     *)
THEOREM FixesKept ==
    ASSUME Alone
    PROVE  SafetySpec => []FixesAreKept
<1>1. SafetyInit => JourneyInv BY JourneyInvInit
<1>2. JourneyInv /\ [SafetyNext]_<< part, phoneVars, reportVars >> => JourneyInv'
    <2> SUFFICES ASSUME JourneyInv, [SafetyNext]_<< part, phoneVars, reportVars >>
                 PROVE  JourneyInv'
        OBVIOUS
    <2>1. [Journey!Next]_(Journey!vars) BY OnlyJourneys
    <2> QED BY <2>1, JourneyInvStep
<1>3. SafetySpec => []JourneyInv BY <1>1, <1>2, PTL DEF SafetySpec
<1> QED BY <1>3, FixesFollow, PTL

-----------------------------------------------------------------------------
(* The types of every part: never more fixes in storage than MAX_PENDING,  *)
(* one socket just while the emergency screen is up, no more wrong answers *)
(* to a code than calls, a score between 0 and 100, and a decision for     *)
(* every report.                                                           *)
THEOREM SafetyTypesCorrect == SafetySpec => []SafetyTypes
<1>1. (input \in Spread!Inputs) => Spread!TypeOK
    BY EveryInputDecided DEF Spread!TypeOK, Spread!Decided
<1>2. /\ JourneyTypes /\ TypeOK /\ GuardianInv /\ OtpInv /\ StandingInv
      /\ (input \in Spread!Inputs) /\ ReviewInv
      => SafetyTypes
    BY <1>1, JourneyTyped, GuardianTyped, OtpTyped, StandingTyped, ReviewTyped DEF SafetyTypes
<1>3. SafetySpec => []TypeOK BY EmergencyShown, EmergencyTypeCorrect, PTL
<1> QED
    BY <1>2, <1>3, JourneyTypesInductive, GuardianInductive, OtpInductive, StandingInductive,
       SpreadInductive, ReviewInductive, PTL
=============================================================================
