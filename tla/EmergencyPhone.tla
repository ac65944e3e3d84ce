--------------------------- MODULE EmergencyPhone ---------------------------
(***************************************************************************)
(* What the phone shows of an alert: the effects and buttons of Home and   *)
(* ActiveEmergency, the store's activeSession and the websocket of         *)
(* websocket.ts, against the alerts at the server.                         *)
(*                                                                         *)
(* activeSession decides the screen.  With none the phone is on Home,      *)
(* which asks the server once for an active session and may start one; so  *)
(* it is with one of Level 1, which Home's safety check starts.  With any  *)
(* other it is on the emergency screen, which joins the session's room and *)
(* polls while the connection is degraded.  Every request is answered      *)
(* later, and by then the screen may show something else: effects drop     *)
(* such an answer (their 'active' and 'mounted' flags), the buttons do     *)
(* not.                                                                    *)
(*                                                                         *)
(* An alert and its session share one identity, and the server's side is   *)
(* the abstract one of AlertBook: an alert opens once and ends once.  Of   *)
(* its stage only is kept whether it is quiet: 'monitoring', Level 1.      *)
(* Escalating is left out: it is a button of the emergency screen, which   *)
(* no quiet alert reaches.                                                 *)
(***************************************************************************)
EXTENDS Naturals

CONSTANTS Alerts,   \* the alerts the user may have, in the order of their ids
          None,     \* no alert
          MaxFaults \* bound on lost messages, interruptions and restarts together

ASSUME AlertsAssumption == None \notin Alerts
ASSUME FaultsAssumption == MaxFaults \in Nat

VARIABLES alert,      \* the server's rows: "none", "active" or "over"
          quiet,      \* the alerts opened at Level 1
          shown,      \* activeSession in the store
          due,        \* Home has still to run syncSession
          request,    \* the requests under way, one of each kind
          link,       \* the phone's end of the socket
          room,       \* the server has the socket in the room of the session
          news,       \* a 'session:status' with an ended status is on its way
          degraded,   \* socketDegraded
          dismissed,  \* history: alerts that were over when the screen let go of them
          lost,       \* the requests and answers lost so far
          drops       \* the interruptions and restarts so far

server == << alert, quiet >>
screen == << shown, due, dismissed >>
socket == << link, room, news, degraded >>
vars == << alert, quiet, shown, due, request, link, room, news, degraded, dismissed, lost, drops >>

-----------------------------------------------------------------------------
(* press: the SOS button; safety: the private safety check; check:         *)
(* runGuardianCheck; sync: syncSession of Home; cancel: handleCancel;      *)
(* poll: pollSession.                                                      *)
Kinds == {"press", "safety", "check", "sync", "cancel", "poll"}

NoRequest == [at |-> "idle", id |-> None, heeded |-> FALSE]
Sent(id) == [at |-> "sent", id |-> id, heeded |-> TRUE]

Active == {a \in Alerts : alert[a] = "active"}
Unused == {a \in Alerts : alert[a] = "none"}

(* ScreenRouter: the session on show leaves the phone on Home.             *)
OnHome == shown = None \/ shown \in quiet

Init ==
    /\ alert = [a \in Alerts |-> "none"] /\ quiet = {}
    /\ shown = None /\ due = TRUE /\ dismissed = {}
    /\ request = [k \in Kinds |-> NoRequest]
    /\ link = "off" /\ room = FALSE /\ news = FALSE /\ degraded = FALSE
    /\ lost = 0 /\ drops = 0

(* The cleanups of the effects of the kinds ks: answers still under way    *)
(* will not be heeded.  The request of kind k itself is done.              *)
Done(k, ks) ==
    request' = [j \in Kinds |->
        IF j = k THEN NoRequest
        ELSE IF j \in ks THEN [request[j] EXCEPT !.heeded = FALSE]
        ELSE request[j]]

(* connectSessionSocket for a session the emergency screen turns to, and   *)
(* disconnectSessionSocket as it goes.                                     *)
OpenSocket == link' = "opening" /\ room' = FALSE /\ news' = FALSE /\ UNCHANGED degraded
CloseSocket == link' = "off" /\ room' = FALSE /\ news' = FALSE /\ degraded' = FALSE

(* setActiveSession(a), upon the answer of kind k: it mounts the emergency *)
(* screen unless a is quiet; the session already shown changes nothing.    *)
Show(k, a) ==
    /\ shown' = a
    /\ IF a = shown
         THEN Done(k, {}) /\ UNCHANGED << link, room, news, degraded >>
         ELSE /\ Done(k, {"check", "sync", "poll"})
              /\ IF a \in quiet THEN CloseSocket ELSE OpenSocket
    /\ due' = FALSE
    /\ UNCHANGED dismissed

(* Fault: the emergency screen goes without disconnectSessionSocket.       *)
ClearKeepsSocket(k) ==
    /\ shown' = None
    /\ due' = (due \/ shown # None)
    /\ UNCHANGED << link, room, news, degraded >>
    /\ Done(k, {"poll"})
    /\ dismissed' = dismissed \cup {a \in {shown} \cap Alerts : alert[a] = "over"}

(* clearEmergencySession, upon the answer of kind k: the emergency screen  *)
(* goes with its socket, and Home, mounted anew or without its session,    *)
(* runs syncSession.                                                       *)
Clear(k) ==
    /\ shown' = None
    /\ due' = (due \/ shown # None)
    /\ CloseSocket
    /\ Done(k, {"poll"})
    /\ dismissed' = dismissed \cup {a \in {shown} \cap Alerts : alert[a] = "over"}

-----------------------------------------------------------------------------
(* The phone sends a request. *)

Send(k, id) ==
    /\ request' = [request EXCEPT ![k] = Sent(id)]
    /\ UNCHANGED << server, shown, dismissed, socket, lost, drops >>

(* handleStartEmergency with 'high_alert' or with 'monitoring'; the        *)
(* buttons are disabled while either is loading, not while an alert is on. *)
Loading == request["press"].at # "idle" \/ request["safety"].at # "idle"

PressSos == OnHome /\ ~Loading /\ Send("press", None) /\ UNCHANGED due

PressSafetyCheck == OnHome /\ ~Loading /\ Send("safety", None) /\ UNCHANGED due

(* runGuardianCheck finds a risk and creates a passive alert.              *)
GuardianCheck ==
    shown = None /\ request["check"].at = "idle" /\ Send("check", None) /\ UNCHANGED due

(* A new fix re-runs the effect: the check under way is not heeded.        *)
NewFix ==
    /\ shown = None /\ request["check"].heeded
    /\ request' = [request EXCEPT !["check"].heeded = FALSE]
    /\ UNCHANGED << server, screen, socket, lost, drops >>

(* syncSession, when Home is mounted or loses its session; an older one    *)
(* under way is no longer heeded.                                          *)
SyncSession ==
    shown = None /\ due /\ due' = FALSE /\ Send("sync", None)

PressCancel ==
    ~OnHome /\ request["cancel"].at = "idle" /\ Send("cancel", shown) /\ UNCHANGED due

(* pollSession, at once and every 8 s while socketDegraded.                *)
PollSession ==
    /\ ~OnHome /\ degraded /\ request["poll"].at = "idle"
    /\ Send("poll", None) /\ UNCHANGED due

-----------------------------------------------------------------------------
(* The server. *)

(* An emission reaches the phone if its socket is in the room; the message *)
(* for another session is not heeded.                                      *)
End(a) ==
    /\ alert' = [alert EXCEPT ![a] = "over"]
    /\ news' = (news \/ (room /\ shown = a))

(* AlertsService.create returns the alert that is active, if there is one, *)
(* as it is.                                                               *)
ServeCreate(k) ==
    /\ k \in {"press", "safety", "check"} /\ request[k].at = "sent"
    /\ \E a \in IF Active = {} THEN Unused ELSE Active :
        /\ alert' = [alert EXCEPT ![a] = "active"]
        /\ quiet' = IF Active = {} /\ k = "safety" THEN quiet \cup {a} ELSE quiet
        /\ request' = [request EXCEPT ![k].at = "answered", ![k].id = a]
    /\ UNCHANGED << screen, link, room, news, degraded, lost, drops >>

(* SessionsService.getActive.                                              *)
ServeGetActive(k) ==
    /\ k \in {"sync", "poll"} /\ request[k].at = "sent"
    /\ \E a \in IF Active = {} THEN {None} ELSE Active :
        request' = [request EXCEPT ![k].at = "answered", ![k].id = a]
    /\ UNCHANGED << server, screen, socket, lost, drops >>

(* AlertsService.cancel: 404 unless the alert is active.                   *)
ServeCancel ==
    /\ request["cancel"].at = "sent"
    /\ LET a == request["cancel"].id IN
       IF alert[a] = "active"
         THEN End(a) /\ request' = [request EXCEPT !["cancel"].at = "answered"]
         ELSE request' = [request EXCEPT !["cancel"].at = "failed"] /\ UNCHANGED << alert, news >>
    /\ UNCHANGED << quiet, screen, link, room, degraded, lost, drops >>

(* The user's other device opens or ends an alert.                         *)
OpenElsewhere(a) ==
    /\ Active = {} /\ a \in Unused
    /\ alert' = [alert EXCEPT ![a] = "active"]
    /\ quiet' \in {quiet, quiet \cup {a}}
    /\ UNCHANGED << screen, request, socket, lost, drops >>

EndElsewhere(a) ==
    /\ a \in Active
    /\ End(a)
    /\ UNCHANGED << quiet, screen, request, link, room, degraded, lost, drops >>

(* A request does not arrive, or its answer does not.                      *)
Lose(k) ==
    /\ lost + drops < MaxFaults /\ request[k].at \in {"sent", "answered"}
    /\ request' = [request EXCEPT ![k].at = "failed"]
    /\ lost' = lost + 1
    /\ UNCHANGED << server, screen, socket, drops >>

-----------------------------------------------------------------------------
(* The phone hears an answer. *)

Answered(k) == request[k].at = "answered"

(* setActiveSession, whatever the phone shows by now.                      *)
PressAnswer ==
    /\ Answered("press")
    /\ Show("press", request["press"].id)
    /\ UNCHANGED << server, lost, drops >>

SafetyAnswer ==
    /\ Answered("safety")
    /\ Show("safety", request["safety"].id)
    /\ UNCHANGED << server, lost, drops >>

CheckAnswer ==
    /\ Answered("check") /\ request["check"].heeded
    /\ Show("check", request["check"].id)
    /\ UNCHANGED << server, lost, drops >>

(* Fault: the effect does not look at its 'active' flag.                   *)
SyncAnswerUnguarded ==
    /\ Answered("sync") /\ request["sync"].id # None
    /\ Show("sync", request["sync"].id)
    /\ UNCHANGED << server, lost, drops >>

SyncAnswer ==
    /\ Answered("sync") /\ request["sync"].heeded /\ request["sync"].id # None
    /\ Show("sync", request["sync"].id)
    /\ UNCHANGED << server, lost, drops >>

(* handleCancel clears whichever session is shown by now.                  *)
CancelAnswer ==
    /\ Answered("cancel")
    /\ Clear("cancel")
    /\ UNCHANGED << server, lost, drops >>

(* No active session clears the screen; another one is merged into it.     *)
PollAnswer ==
    /\ Answered("poll") /\ request["poll"].heeded
    /\ IF request["poll"].id = None THEN Clear("poll") ELSE Show("poll", request["poll"].id)
    /\ UNCHANGED << server, lost, drops >>

(* An error, or an answer that is not heeded or says nothing.              *)
Drop(k) ==
    /\ \/ request[k].at = "failed"
       \/ Answered(k) /\ ~request[k].heeded /\ k \in {"check", "sync", "poll"}
       \/ Answered(k) /\ k = "sync" /\ request[k].id = None
    /\ Done(k, {})
    /\ UNCHANGED << server, screen, socket, lost, drops >>

-----------------------------------------------------------------------------
(* The socket of the emergency screen.  'join' is emitted once, when the   *)
(* socket is made, and is sent when it first connects; a socket that       *)
(* connects again is a new one to the server, in no room.                  *)

Connect ==
    /\ link = "opening"
    /\ link' = "joining" /\ degraded' = FALSE
    /\ UNCHANGED << server, screen, request, room, news, lost, drops >>

(* handleJoin: the session is the user's.  No status is sent in answer.    *)
Join ==
    /\ link = "joining"
    /\ link' = "up" /\ room' = TRUE
    /\ UNCHANGED << server, screen, request, news, degraded, lost, drops >>

Reconnect ==
    /\ link = "down"
    /\ link' = "up" /\ degraded' = FALSE
    /\ UNCHANGED << server, screen, request, room, news, lost, drops >>

(* The connection breaks, and with it what is under way on it.             *)
Disconnect ==
    /\ lost + drops < MaxFaults /\ link \in {"joining", "up"}
    /\ link' = "down" /\ room' = FALSE /\ news' = FALSE /\ degraded' = TRUE
    /\ drops' = drops + 1
    /\ UNCHANGED << server, screen, request, lost >>

(* An attempt fails; after the fifth the socket gives up.                  *)
ConnectError ==
    /\ link \in {"opening", "down"}
    /\ degraded' = TRUE
    /\ link' \in {link, "gone"}
    /\ UNCHANGED << server, screen, request, room, news, lost, drops >>

(* onStatus with a status other than 'active'.                             *)
HearStatus ==
    /\ news
    /\ Clear("none")
    /\ UNCHANGED << server, lost, drops >>

(* The application is killed and started again; activeSession is not among *)
(* what is persisted.                                                      *)
Restart ==
    /\ shown # None
    /\ lost + drops < MaxFaults /\ drops' = drops + 1
    /\ shown' = None /\ due' = TRUE
    /\ request' = [k \in Kinds |-> NoRequest]
    /\ CloseSocket
    /\ UNCHANGED << server, dismissed, lost >>

-----------------------------------------------------------------------------
Sends == PressSos \/ PressSafetyCheck \/ GuardianCheck \/ NewFix \/ SyncSession \/ PressCancel \/ PollSession
Serves(k) == ServeCreate(k) \/ ServeGetActive(k) \/ (k = "cancel" /\ ServeCancel)
Answers == PressAnswer \/ SafetyAnswer \/ CheckAnswer \/ SyncAnswer \/ CancelAnswer \/ PollAnswer
Elsewhere == \E a \in Alerts : OpenElsewhere(a) \/ EndElsewhere(a)
Link == Connect \/ Join \/ Reconnect \/ Disconnect \/ ConnectError \/ HearStatus

Next ==
    \/ Sends
    \/ \E k \in Kinds : Serves(k) \/ Lose(k) \/ Drop(k)
    \/ Answers
    \/ Elsewhere
    \/ Link
    \/ Restart

Spec == Init /\ [][Next]_vars

(* What the application and the server do of themselves: effects run,      *)
(* requests are served, answers and messages heard, and the socket tries   *)
(* to connect.  Nobody has to press a button, and nothing has to go wrong. *)
Fairness ==
    /\ WF_vars(SyncSession) /\ WF_vars(PollSession)
    /\ \A k \in Kinds : WF_vars(Serves(k)) /\ WF_vars(Drop(k))
    /\ WF_vars(PressAnswer) /\ WF_vars(SafetyAnswer) /\ WF_vars(CheckAnswer)
    /\ WF_vars(SyncAnswer) /\ WF_vars(CancelAnswer) /\ WF_vars(PollAnswer)
    /\ WF_vars(Connect) /\ WF_vars(Join) /\ WF_vars(HearStatus)

FairSpec == Spec /\ Fairness

-----------------------------------------------------------------------------
(* The types; and there is a socket just while the emergency screen is up. *)
TypeOK ==
    /\ alert \in [Alerts -> {"none", "active", "over"}] /\ quiet \subseteq Alerts
    /\ shown \in Alerts \cup {None} /\ (OnHome <=> link = "off")
    /\ due \in BOOLEAN /\ room \in BOOLEAN /\ news \in BOOLEAN /\ degraded \in BOOLEAN
    /\ request \in [Kinds -> [at : {"idle", "sent", "answered", "failed"},
                              id : Alerts \cup {None}, heeded : BOOLEAN]]
    /\ link \in {"off", "opening", "joining", "up", "down", "gone"}
    /\ dismissed \subseteq Alerts
    /\ lost \in Nat /\ drops \in Nat /\ lost + drops <= MaxFaults

(* The room the server keeps the socket in and the messages under way are  *)
(* those of the alert on the screen: a screen that has turned to another   *)
(* alert, or to Home, hears nothing of the last one.                       *)
RoomFollowsScreen ==
    /\ room => link = "up" /\ ~OnHome
    /\ news => room /\ alert[shown] = "over"

(* An answer to syncSession or pollSession never brings back an alert the  *)
(* screen let go of when it was over, however late the answer comes.       *)
ReadsNeverResurrect ==
    [][SyncAnswer \/ PollAnswer => shown' = shown \/ shown' \notin dismissed]_vars

(* So the emergency screen hears of the alert it shows and of no other.    *)
ScreenHearsItsAlert == []RoomFollowsScreen /\ ReadsNeverResurrect

(* "Press and hold to notify your emergency network." says Home of the SOS *)
(* button (Home.tsx:623), and the server that the control "explicitly      *)
(* sends Level 4": an SOS that is answered leaves no private safety check  *)
(* on show.                                                                *)
SosIsHeeded == [][PressAnswer => shown' \notin quiet]_vars

(* While the socket has given up for good, an ended alert leaves the       *)
(* screen: "Sentinel will keep retrying", by polling every 8 s.            *)
DegradedScreenIsPolled ==
    \A a \in Alerts :
        (shown = a /\ alert[a] = "over" /\ link = "gone") ~> (shown # a)

(* A session that has been shown and is still active is never forgotten    *)
(* for good, though a restart forgets it and the late answer of a          *)
(* cancellation clears whatever is shown: the emergency screen returns,    *)
(* unless a request is lost, for Home asks once for the active session.    *)
ActiveSessionComesBack ==
    \A a \in Alerts :
        [](shown = a => []<>(shown # None \/ alert[a] = "over" \/ lost > 0))

(* An alert that is over leaves the screen: "Sentinel will keep trying to  *)
(* update your state", as the emergency screen says of a degraded sync.    *)
EndedAlertLeavesScreen ==
    \A a \in Alerts : (shown = a /\ alert[a] = "over") ~> (shown # a)
=============================================================================
