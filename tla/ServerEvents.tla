---------------------------- MODULE ServerEvents ----------------------------
(***************************************************************************)
(* A server's calendar event, the answers to it and the reminders before   *)
(* it starts (internal/community/events.go).                               *)
(*                                                                         *)
(* processEventReminders selects the reminders that are due in one query   *)
(* and then marks and sends them one by one, without a transaction and     *)
(* without workMu: requests interleave with it.  The worker runs every     *)
(* second and a reminder is due for fifteen minutes, so the clock of this  *)
(* model does not pass a reminder that is due while the worker can run.    *)
(***************************************************************************)
EXTENDS Integers, FiniteSets

CONSTANTS
    Users,
    Managers,     \* owners and administrators
    Window,       \* how long before the start reminders are due (900 s)
    MaxTime,      \* bound on the clock
    MaxRequests,  \* bound on requests
    MaxStops      \* bound on interruptions of the worker

VARIABLES
    clock,
    readers,    \* members whose permissions let them read the server
    event,      \* server_events: creator, starts_at, cancelled, revision
    answers,    \* server_event_responses.response
    reminded,   \* users with reminded=1
    notices,    \* selected reminders not yet sent: [user, revision, marked]
    received,   \* history: reminders received, per user and revision
    missed,     \* history: users whose reminder was interrupted or overtaken,
                \* or whose access changed
    requests, stops

vars == <<clock, readers, event, answers, reminded, notices, received, missed, requests, stops>>

NoEvent == [creator |-> "none", starts |-> 0, cancelled |-> FALSE, revision |-> 0]

Init ==
    /\ clock = 0
    /\ readers = Users
    /\ event = NoEvent
    /\ answers = [u \in Users |-> "none"]
    /\ reminded = {}
    /\ notices = {}
    /\ received = [u \in Users |-> [r \in 0..MaxRequests |-> 0]]
    /\ missed = {}
    /\ requests = 0
    /\ stops = 0

Request == requests < MaxRequests /\ requests' = requests + 1

serverMember(u) == u \in readers

eventManage(u) ==
    /\ serverMember(u)
    /\ event # NoEvent
    /\ event.creator = u \/ u \in Managers

Overtaken == {n.user : n \in notices}

-----------------------------------------------------------------------------
SaveSilently(u, starts) ==
    /\ Request
    /\ starts > clock
    /\ IF event = NoEvent
       THEN /\ serverMember(u)
            /\ event' = [creator |-> u, starts |-> starts, cancelled |-> FALSE, revision |-> 0]
       ELSE /\ eventManage(u) /\ ~event.cancelled
            /\ event' = [event EXCEPT !.starts = starts, !.revision = @ + 1]
    /\ missed' = missed \cup Overtaken
    /\ UNCHANGED <<clock, readers, answers, reminded, notices, received, stops>>

(* Moving an event makes everybody due for a reminder again. *)
saveEvent(u, starts) ==
    /\ Request
    /\ starts > clock
    /\ IF event = NoEvent
       THEN /\ serverMember(u)
            /\ event' = [creator |-> u, starts |-> starts, cancelled |-> FALSE, revision |-> 0]
            /\ UNCHANGED reminded
       ELSE /\ eventManage(u) /\ ~event.cancelled
            /\ event' = [event EXCEPT !.starts = starts, !.revision = @ + 1]
            /\ reminded' = {}
    /\ missed' = missed \cup Overtaken
    /\ UNCHANGED <<clock, readers, answers, notices, received, stops>>

cancelEvent(u) ==
    /\ Request
    /\ eventManage(u)
    /\ event' = [event EXCEPT !.cancelled = TRUE, !.revision = @ + 1]
    /\ UNCHANGED <<clock, readers, answers, reminded, notices, received, missed, stops>>

(* The upsert keeps reminded; deleting an answer deletes it too. *)
eventResponse(u, answer) ==
    /\ Request
    /\ serverMember(u)
    /\ event # NoEvent /\ ~event.cancelled /\ event.starts > clock
    /\ answers' = [answers EXCEPT ![u] = answer]
    /\ reminded' = IF answer = "none" THEN reminded \ {u} ELSE reminded
    /\ received' = IF answer = "none" THEN [received EXCEPT ![u] = [r \in 0..MaxRequests |-> 0]]
                                      ELSE received
    /\ missed' = missed \cup (Overtaken \cap {u})
    /\ UNCHANGED <<clock, readers, event, notices, stops>>

PermissionChanges(u) ==
    /\ Request
    /\ readers' = IF u \in readers THEN readers \ {u} ELSE readers \cup {u}
    /\ missed' = missed \cup {u}
    /\ UNCHANGED <<clock, event, answers, reminded, notices, received, stops>>

-----------------------------------------------------------------------------
Due(u) ==
    /\ event # NoEvent /\ ~event.cancelled
    /\ event.starts > clock /\ event.starts <= clock + Window
    /\ answers[u] # "none" /\ u \in readers /\ u \notin reminded

processEventReminders ==
    /\ notices = {}
    /\ \E u \in Users : Due(u)
    /\ notices' = {[user |-> u, revision |-> event.revision, marked |-> FALSE] : u \in {v \in Users : Due(v)}}
    /\ UNCHANGED <<clock, readers, event, answers, reminded, received, missed, requests, stops>>

MarkNothing(n) ==
    /\ n \in notices /\ ~n.marked
    /\ notices' = (notices \ {n}) \cup {[n EXCEPT !.marked = TRUE]}
    /\ UNCHANGED <<clock, readers, event, answers, reminded, received, missed, requests, stops>>

(* UPDATE ... SET reminded=1 WHERE event_id=? AND user_id=?, then the event. *)
MarkReminded(n) ==
    /\ n \in notices /\ ~n.marked
    /\ \A o \in notices : ~o.marked
    /\ reminded' = IF answers[n.user] = "none" THEN reminded ELSE reminded \cup {n.user}
    /\ notices' = (notices \ {n}) \cup {[n EXCEPT !.marked = TRUE]}
    /\ UNCHANGED <<clock, readers, event, answers, received, missed, requests, stops>>

SendReminder(n) ==
    /\ n \in notices /\ n.marked
    /\ received' = [received EXCEPT ![n.user][n.revision] = @ + 1]
    /\ notices' = notices \ {n}
    /\ UNCHANGED <<clock, readers, event, answers, reminded, missed, requests, stops>>

(* The context of ProcessDue ends or the process stops. *)
Interrupt ==
    /\ notices # {} /\ stops < MaxStops
    /\ stops' = stops + 1
    /\ notices' = {}
    /\ missed' = missed \cup {n.user : n \in {o \in notices : o.marked}}
    /\ UNCHANGED <<clock, readers, event, answers, reminded, received, requests>>

Tick ==
    /\ clock < MaxTime
    /\ notices = {} /\ \A u \in Users : ~Due(u)
    /\ clock' = clock + 1
    /\ UNCHANGED <<readers, event, answers, reminded, notices, received, missed, requests, stops>>

Next ==
    \/ \E u \in Users :
         \/ \E starts \in 1..MaxTime : saveEvent(u, starts)
         \/ cancelEvent(u)
         \/ \E answer \in {"going", "maybe", "none"} : eventResponse(u, answer)
         \/ PermissionChanges(u)
    \/ processEventReminders
    \/ \E n \in notices : MarkReminded(n) \/ SendReminder(n)
    \/ Interrupt
    \/ Tick

Spec == Init /\ [][Next]_vars

-----------------------------------------------------------------------------
(* A reminder is never repeated: for one saved state of the event a user is   *)
(* reminded at most once while their answer stands, across interrupted and    *)
(* repeated runs of the worker, because reminded=1 is written first.          *)
RemindedOnce ==
    \A u \in Users \ missed, r \in 0..MaxRequests : received[u][r] <= 1

(* "a reminder 15 minutes before the start" (docs/community-features.md:190): *)
(* when an event starts, everyone who said they would come and may read the   *)
(* server has been reminded since it was last moved, unless the worker was    *)
(* interrupted over their reminder, the event was moved under it, or they     *)
(* lost or regained access meanwhile.                                         *)
EveryoneReminded ==
    event # NoEvent /\ ~event.cancelled /\ clock >= event.starts =>
      \A u \in readers \ missed : answers[u] # "none" => received[u][event.revision] > 0

(* The same without the exception for an event moved while reminders were     *)
(* being sent.                                                                *)
MovedEventReminds ==
    event # NoEvent /\ ~event.cancelled /\ clock >= event.starts /\ stops = 0 =>
      \A u \in readers : answers[u] # "none" /\ u \in reminded => received[u][event.revision] > 0
=============================================================================
