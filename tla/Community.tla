----------------------------- MODULE Community -----------------------------
(***************************************************************************)
(* The three parts of internal/community that work beside each other: the  *)
(* calls of conversations, the messages sent later and the reminders of    *)
(* events.  They share no table, so a behaviour runs one of them while the *)
(* others rest in their initial state.                                     *)
(***************************************************************************)
EXTENDS ConversationCalls

CONSTANTS
    Jobs, Texts, Channels, Chats, Saved, ClientKeys,     \* of ScheduledMessages
    MaxAttempts, MaxBatch, MaxEdits, MaxStops,
    Guests, Managers, Window, MaxTime, MaxAsks, MaxHalts \* of ServerEvents

VARIABLES part,
          jobs, open, stored, sent, made, worker, edits, stops,
          clock, readers, event, answers, reminded, notices, received, missed, asks, halts

(* Saved messages are no conversation with others, and clients choose none *)
(* of the worker's keys ("schedule-<id>" in ProcessDue).                   *)
ASSUME SchedulesAssumption ==
    /\ Saved \notin Channels \cup Chats
    /\ \A j \in Jobs : <<j, 0>> \notin ClientKeys

Schedules == INSTANCE ScheduledMessages WITH keys <- sent
schedules == <<jobs, open, stored, sent, made, worker, edits, stops>>

(* Reminders are due for a while before the start (900 s in the code).     *)
ASSUME EventsAssumption == Window \in Nat \ {0} /\ MaxTime \in Nat /\ MaxAsks \in Nat

Events == INSTANCE ServerEvents WITH
    Users <- Guests, MaxRequests <- MaxAsks, MaxStops <- MaxHalts, requests <- asks, stops <- halts
events == <<clock, readers, event, answers, reminded, notices, received, missed, asks, halts>>

CommunityInit ==
    /\ part \in {"calls", "schedules", "events"}
    /\ Init /\ Schedules!Init /\ Events!Init
    /\ part # "calls" => load = CHOOSE l \in Loads : TRUE

CommunityNext ==
    \/ part = "calls" /\ Next /\ UNCHANGED <<part, schedules, events>>
    \/ part = "schedules" /\ Schedules!Next /\ UNCHANGED <<part, vars, events>>
    \/ part = "events" /\ Events!Next /\ UNCHANGED <<part, vars, schedules>>

(* Only the worker of scheduled messages owes progress, and without a job  *)
(* it has nothing to do.                                                   *)
CommunitySpec ==
    /\ CommunityInit
    /\ [][CommunityNext]_<<part, vars, schedules, events>>
    /\ Schedules!Fairness

(* A scheduled message is delivered once, and where it says it is          *)
(* (ProcessDue, createDirect), in spite of interruptions and edits.        *)
ScheduledOnce == part = "schedules" => Schedules!DeliveredOnce /\ Schedules!SentDelivered

(* Every scheduled message is sent, refused or cancelled, and a cancelled  *)
(* one stays so (ProcessDue, cancelSchedule).                              *)
JobsSettle == Schedules!CancelIsFinal /\ Schedules!EveryJobSettles

(* Everyone who comes to an event is reminded of it, and once              *)
(* (processEventReminders, saveEvent).                                     *)
RemindersRight == part = "events" => Events!RemindedOnce /\ Events!EveryoneReminded
=============================================================================
