-------------------------- MODULE ScheduledMessages --------------------------
(***************************************************************************)
(* Messages sent later on a user's behalf (internal/community/scheduled.go)*)
(* and the private messages they become (createDirect).                    *)
(*                                                                         *)
(* One author with a few jobs.  The worker holds workMu from the selection *)
(* of the due jobs to its return, so edits wait for it; but it gives up    *)
(* wherever it is when its ten seconds are over or the process stops, and  *)
(* a message already committed is then found again by its stable key.      *)
(***************************************************************************)
EXTENDS Integers, FiniteSets

CONSTANTS
    Jobs,          \* ids of scheduled_messages
    Texts,
    Channels,      \* destinations of kind "channel"
    Chats,         \* conversations with other people
    Saved,         \* the author's saved-messages conversation
    ClientKeys,    \* client_message_id of messages the author sends by hand
    MaxAttempts,   \* 5 in ProcessDue
    MaxBatch,      \* 20 in ProcessDue
    MaxEdits,      \* bound on the author's requests
    MaxStops       \* bound on interruptions of the worker

VARIABLES
    jobs,      \* scheduled_messages: status, destination, text, attempts, ready
    open,      \* destinations the author may send to now
    stored,    \* messages with an author's key: destination, key, text
    keys,      \* message_send_keys and the keys of conversation_messages
    made,      \* history: messages created for a job, per destination
    worker,    \* [at, batch, job, outcome]: where ProcessDue is
    edits, stops

vars == <<jobs, open, stored, keys, made, worker, edits, stops>>

Destinations == Channels \cup Chats \cup {Saved}
Conversation(d) == d \in Chats \cup {Saved}

NoJob == [status |-> "none"]
Idle  == [at |-> "idle", batch |-> {}, job |-> 0, outcome |-> "none"]

Pending(j) == jobs[j].status = "pending"
Editable(j) == jobs[j].status \in {"pending", "failed"}

Init ==
    /\ jobs = [j \in Jobs |-> NoJob]
    /\ open = Destinations
    /\ stored = {}
    /\ keys = {}
    /\ made = [j \in Jobs |-> [d \in Destinations |-> 0]]
    /\ worker = Idle
    /\ edits = 0
    /\ stops = 0

(* A request of the author; workMu is free. *)
Edit ==
    /\ worker = Idle
    /\ edits < MaxEdits
    /\ edits' = edits + 1

-----------------------------------------------------------------------------
(* The author's requests. *)

destination(d) == d \in open

validateSchedule(d) == destination(d)

Fresh(d, text) ==
    [status |-> "pending", destination |-> d, text |-> text, attempts |-> 0, ready |-> FALSE]

(* A repeated request with the same client_message_id returns the job it made; *)
(* here a job is identified by that key. *)
schedule(j, d, text) ==
    /\ Edit
    /\ jobs[j] = NoJob
    /\ validateSchedule(d)
    /\ jobs' = [jobs EXCEPT ![j] = Fresh(d, text)]
    /\ UNCHANGED <<open, stored, keys, made, worker, stops>>

reschedule(j, d, text) ==
    /\ Edit
    /\ Editable(j)
    /\ validateSchedule(d)
    /\ jobs' = [jobs EXCEPT ![j] = Fresh(d, text)]
    /\ UNCHANGED <<open, stored, keys, made, worker, stops>>

CancelAtOnce(j) ==
    /\ edits < MaxEdits
    /\ edits' = edits + 1
    /\ Editable(j)
    /\ jobs' = [jobs EXCEPT ![j].status = "cancelled"]
    /\ UNCHANGED <<open, stored, keys, made, worker, stops>>

cancelSchedule(j) ==
    /\ Edit
    /\ Editable(j)
    /\ jobs' = [jobs EXCEPT ![j].status = "cancelled"]
    /\ UNCHANGED <<open, stored, keys, made, worker, stops>>

-----------------------------------------------------------------------------
(* Sending. *)

KeyOfAttempt(j) == <<j, jobs[j].attempts>>

scheduleKey(j) == <<j, 0>>

(* The row of the key decides: none, insert; the same request, replay it; *)
(* another request, conflict. *)
createDirect(d, key, text) ==
    IF [destination |-> d, key |-> key] \in keys
    THEN UNCHANGED <<stored, keys>>
    ELSE /\ stored' = stored \cup {[destination |-> d, key |-> key, text |-> text]}
         /\ keys' = keys \cup {[destination |-> d, key |-> key]}

Conflict(d, key, text) ==
    /\ [destination |-> d, key |-> key] \in keys
    /\ \E m \in stored : m.destination = d /\ m.key = key /\ m.text # text

sendConversation(d, key, text) ==
    /\ edits < MaxEdits /\ edits' = edits + 1
    /\ Conversation(d) /\ destination(d)
    /\ ~Conflict(d, key, text)
    /\ createDirect(d, key, text)
    /\ UNCHANGED <<jobs, open, made, worker, stops>>

(* Deleting a saved message deletes the row that held its key; a channel *)
(* message leaves its row of message_send_keys behind. *)
deleteSaved(m) ==
    /\ edits < MaxEdits /\ edits' = edits + 1
    /\ m \in stored /\ m.destination = Saved
    /\ stored' = stored \ {m}
    /\ keys' = keys \ {[destination |-> Saved, key |-> m.key]}
    /\ UNCHANGED <<jobs, open, made, worker, stops>>

deleteMessage(m) ==
    /\ edits < MaxEdits /\ edits' = edits + 1
    /\ m \in stored /\ m.destination \in Channels
    /\ stored' = stored \ {m}
    /\ UNCHANGED <<jobs, open, keys, made, worker, stops>>

-----------------------------------------------------------------------------
(* The worker. *)

Goto(at, j, outcome) ==
    worker' = [at |-> at, batch |-> worker.batch \ {j}, job |-> j, outcome |-> outcome]

ProcessDue ==
    /\ worker = Idle
    /\ \E batch \in SUBSET {j \in Jobs : Pending(j) /\ jobs[j].ready} :
         /\ batch # {} /\ Cardinality(batch) <= MaxBatch
         /\ worker' = [Idle EXCEPT !.at = "next", !.batch = batch]
    /\ UNCHANGED <<jobs, open, stored, keys, made, edits, stops>>

Return ==
    /\ worker.at = "next" /\ worker.batch = {}
    /\ worker' = Idle
    /\ UNCHANGED <<jobs, open, stored, keys, made, edits, stops>>

DeliveredAnywhere(j) == \E d \in Destinations : [destination |-> d, key |-> scheduleKey(j)] \in keys

Delivered(j) == [destination |-> jobs[j].destination, key |-> scheduleKey(j)] \in keys

Recover(j) ==
    /\ worker.at = "next" /\ j \in worker.batch
    /\ Delivered(j)
    /\ jobs' = [jobs EXCEPT ![j].status = "sent"]
    /\ worker' = [worker EXCEPT !.batch = @ \ {j}]
    /\ UNCHANGED <<open, stored, keys, made, edits, stops>>

(* The destination is checked, then the message is committed; a failure is *)
(* permanent when the author may not send there, temporary when the database *)
(* is busy or out of space. *)
Send(j) ==
    LET d   == jobs[j].destination
        new == [destination |-> d, key |-> scheduleKey(j)] \notin keys
    IN  /\ worker.at = "next" /\ j \in worker.batch
        /\ ~Delivered(j)
        /\ \/ /\ destination(d)
              /\ createDirect(d, scheduleKey(j), jobs[j].text)
              /\ made' = [made EXCEPT ![j][d] = @ + (IF new THEN 1 ELSE 0)]
              /\ Goto("mark", j, "sent")
           \/ /\ ~destination(d)
              /\ Goto("mark", j, "failed")
              /\ UNCHANGED <<stored, keys, made>>
           \/ /\ Goto("mark", j, "retry")
              /\ UNCHANGED <<stored, keys, made>>
        /\ UNCHANGED <<jobs, open, edits, stops>>

RetryForever(j, outcome) ==
    IF outcome = "retry" THEN [jobs[j] EXCEPT !.ready = FALSE]
    ELSE [jobs[j] EXCEPT !.status = outcome, !.attempts = @ + 1]

(* A temporary failure is retried after a backoff, until the fifth. *)
Outcome(j, outcome) ==
    IF outcome = "retry" /\ jobs[j].attempts + 1 < MaxAttempts
    THEN [jobs[j] EXCEPT !.attempts = @ + 1, !.ready = FALSE]
    ELSE [jobs[j] EXCEPT !.attempts = @ + 1,
                         !.status = IF outcome = "retry" THEN "failed" ELSE outcome]

(* UPDATE ... WHERE id=? AND status='pending' *)
Mark ==
    LET j == worker.job
    IN  /\ worker.at = "mark"
        /\ jobs' = IF Pending(j) THEN [jobs EXCEPT ![j] = Outcome(j, worker.outcome)] ELSE jobs
        /\ worker' = [worker EXCEPT !.at = "next"]
        /\ UNCHANGED <<open, stored, keys, made, edits, stops>>

(* The ten seconds of Run's context are over, or the process stops: whatever *)
(* was committed stays, the rest of the batch is left pending. *)
Interrupt ==
    /\ worker # Idle
    /\ stops < MaxStops
    /\ stops' = stops + 1
    /\ worker' = Idle
    /\ UNCHANGED <<jobs, open, stored, keys, made, edits>>

(* send_at or next_attempt_at has come. *)
Due(j) ==
    /\ Pending(j) /\ ~jobs[j].ready
    /\ jobs' = [jobs EXCEPT ![j].ready = TRUE]
    /\ UNCHANGED <<open, stored, keys, made, worker, edits, stops>>

(* Blocks, opt-outs, kicks and role changes, and their reversal. *)
AccessChanges(d) ==
    /\ edits < MaxEdits /\ edits' = edits + 1
    /\ d # Saved
    /\ open' = IF d \in open THEN open \ {d} ELSE open \cup {d}
    /\ UNCHANGED <<jobs, stored, keys, made, worker, stops>>

-----------------------------------------------------------------------------
Work == ProcessDue \/ Return \/ Mark \/ \E j \in Jobs : Recover(j) \/ Send(j)

Requests ==
    \/ \E j \in Jobs : cancelSchedule(j)
    \/ \E j \in Jobs, d \in Destinations, text \in Texts : schedule(j, d, text) \/ reschedule(j, d, text)
    \/ \E d \in Destinations, key \in ClientKeys, text \in Texts : sendConversation(d, key, text)
    \/ \E m \in stored : deleteSaved(m) \/ deleteMessage(m)
    \/ \E d \in Destinations : AccessChanges(d)

Next == Work \/ Requests \/ Interrupt \/ \E j \in Jobs : Due(j)

(* Run starts ProcessDue every second and the clock goes on; requests and *)
(* interruptions owe nothing. *)
Fairness == WF_vars(Work) /\ \A j \in Jobs : WF_vars(Due(j))

Spec == Init /\ [][Next]_vars /\ Fairness

-----------------------------------------------------------------------------
(* An interrupted dispatch is not repeated: however often ProcessDue stops    *)
(* half way, fails or runs again, and however the job is edited in between, a *)
(* job puts at most one message into a channel or a conversation with others  *)
(* (the key schedule-<id> of ProcessDue and the replay of createDirect).      *)
DeliveredOnce == \A j \in Jobs, d \in Channels \cup Chats : made[j][d] <= 1

(* A job shown as sent has put its message where it was last told to, also    *)
(* when it had been delivered elsewhere before it was moved.                  *)
SentDelivered == \A j \in Jobs : jobs[j].status = "sent" => made[j][jobs[j].destination] > 0

(* A cancelled message is never sent afterwards: cancelSchedule waits for the *)
(* running dispatch, so its answer is final.                                  *)
CancelIsFinal ==
    [][\A j \in Jobs : jobs[j].status = "cancelled" => made'[j] = made[j] /\ jobs'[j] = jobs[j]]_vars

(* Every job is sent, refused or cancelled in the end, whatever temporary     *)
(* failures the database has: attempts are limited and every retry is due.    *)
EveryJobSettles == \A j \in Jobs : Pending(j) ~> ~Pending(j)

(* "Stable message keys recover interrupted dispatches without duplicate      *)
(* messages" (scheduled.go:247).                                              *)
NoDuplicates ==
    \A j \in Jobs, d \in Destinations, e \in Destinations :
      made[j][d] > 0 /\ made[j][e] > 0 => d = e /\ made[j][d] = 1
=============================================================================
