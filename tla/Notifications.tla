--------------------------- MODULE Notifications ---------------------------
(***************************************************************************)
(* What happens after a message has been committed: the handler records    *)
(* who follows its thread, queues it for the notification worker (or, when *)
(* the queue is full, delivers it itself), and a delivery first selects    *)
(* recipients from a read snapshot and then stores their alerts in a       *)
(* write transaction of its own. Meanwhile members read, mute, follow,     *)
(* lose access and leave, and messages are deleted. internal/notifications,*)
(* internal/readstate and internal/community/attention.go over the         *)
(* channel of ChannelMessages.                                             *)
(***************************************************************************)
EXTENDS ChannelMessages

CONSTANTS
    Named,      \* Named[c]: the users text c mentions (mentions.Parse)
    RolesNamed, \* RolesNamed[c]: the built-in roles it mentions
    QueueSize   \* the capacity of the worker's queue (1024 in the code)

VARIABLES
    reads,      \* channel_reads.last_read_message_id of each user, 0 if none
    modes,      \* channel_notification_settings, "default" without a row
    threads,    \* thread_subscriptions: <<root, user>> -> [following, explicit, read]
    alerts,     \* the channel_notifications rows [id, user, read]
    outbox,     \* created messages whose handler has yet to call the listener
    queue,      \* Service.queue
    deliveries, \* deliveries under way: [item, by, ids], ids = {} before selection
    stopping,   \* the worker's context is cancelled
    owed        \* history: <<id, user>> eligible at the commit and ever since

own == <<reads, modes, threads, alerts, outbox, queue, deliveries, stopping, owed>>
allVars == <<vars, own>>

Item(m, id) == [id |-> id, author |-> m[id].author, root |-> m[id].root,
                content |-> m[id].content, forwarded |-> m[id].forward # "none",
                replied |-> IF m[id].reply = 0 THEN {} ELSE {m[m[id].reply].author}]

defaultMode == IF load.kind = "news" THEN "all" ELSE "mentions"
Mode(u) == IF modes[u] = "default" THEN defaultMode ELSE modes[u]
Follows(u, root) == <<root, u>> \in DOMAIN threads /\ threads[<<root, u>>].following

(* Mentioned by name, by role when the author may use role mentions, or by *)
(* being answered. A forward mentions nobody.                              *)
Mentioned(u, v) ==
    /\ ~v.forwarded
    /\ \/ u \in Named[v.content] \cup v.replied
       \/ role[v.author] \in Moderators /\ role[u] \in RolesNamed[v.content]

(* The recipients the query of deliver selects. *)
Recipients(v) ==
    {u \in Users \ {v.author} :
        /\ load.kind # "voice" /\ Member(u) /\ Mode(u) # "none"
        /\ (Mode(u) = "all" /\ v.root = 0) \/ Mentioned(u, v) \/ Follows(u, v.root)}

NInit ==
    /\ Init
    /\ reads = [u \in Users |-> 0] /\ modes = [u \in Users |-> "default"]
    /\ threads = <<>> /\ alerts = {} /\ outbox = {} /\ queue = <<>>
    /\ deliveries = {} /\ stopping = FALSE /\ owed = {}

(* The debts that survive a step: the message is still there, the user is  *)
(* still a recipient of it and has not read up to it.                      *)
StillOwed(pairs) ==
    {p \in pairs : /\ p[1] \in DOMAIN messages'
                   /\ p[2] \in readable' /\ role'[p[2]] # "none"
                   /\ reads'[p[2]] < p[1]}

(* SetCreatedListener: only some workloads have the listener installed. *)
Listening == Can("notify")

(***************************************************************************)
(* A transaction on the messages: alerts and subscriptions go with their   *)
(* message, alerts also with the membership; a new message is owed to its  *)
(* recipients.                                                             *)
(***************************************************************************)
Cascade ==
    /\ alerts' = {x \in alerts : x.id \in DOMAIN messages' /\ role'[x.user] # "none"}
    /\ threads' = [p \in {q \in DOMAIN threads : q[1] \in DOMAIN messages'} |-> threads[p]]
    /\ modes' = [u \in Users |-> IF role'[u] = "none" THEN "default" ELSE modes[u]]
Channel ==
    /\ ~stopping
    /\ Next
    /\ UNCHANGED <<reads, queue, deliveries, stopping>>
    /\ Cascade
    /\ LET new == {Item(messages', i) : i \in IF Listening THEN (lastID + 1)..lastID' ELSE {}}
       IN  /\ outbox' = outbox \cup {[item |-> v, recorded |-> v.root = 0] : v \in new}
           /\ owed' = StillOwed(owed \cup UNION {{v.id} \X Recipients(v) : v \in new})

(***************************************************************************)
(* The listener of PublishMessageCreated: RecordThread, then Enqueue.      *)
(***************************************************************************)
(* The author of a comment and the author of the post follow the thread,   *)
(* unless they have said otherwise.                                        *)
RecordAlways(root, u) == [following |-> TRUE, explicit |-> FALSE, read |-> 0]
RecordFollow(root, u) ==
    IF <<root, u>> \notin DOMAIN threads THEN [following |-> TRUE, explicit |-> FALSE, read |-> 0]
    ELSE [threads[<<root, u>>] EXCEPT !.following = IF threads[<<root, u>>].explicit THEN @ ELSE TRUE]
RecordThread(o) ==
    LET root == o.item.root
        who == (IF o.item.id \in Ids THEN {o.item.author} ELSE {})
               \cup (IF root \in Ids THEN {messages[root].author} ELSE {})
        rows == {root} \X who
    IN  /\ o \in outbox /\ ~o.recorded
        /\ outbox' = (outbox \ {o}) \cup {[o EXCEPT !.recorded = TRUE]}
        /\ threads' = [p \in DOMAIN threads \cup rows |->
                          IF p \in rows THEN RecordFollow(p[1], p[2]) ELSE threads[p]]
        /\ UNCHANGED <<vars, reads, modes, alerts, queue, deliveries, stopping, owed>>

Delivery(v, by) == [item |-> v, by |-> by, ids |-> {}]

(* Saturation applies backpressure: the handler delivers by itself. *)
EnqueueOrDrop(v) ==
    /\ queue' = IF Len(queue) < QueueSize THEN Append(queue, v) ELSE queue
    /\ UNCHANGED deliveries
EnqueueOrDeliver(v) ==
    IF Len(queue) < QueueSize
    THEN queue' = Append(queue, v) /\ UNCHANGED deliveries
    ELSE deliveries' = deliveries \cup {Delivery(v, "handler")} /\ UNCHANGED queue
Enqueue(o) ==
    /\ o \in outbox /\ o.recorded
    /\ outbox' = outbox \ {o}
    /\ EnqueueOrDeliver(o.item)
    /\ UNCHANGED <<vars, reads, modes, threads, alerts, stopping, owed>>

(* Run: one message at a time. *)
Run ==
    /\ queue # <<>> /\ \A d \in deliveries : d.by # "worker"
    /\ queue' = Tail(queue)
    /\ deliveries' = deliveries \cup {Delivery(Head(queue), "worker")}
    /\ UNCHANGED <<vars, reads, modes, threads, alerts, outbox, stopping, owed>>

(***************************************************************************)
(* deliver reads the recipients; persistDeliveries checks again.           *)
(***************************************************************************)
deliver(d) ==
    LET ids == Recipients(d.item)
    IN  /\ d \in deliveries /\ d.ids = {}
        /\ deliveries' = (deliveries \ {d}) \cup
               (IF ids = {} THEN {} ELSE {[d EXCEPT !.ids = ids]})
        /\ UNCHANGED <<vars, reads, modes, threads, alerts, outbox, queue, stopping, owed>>

PersistAll(d) == d.ids
Revalidated(d) ==
    {u \in d.ids : d.item.id \in Ids /\ d.item.id > reads[u] /\ Member(u)}
persistDeliveries(d) ==
    /\ d \in deliveries /\ d.ids # {}
    /\ deliveries' = deliveries \ {d}
    /\ alerts' = alerts \cup {[id |-> d.item.id, user |-> u, read |-> FALSE] : u \in Revalidated(d)}
    /\ owed' = {p \in owed : p[1] # d.item.id \/ p[2] \notin Revalidated(d)}
    /\ UNCHANGED <<vars, reads, modes, threads, outbox, queue, stopping>>

(* Shutdown: requests have ended; the worker drains the queue, and gives   *)
(* what is left up when its five seconds are over.                         *)
Stop ==
    /\ Can("stop") /\ ~stopping /\ outbox = {} /\ \A d \in deliveries : d.by = "worker"
    /\ stopping' = TRUE
    /\ UNCHANGED <<vars, reads, modes, threads, alerts, outbox, queue, deliveries, owed>>
GiveUp ==
    /\ stopping /\ queue # <<>>
    /\ queue' = <<>> /\ deliveries' = {} /\ owed' = {}
    /\ UNCHANGED <<vars, reads, modes, threads, alerts, outbox, stopping>>

(***************************************************************************)
(* What members do.                                                        *)
(***************************************************************************)
(* readstate.Mark: an existing message, and only forward; the trigger on   *)
(* channel_reads clears the alerts up to it.                               *)
MarkRow(u, id) == IF id > reads[u] THEN id ELSE reads[u]
Mark(u, id) ==
    /\ Can("mark") /\ ~stopping /\ Member(u) /\ id \in Ids
    /\ reads' = [reads EXCEPT ![u] = MarkRow(u, id)]
    /\ alerts' = {x \in alerts : x.user = u => x.id > reads'[u]}
    /\ owed' = {p \in owed : p[2] = u => p[1] > reads'[u]}
    /\ UNCHANGED <<vars, modes, threads, outbox, queue, deliveries, stopping>>

(* notifications.Set *)
Set(u, m) ==
    /\ Can("mode") /\ ~stopping /\ Member(u) /\ load.kind # "voice"
    /\ modes' = [modes EXCEPT ![u] = m]
    /\ owed' = {p \in owed : p[2] # u}
    /\ UNCHANGED <<vars, reads, threads, alerts, outbox, queue, deliveries, stopping>>

(* setThread: following is left out by a client that only marks the thread read. *)
checkThread(u, root) == Member(u) /\ root \in Ids /\ messages[root].root = 0 /\ load.kind # "voice"
setThread(u, root, following, read) ==
    LET p == <<root, u>>
        old == IF p \in DOMAIN threads THEN threads[p] ELSE [following |-> FALSE, explicit |-> FALSE, read |-> 0]
    IN  /\ Can("thread") /\ ~stopping /\ checkThread(u, root)
        /\ read = 0 \/ \E i \in Comments(root) : i >= read
        /\ threads' = [q \in DOMAIN threads \cup {p} |-> IF q # p THEN threads[q] ELSE
               [following |-> IF following = {} THEN old.following ELSE TRUE \in following,
                explicit |-> old.explicit \/ following # {},
                read |-> IF read > old.read THEN read ELSE old.read]]
        /\ owed' = {d \in owed : d[2] # u}
        /\ UNCHANGED <<vars, reads, modes, alerts, outbox, queue, deliveries, stopping>>

(* readInbox *)
readInbox(u, id) ==
    /\ Can("mark") /\ ~stopping
    /\ alerts' = {IF x.user = u /\ x.id = id THEN [x EXCEPT !.read = TRUE] ELSE x : x \in alerts}
    /\ threads' = [p \in DOMAIN threads |->
           IF id \in Ids /\ p = <<messages[id].root, u>> /\ threads[p].read < id
           THEN [threads[p] EXCEPT !.read = id] ELSE threads[p]]
    /\ owed' = {p \in owed : p # <<id, u>>}
    /\ UNCHANGED <<vars, reads, modes, outbox, queue, deliveries, stopping>>

(* The alerts Counts counts, and the messages inbox lists. *)
Counted(u) == {x.id : x \in {y \in alerts : y.user = u /\ ~y.read /\ y.id > reads[u]}}
inbox(u) ==
    {i \in Ids : /\ Member(u) /\ messages[i].author # u
                 /\ \/ \E x \in alerts : x.user = u /\ x.id = i /\ ~x.read
                    \/ Follows(u, messages[i].root) /\ i > threads[<<messages[i].root, u>>].read}

NNext ==
    \/ Channel
    \/ \E o \in outbox : RecordThread(o) \/ Enqueue(o)
    \/ \E d \in deliveries : deliver(d) \/ persistDeliveries(d)
    \/ Run \/ Stop \/ GiveUp
    \/ \E u \in Users, i \in Ids : Mark(u, i) \/ readInbox(u, i)
    \/ \E u \in Users, m \in {"all", "mentions", "none"} : Set(u, m)
    \/ \E u \in Users, i \in Ids, f \in {{}, {TRUE}, {FALSE}}, r \in 0..lastID : setThread(u, i, f, r)

NSpec == NInit /\ [][NNext]_allVars

(***************************************************************************)
(* No alert outlives its reason: its message exists, its user is a member  *)
(* and has not read that far. A delivery selects from a snapshot, so the   *)
(* reading, the deletion and the departure may all fall between its two    *)
(* transactions. And what a member's badge counts the inbox can show.      *)
(***************************************************************************)
AlertsUnread ==
    /\ \A x \in alerts : x.id \in Ids /\ role[x.user] # "none" /\ reads[x.user] < x.id
    /\ \A u \in readable : Counted(u) \subseteq inbox(u)

(***************************************************************************)
(* No alert is lost: what a member has been owed since the commit, and     *)
(* still is, is stored or on its way, however full the queue was. Giving   *)
(* up at shutdown is the one exception.                                    *)
(***************************************************************************)
AlertsOnTheirWay ==
    \A p \in owed :
        \/ \E o \in outbox : o.item.id = p[1]
        \/ \E i \in DOMAIN queue : queue[i].id = p[1]
        \/ \E d \in deliveries : d.item.id = p[1] /\ (d.ids = {} \/ p[2] \in d.ids)

(* An explicit opt-out of a thread is only undone explicitly: no comment,  *)
(* whoever writes it and whenever its handler records it, re-enables it.   *)
OptOutKept ==
    [][\A p \in DOMAIN threads \cap DOMAIN threads' :
         threads[p].explicit /\ ~threads[p].following /\ threads'[p].following
            => Can("thread") /\ outbox' = outbox]_allVars

=============================================================================
