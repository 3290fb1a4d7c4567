---------------------------- MODULE OutgoingQueue ----------------------------
(***************************************************************************)
(* The bounded two-lane event queue of one WebSocket connection            *)
(* (realtime.Client: src/internal/realtime/client.go, outgoing.go and      *)
(* channel_access.go) between the goroutines that publish to it and the    *)
(* connection's writer (src/internal/realtime/http/handler.go).            *)
(*                                                                         *)
(* voice.* and stream.* events go to the priority lane, the rest to the    *)
(* ordinary one.  A full ordinary lane first gives up an alert, then       *)
(* compacts the chat changes of a channel into one catch-up marker, and    *)
(* rejects the event only when neither frees a slot; a publisher that is   *)
(* rejected unregisters (closes) the client.  Each operation below is one  *)
(* critical section of queueMu.                                            *)
(*                                                                         *)
(* Events are numbered per stream in the order they reach the queue, so    *)
(* that `seen` can tell what the other end of the socket has missed.  The  *)
(* wording, the encoding and every payload the queue does not look at are  *)
(* left out.  A reaction event stands for the reactions of one message per *)
(* channel, a read event for one reader per channel.                       *)
(***************************************************************************)
EXTENDS Integers, Sequences, FiniteSets, FiniteSetsExt, SequencesExt

CONSTANTS Channels,     \* text channels the user may read at connect time
          Cap,          \* outgoingBufferSize (128)
          Burst,        \* media events in a row before an ordinary one (8)
          Clients,      \* the connections considered, each with its traffic
          MaxN          \* bound: events per numbered stream

ASSUME QueueAssumption ==
  /\ Cap \in Nat \ {0} /\ Burst \in Nat \ {0} /\ MaxN \in Nat
  /\ \A c \in Clients : /\ c.messageSync \in BOOLEAN /\ c.bound \in 0..MaxN
                        /\ c.channels \subseteq Channels /\ c.revocable \subseteq Channels

VARIABLES client,              \* the connection: its messageSync flag and its traffic
          outgoing, priority,  \* the two lanes
          ready,               \* outgoingReady holds its one token
          priorityBurst,       \* media events popped in a row
          done,                \* Client.done is closed
          channelAccess,       \* the installed channel policy
          subscriptions,       \* Client.subscriptions
          revoked,             \* channels RefreshChannelAccess still has to unsubscribe
          writer,              \* the write loop: in select, or about to pop
          rejected,            \* an enqueue returned false
          sent,                \* per stream: the newest number offered to the queue
          seen,                \* per stream: the newest state the other end was given
          shown,               \* per channel: the read mark it was given last
          waited               \* media events popped while an ordinary one waited

told == <<seen, shown>>
queueVars == <<client, outgoing, priority, ready, priorityBurst, done, channelAccess,
               subscriptions, revoked, writer, rejected, sent, told, waited>>

(* "delta": message created, updated, deleted, pinned.  "unpin": message   *)
(* unpinned.  "control": replies with a request ID, permission and server  *)
(* events.  "alert": notifications, typing and channel activity.  "voice": *)
(* voice.* and stream.* events that name a channel (somebody joined, left, *)
(* started or stopped).  "media": those that name none (SDP, ICE).         *)
(* "snapshot": a voice or stream snapshot.                                 *)
ChatKinds == {"delta", "unpin"}
ChannelKinds == ChatKinds \cup {"reactions", "read", "alert", "voice"}
AllKinds == ChannelKinds \cup {"control", "presence", "media", "snapshot"}
Streams == ({"chat", "reactions", "read", "alert", "voice"} \X {{ch} : ch \in Channels})
             \cup {<<"control", {}>>, <<"presence", {}>>, <<"media", {}>>}
Stream(e) == CASE e.kind \in ChatKinds -> <<"chat", e.chs>>
               [] e.kind = "snapshot" -> <<"media", {}>>
               [] OTHER -> <<e.kind, e.chs>>

Marker(ch) == [kind |-> "sync", chs |-> {ch}, n |-> 0]

NewClient ==
  /\ client \in Clients
  /\ outgoing = <<>> /\ priority = <<>> /\ ready = FALSE /\ priorityBurst = 0 /\ done = FALSE
  /\ subscriptions = {}
  /\ channelAccess = Channels
QueueInit ==
  /\ NewClient
  /\ revoked = {} /\ writer = "select" /\ rejected = FALSE
  /\ sent = [s \in Streams |-> 0] /\ seen = [s \in Streams |-> 0]
  /\ shown = [ch \in Channels |-> 0] /\ waited = 0

----------------------------------------------------------------------------
(* What the queue reads off an event. *)
IsMedia(e) == e.kind \in {"media", "voice", "snapshot"}
Transient(e) == e.kind = "alert"

(* eventMessageChannel: the channel whose catch-up covers the event.  An    *)
(* unpinned event carries MessageUnpinnedData, which the function does not  *)
(* match, so it has none.                                                   *)
eventMessageChannel(e) == IF e.kind \in {"delta", "reactions"} THEN e.chs ELSE {}

replacementKey(e) ==
  IF e.kind \in {"reactions", "read", "presence", "alert"} THEN <<e.kind, e.chs>> ELSE <<>>

(* A mutant: the newcomer always replaces the queued one. *)
KeepQueuedNever(queued, e) == FALSE
(* A reaction revision or a read mark older than the queued one is not taken. *)
KeepQueued(queued, e) == e.kind \in {"reactions", "read"} /\ e.n < queued.n

(* filterChannelEvent: the event as the policy lets it through, as a set of *)
(* at most one event; snapshots lose the entries of hidden channels.        *)
(* A mutant: snapshots pass as they are. *)
FilterKeepsSnapshots(e, access) == IF e.kind # "snapshot" /\ ~(e.chs \subseteq access) THEN {} ELSE {e}
filterChannelEvent(e, access) ==
  IF e.kind = "snapshot" THEN {[e EXCEPT !.chs = @ \cap access]}
  ELSE IF e.chs \subseteq access THEN {e} ELSE {}

FilterLane(q, access) ==
  LET kept == SelectSeq(q, LAMBDA e : filterChannelEvent(e, access) # {})
  IN  IF q = <<>> THEN <<>>
      ELSE [i \in DOMAIN kept |-> CHOOSE f \in filterChannelEvent(kept[i], access) : TRUE]

----------------------------------------------------------------------------
(* Compaction.  The loop visits channels in the order of their first queued *)
(* change, and stops at the one that absorbs the event or frees a slot.     *)
Changes(q, ch) == {i \in DOMAIN q : eventMessageChannel(q[i]) = {ch}}

Compactable(q) == {ch \in subscriptions : client.messageSync /\ Changes(q, ch) # {}}

Visited(q, e) ==
  LET Ends(d) == eventMessageChannel(e) = {d} \/ Cardinality(Changes(q, d)) > 1
  IN  {ch \in Compactable(q) : \A d \in Compactable(q) \ {ch} :
         Ends(d) => Min(Changes(q, ch)) < Min(Changes(q, d))}

(* A mutant: the changes go and no marker takes their place. *)
CompactNoMarker(q, chs) == SelectSeq(q, LAMBDA e : eventMessageChannel(e) \cap chs = {})
(* compactChannel for every visited channel: the first change becomes the  *)
(* marker, the others go.                                                  *)
Compact(q, chs) ==
  LET marked == [i \in DOMAIN q |->
                   IF \E ch \in chs : Changes(q, ch) # {} /\ i = Min(Changes(q, ch))
                   THEN Marker(CHOOSE ch \in chs : eventMessageChannel(q[i]) = {ch})
                   ELSE q[i]]
  IN  SelectSeq(marked, LAMBDA e : eventMessageChannel(e) \cap chs = {})

(* A mutant: the oldest event makes room, whatever it is. *)
EvictFirst(q) == SubSeq(q, 2, Len(q))
(* The oldest alert of a full lane makes room. *)
Evict(q) == IF \E i \in DOMAIN q : Transient(q[i])
            THEN RemoveAt(q, Min({i \in DOMAIN q : Transient(q[i])}))
            ELSE q

(* A mutant: the lane is not bounded. *)
EnqueueUnbounded(q, e) == {Append(q, e)}
(* enqueueLocked: the ordinary lane after e, as a set that is empty when e  *)
(* is rejected.                                                             *)
EnqueueOrdinary(q, e) ==
  LET same == {i \in DOMAIN q : replacementKey(e) # <<>> /\ replacementKey(q[i]) = replacementKey(e)}
      absorbed == \E ch \in eventMessageChannel(e), i \in DOMAIN q : q[i] = Marker(ch)
      roomy == Evict(q)
      visited == Visited(roomy, e)
      compacted == Compact(roomy, visited)
  IN  CASE same # {} -> {IF KeepQueued(q[Min(same)], e) THEN q ELSE [q EXCEPT ![Min(same)] = e]}
        [] same = {} /\ absorbed -> {q}
        [] same = {} /\ ~absorbed /\ Len(q) < Cap -> {Append(q, e)}
        [] same = {} /\ ~absorbed /\ Len(q) = Cap ->
             IF Transient(e) THEN {q}
             ELSE IF Len(roomy) < Cap THEN {Append(roomy, e)}
             ELSE IF eventMessageChannel(e) \cap visited # {} THEN {compacted}
             ELSE IF Len(compacted) < Cap THEN {Append(compacted, e)}
             ELSE {}

(* A rejected event leaves the lane as compaction left it. *)
AfterReject(q, e) == Compact(Evict(q), Visited(Evict(q), e))

----------------------------------------------------------------------------
(* enqueue: false once the client is closed, otherwise one critical section *)
(* of queueMu.  A true answer leaves a wake-up token for the writer.        *)
Accept == ready' = TRUE /\ UNCHANGED rejected

EnqueueMedia(e) ==
  IF Len(priority) = Cap
  THEN rejected' = TRUE /\ UNCHANGED <<priority, ready>>
  ELSE priority' = Append(priority, e) /\ Accept

EnqueueChat(e) ==
  IF EnqueueOrdinary(outgoing, e) = {}
  THEN outgoing' = AfterReject(outgoing, e) /\ rejected' = TRUE /\ UNCHANGED ready
  ELSE outgoing' \in EnqueueOrdinary(outgoing, e) /\ Accept

enqueue(e) ==
  /\ ~done
  /\ \/ /\ filterChannelEvent(e, channelAccess) = {}
        /\ UNCHANGED <<outgoing, priority, ready, rejected>>
     \/ /\ IsMedia(e)
        /\ \E f \in filterChannelEvent(e, channelAccess) : EnqueueMedia(f)
        /\ UNCHANGED outgoing
     \/ /\ ~IsMedia(e)
        /\ \E f \in filterChannelEvent(e, channelAccess) : EnqueueChat(f)
        /\ UNCHANGED priority

(* The hub offers an event.  Chat and reactions reach the subscribers of    *)
(* the channel, reads and alerts every connection of a member.  Read marks  *)
(* and reaction revisions come from concurrent requests, in any order.      *)
Numbers(e) == IF e.kind \in {"reactions", "read"} THEN 1..client.bound
              ELSE {sent[Stream(e)] + 1} \cap 1..client.bound
Publish(kind, chs) ==
  /\ kind \in client.kinds /\ chs \subseteq client.channels
  /\ kind \in ChatKinds \cup {"reactions"} => chs \subseteq subscriptions
  /\ \E n \in Numbers([kind |-> kind, chs |-> chs]) :
       LET e == [kind |-> kind, chs |-> chs, n |-> n]
       IN  /\ enqueue(e)
           /\ sent' = [sent EXCEPT ![Stream(e)] = Max({@, n})]
  /\ UNCHANGED <<client, priorityBurst, done, channelAccess, subscriptions, revoked, writer, told, waited>>

PublishAny ==
  \/ \E kind \in ChannelKinds, ch \in Channels : Publish(kind, {ch})
  \/ \E kind \in {"control", "presence", "media"} : Publish(kind, {})
  \/ \E chs \in SUBSET Channels : Publish("snapshot", chs)

(* A subscription starts with a fresh copy of the channel's history. *)
CatchUp(f, ch) == [s \in Streams |-> IF s \in {<<"chat", {ch}>>, <<"reactions", {ch}>>}
                                     THEN sent[s] ELSE f[s]]

(* addSubscription and removeSubscription, from the hub.  Subscribe holds  *)
(* the channel-access lock shared, so it never runs inside a refresh.      *)
Subscribe(ch) ==
  /\ ~done /\ revoked = {}
  /\ ch \in (channelAccess \cap client.channels) \ subscriptions
  /\ subscriptions' = subscriptions \cup {ch}
  /\ seen' = CatchUp(seen, ch)
  /\ UNCHANGED <<client, outgoing, priority, ready, priorityBurst, done, channelAccess, revoked,
                 writer, rejected, sent, shown, waited>>

Unsubscribe(ch) ==
  /\ ch \in subscriptions
  /\ subscriptions' = subscriptions \ {ch}
  /\ revoked' = revoked \ {ch}
  /\ UNCHANGED <<client, outgoing, priority, ready, priorityBurst, done, channelAccess, writer,
                 rejected, sent, told, waited>>

Purge(ids) == /\ outgoing' = FilterLane(outgoing, ids)
              /\ priority' = FilterLane(priority, ids)

(* replaceChannelAccess, and the list of subscriptions the refresh that     *)
(* called it goes on to remove.                                             *)
replaceChannelAccess(ids) ==
  /\ revoked = {} /\ client.revocable # {}
  /\ channelAccess' = ids
  /\ Purge(ids)
  /\ revoked' = subscriptions \ ids
  /\ UNCHANGED <<client, ready, priorityBurst, done, subscriptions, writer, rejected, sent, told, waited>>

----------------------------------------------------------------------------
(* The writer. *)
Wake ==
  /\ writer = "select" /\ ready
  /\ writer' = "pop" /\ ready' = FALSE
  /\ UNCHANGED <<client, outgoing, priority, priorityBurst, done, channelAccess, subscriptions,
                 revoked, rejected, sent, told, waited>>

(* A mutant: media always goes first. *)
MediaFirst == priority # <<>>
MediaTurn == priority # <<>> /\ (priorityBurst < Burst \/ outgoing = <<>>)

(* What the other end has been given with the event; only a message_sync    *)
(* client understands a marker.  The client orders messages and reactions   *)
(* by their revisions, so an older one leaves what it knows; it takes a     *)
(* read mark as it comes.                                                   *)
Learn(e) ==
  /\ seen' = IF e.kind = "sync"
             THEN IF client.messageSync THEN CatchUp(seen, CHOOSE ch \in e.chs : TRUE) ELSE seen
             ELSE [seen EXCEPT ![Stream(e)] = Max({@, e.n})]
  /\ shown' = [ch \in Channels |-> IF e.kind = "read" /\ e.chs = {ch} THEN e.n ELSE shown[ch]]

(* A mutant: the rest waits for the next enqueue. *)
NotifyRestNever(out, pri) == FALSE
(* PopOutgoing leaves a token when it leaves events. *)
NotifyRest(out, pri) == out # <<>> \/ pri # <<>>

PopMedia ==
  /\ MediaTurn
  /\ priorityBurst' = priorityBurst + 1
  /\ priority' = Tail(priority) /\ UNCHANGED outgoing
  /\ Learn(Head(priority))
  /\ waited' = IF outgoing = <<>> THEN 0 ELSE waited + 1

PopOrdinary ==
  /\ ~MediaTurn /\ outgoing # <<>>
  /\ priorityBurst' = 0 /\ waited' = 0
  /\ outgoing' = Tail(outgoing) /\ UNCHANGED priority
  /\ Learn(Head(outgoing))

PopNothing ==
  /\ outgoing = <<>> /\ priority = <<>>
  /\ priorityBurst' = 0 /\ waited' = 0
  /\ UNCHANGED <<client, outgoing, priority, told>>

PopOutgoing ==
  /\ writer = "pop"
  /\ PopMedia \/ PopOrdinary \/ PopNothing
  /\ ready' = (ready \/ NotifyRest(outgoing', priority'))
  /\ writer' = "select"
  /\ UNCHANGED <<client, done, channelAccess, subscriptions, revoked, rejected, sent>>

(* The write loop ends on Done; select may still prefer a ready event. *)
WriterStops ==
  /\ writer = "select" /\ done
  /\ writer' = "stopped"
  /\ UNCHANGED <<client, outgoing, priority, ready, priorityBurst, done, channelAccess, subscriptions,
                 revoked, rejected, sent, told, waited>>

(* CloseWithReason: by the publisher that was rejected (Hub.Unregister), or *)
(* because the socket failed or the session ended.                          *)
Close(why) ==
  /\ ~done /\ done' = TRUE
  /\ why = "rejected" => rejected
  /\ UNCHANGED <<client, outgoing, priority, ready, priorityBurst, channelAccess, subscriptions,
                 revoked, writer, rejected, sent, told, waited>>

QueueNext ==
  \/ PublishAny
  \/ \E ch \in Channels : Subscribe(ch) \/ Unsubscribe(ch)
  \/ \E ids \in SUBSET client.revocable : replaceChannelAccess((Channels \ client.revocable) \cup ids)
  \/ Wake \/ PopOutgoing \/ WriterStops
  \/ \E why \in {"rejected", "disconnect"} : Close(why)

QueueSpec == QueueInit /\ [][QueueNext]_queueVars

----------------------------------------------------------------------------
Event == [kind : AllKinds \cup {"sync"}, chs : SUBSET Channels, n : 0..MaxN]

(* Type invariant; both lanes stay within outgoingBufferSize. *)
QueueTypeOK ==
  /\ \A lane \in {outgoing, priority} :
       /\ DOMAIN lane = 1..Len(lane) /\ Len(lane) <= Cap
       /\ \A i \in DOMAIN lane : lane[i] \in Event
  /\ ready \in BOOLEAN /\ done \in BOOLEAN /\ rejected \in BOOLEAN
  /\ priorityBurst \in Nat /\ waited \in Nat
  /\ channelAccess \subseteq Channels /\ subscriptions \subseteq Channels
  /\ revoked \subseteq subscriptions
  /\ writer \in {"select", "pop", "stopped"}
  /\ sent \in [Streams -> 0..MaxN] /\ seen \in [Streams -> 0..MaxN]
  /\ shown \in [Channels -> 0..MaxN]

Queued(kind, ch) == {outgoing[i].n : i \in {j \in DOMAIN outgoing :
                       outgoing[j].kind = kind /\ outgoing[j].chs = {ch}}}
HasMarker(ch) == client.messageSync /\ \E i \in DOMAIN outgoing : outgoing[i] = Marker(ch)

(* No lost wake-up: while either lane holds an event, the writer is about   *)
(* to pop or a token waits for it, however enqueues, pops and policy        *)
(* replacements interleave with the writer's select (notifyOutgoing).       *)
NoLostWakeup ==
  outgoing # <<>> \/ priority # <<>> => ready \/ writer \in {"pop", "stopped"}

(* Whatever a subscriber has not seen of a channel is still on its way:     *)
(* every missing change is queued, or a catch-up marker is; the same for    *)
(* the newest reactions.  Coalescing, eviction and compaction of a full     *)
(* lane lose nothing unless the client was told so by being closed          *)
(* (enqueueLocked, compactChannel).                                         *)
CatchUpComplete ==
  \A ch \in subscriptions \cap channelAccess :
    rejected \/ HasMarker(ch) \/
      LET chat == <<"chat", {ch}>>
          reactions == <<"reactions", {ch}>>
      IN  /\ (seen[chat] + 1)..sent[chat] \subseteq Queued("delta", ch) \cup Queued("unpin", ch)
          /\ sent[reactions] \in Queued("reactions", ch) \cup 0..seen[reactions]

(* A subscriber never receives a change before the one it follows: a step   *)
(* moves its view of a channel by one change, or by the catch-up that a     *)
(* marker or a new subscription starts ("never silently lose deltas",       *)
(* docs/client-reliability.md).                                             *)
NoSilentGap ==
  [][\A ch \in subscriptions \cap channelAccess :
       \/ rejected
       \/ seen'[<<"chat", {ch}>>] <= seen[<<"chat", {ch}>>] + 1
       \/ Head(outgoing) = Marker(ch)]_queueVars

Sequence(lane, s) == LET part == SelectSeq(lane, LAMBDA e : Stream(e) = s)
                     IN  [i \in DOMAIN part |-> part[i].n]
Expected(s) == [i \in 1..(sent[s] - seen[s]) |-> seen[s] + i]

(* SDP, ICE, permission changes and replies are neither lost, duplicated    *)
(* nor reordered, and neither are the voice and stream events of a channel  *)
(* the client never loses: each lane holds exactly the ones sent and not    *)
(* yet delivered, in order, until an overflow closes the client.            *)
CriticalEventsKept ==
  rejected \/
    /\ Sequence(outgoing, <<"control", {}>>) = Expected(<<"control", {}>>)
    /\ \A s \in {<<"media", {}>>} \cup {<<"voice", {ch}>> : ch \in Channels \ client.revocable} :
         Sequence(priority, s) = Expected(s)

(* Read marks and presence are replaceable, but the newest one is never     *)
(* lost on the way: it is the one queued, although an older one may have    *)
(* come after it, or the other end was given it.                            *)
NewestStateKept ==
  /\ \A ch \in Channels \ client.revocable :
       LET s == <<"read", {ch}>>
       IN  rejected \/ sent[s] \in Queued("read", ch) \cup {seen[s]}
  /\ LET s == <<"presence", {}>>
     IN  rejected \/ Sequence(outgoing, s) = IF sent[s] = seen[s] THEN <<>> ELSE <<sent[s]>>

(* Nothing about a channel the client may not read waits in either lane,    *)
(* whenever the policy was replaced (filterChannelEvent on the way in,      *)
(* replaceChannelAccess for what is already queued).                        *)
NothingHiddenQueued ==
  \A lane \in {outgoing, priority} : \A i \in DOMAIN lane : lane[i].chs \subseteq channelAccess

(* Nothing a client relies on disappears on its way through the lanes, at  *)
(* their limit and while the policy changes: the five above, together with *)
(* the bounds of the lanes.                                                *)
NothingLost ==
  /\ [](QueueTypeOK /\ CatchUpComplete /\ CriticalEventsKept /\ NewestStateKept /\ NothingHiddenQueued)
  /\ NoSilentGap

(* An ordinary event waits for at most Burst media events, however the      *)
(* media lane is refilled while it waits (PopOutgoing, priorityBurst).      *)
OrdinaryGetsATurn == waited <= Burst

(* Inductive form: only pops that priorityBurst counts have been waited for. *)
TurnInv == /\ waited \in Nat /\ priorityBurst \in Nat
           /\ waited <= priorityBurst /\ waited <= Burst

(* docs/client-reliability.md: "For these clients a full chat queue can be  *)
(* compacted into a catch-up marker, preserving the media session."  A      *)
(* message_sync client that gets nothing but chat changes is never closed.  *)
ChatOverflowKeepsSession ==
  client.messageSync /\ client.kinds \subseteq ChatKinds => ~rejected

(* docs/client-reliability.md: "read marks never move backwards".  The mark *)
(* a client was given last is the newest it was given.                      *)
ReadMarksForward == \A ch \in Channels : shown[ch] = seen[<<"read", {ch}>>]

(* outgoing.go:96: "A slow client keeps the newest alert per channel". *)
NewestAlertKept ==
  \A ch \in Channels : LET s == <<"alert", {ch}>>
                        IN  sent[s] = seen[s] \/ sent[s] \in Queued("alert", ch)
=============================================================================
