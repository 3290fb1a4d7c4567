----------------------------- MODULE StreamHub -----------------------------
(***************************************************************************)
(* Screen streams: the catalogue of src/internal/realtime/stream_state.go, *)
(* the operations on it (stream_hub.go, stream_signals.go, voice_hub.go,   *)
(* role_permissions.go), the requests of a connection                      *)
(* (realtime/http/stream.go), the rooms and sessions of the media server   *)
(* (src/internal/stream/manager.go, room.go) and what a client without     *)
(* multi_streams is shown (stream_legacy.go).                              *)
(*                                                                         *)
(* A goroutine is a sequence of steps still to do, each one critical       *)
(* section: of streamState.mu, of the manager's mutex, of a client's queue.*)
(* An operation that calls another puts the steps of the callee in front.  *)
(* The locks that span steps are read off the sequences: an "unlock" still *)
(* to do holds mediaTransitions of its user, a "leave gate" holds          *)
(* channelAccessMu, shared for a reader and exclusively for an             *)
(* administrator.  Streams are named by the connection of their publisher; *)
(* all channels are on one server.                                         *)
(***************************************************************************)
EXTENDS Integers, FiniteSets, Sequences

CONSTANTS Conns, Channels,
          MaxPublishers,  \* streamcontract.MaxChannelPublishers
          MaxViewers,     \* maxStreamViewers, maxP2PStreamViewers, Manager.maxViewers
          Workloads       \* who is connected and what happens, in each behaviour

ASSUME StreamAssumption ==
  /\ IsFiniteSet(Conns) /\ "none" \notin Conns \cup Channels
  /\ MaxPublishers \in Nat \ {0} /\ MaxViewers \in Nat \ {0}
  /\ \A l \in Workloads :
       /\ l.publish \subseteq Conns /\ l.watch \subseteq Conns
       /\ l.legacy \subseteq Conns /\ l.user \in [Conns -> Conns]
       /\ l.voice \in [Conns -> Channels \cup {"none"}]
       /\ l.modes \subseteq {"server", "p2p"}
       /\ l.starts \in Nat /\ l.failures \in Nat /\ l.changes \in Nat

VARIABLES load,      \* user and first voice channel of each connection, who publishes,
                     \* who watches, legacy clients, modes, ops, and the bounds on starts
                     \* and watches, failures, changes
          voice,     \* voiceState: the voice channel of each connection
          byClient,  \* streamState.byClient: generation (0 for none) and publisher
          streams,   \* streamState.byChannel: channel, mode, viewers of each publisher
          nextGeneration,
          rooms,     \* Manager.rooms: the room object of each publisher, 0 for none
          made,      \* the room objects so far: publisher, viewers, reservations
          sessions,  \* Manager.sessions: room, role and the generation captured
          registered,\* Hub.clientsByConnection
          permitted, \* the database: users that may stream
          open,      \* the channels that have not been removed
          primary,   \* Client.legacyStreams of the legacy clients
          todo,      \* the steps each goroutine has still to do
          failed, changes

hub == <<byClient, streams, nextGeneration>>
manager == <<rooms, made, sessions>>
scene == <<load, voice, registered, permitted, open>>
vars == <<load, voice, byClient, streams, nextGeneration, rooms, made, sessions,
          registered, permitted, open, primary, todo, failed, changes>>

(* A connection has a reader; a failure callback and an administrative     *)
(* operation may be about it.                                              *)
Roles == {"reader", "failure", "admin"}
Goroutines == Roles \X Conns
User(c) == load.user[c]

Step(op, c, arg) == [op |-> op, conn |-> c, arg |-> arg]
Has(g, op) == \E i \in DOMAIN todo[g] : todo[g][i].op = op
At(g, op) == todo[g] # <<>> /\ Head(todo[g]).op = op
Now(g) == Head(todo[g])

NoEntry == [gen |-> 0, pub |-> "none"]
NoStream == [ch |-> "none", mode |-> "none", since |-> 0, viewers |-> {}]
NoSession == [room |-> 0, role |-> "none", gen |-> 0]
Live(p) == streams[p].ch # "none"
Publishers(x) == {p \in Conns : streams[p].ch = x}
In(c) == byClient[c].gen > 0

(* mediaTransitions and channelAccessMu.                                   *)
Acquiring == {"start", "watch", "compare", "join", "revoke"}
InTransition(u) ==
  \E g \in Goroutines : /\ Has(g, "unlock") /\ User(g[2]) = u
                        /\ \A op \in Acquiring : ~Has(g, op)
Exclusive(g) == g[1] = "admin" /\ Has(g, "leave gate")
GateOpen == \A c \in Conns : ~Exclusive(<<"admin", c>>)
GateIgnored == TRUE
GateEmpty == \A c \in Conns : ~Has(<<"reader", c>>, "leave gate")

Init ==
  /\ load \in Workloads
  /\ voice = load.voice
  /\ byClient = [c \in Conns |-> NoEntry] /\ streams = [c \in Conns |-> NoStream]
  /\ nextGeneration = 0
  /\ rooms = [c \in Conns |-> 0] /\ made = <<>> /\ sessions = [c \in Conns |-> NoSession]
  /\ registered = Conns /\ permitted = Conns /\ open = Channels
  /\ primary = [c \in load.legacy |-> [x \in Channels |-> "none"]]
  /\ todo = [g \in Goroutines |-> <<>>] /\ failed = 0 /\ changes = 0

(* Goroutine g goes on with s and what it still had to do; an unlock is    *)
(* done together with the step before it.                                  *)
Strip(s, op) == IF s # <<>> /\ Head(s).op = op THEN Tail(s) ELSE s
Released(s) == Strip(Strip(s, "unlock"), "leave gate")
Continue(g, s) == todo' = [todo EXCEPT ![g] = Released(s \o Tail(@))]
Become(g, s) == todo' = [todo EXCEPT ![g] = s]

(* An event about the stream of p in channel x, for the clients in `to`;   *)
(* only what legacy clients make of it is modelled (started, updated and   *)
(* snapshots carry the same data).                                         *)
Event(op, p, x, to) == IF load.legacy = {} THEN <<>> ELSE <<Step(op, p, <<x, to>>)>>

----------------------------------------------------------------------------
(* stream.start: under channelAccessMu the permission is checked, then,    *)
(* under mediaTransitions, the voice channel (StartStreamWithRenditions)   *)
(* and the catalogue (streamState.start).  Requests for another channel    *)
(* than the one the client is in are refused and left out.                 *)
Idle(c) == todo[<<"reader", c>>] = <<>> /\ c \in registered

RequestStart(c) ==
  /\ Idle(c) /\ c \in load.publish /\ GateOpen /\ nextGeneration < load.starts
  /\ User(c) \in permitted /\ voice[c] \in open
  /\ \E mode \in load.modes :
       Become(<<"reader", c>>, <<Step("start", c, <<voice[c], mode>>), Step("leave gate", c, "")>>)
  /\ UNCHANGED <<scene, hub, manager, primary, failed, changes>>

MayStart(c, x) ==
  /\ voice[c] = x /\ ~In(c)
  /\ c \in load.legacy => Publishers(x) = {}
  /\ Cardinality(Publishers(x)) < MaxPublishers

start(c, x, mode) ==
  /\ nextGeneration' = nextGeneration + 1
  /\ streams' = [streams EXCEPT ![c] =
       [ch |-> x, mode |-> mode, since |-> nextGeneration + 1, viewers |-> {}]]
  /\ byClient' = [byClient EXCEPT ![c] = [gen |-> nextGeneration + 1, pub |-> c]]

(* Steps that may change something: a session left over is closed (only    *)
(* the reader makes new ones), and an offer may fail.                      *)
Closing(c) == IF sessions[c].role = "none" THEN <<>> ELSE <<Step("media leave", c, "")>>
Offering(c) == IF "media" \in load.ops THEN <<Step("offer", c, "")>> ELSE <<>>

StartSteps(c, x, mode) ==
  <<Step("confirm", c, x)>> \o Event("started", c, x, Conns \ {c}) \o <<Step("unlock", c, "")>>
  \o (IF mode = "p2p" THEN <<>>
      ELSE Closing(c) \o <<Step("make room", c, x), Step("publish", c, "")>> \o Offering(c))
  \o Event("replied", c, x, {c})

Start(g) ==
  /\ At(g, "start") /\ ~InTransition(User(g[2]))
  /\ LET c == Now(g).conn
         x == Now(g).arg[1]
         mode == Now(g).arg[2]
     IN IF MayStart(c, x)
        THEN start(c, x, mode) /\ Continue(g, StartSteps(c, x, mode))
        ELSE UNCHANGED hub /\ Become(g, <<>>)
  /\ UNCHANGED <<scene, manager, primary, failed, changes>>

(* streamState.leave: a publisher takes the viewers of the stream along.   *)
(* The mutant leaves them behind.                                          *)
LeaveAlone(c) ==
  /\ streams' = [p \in Conns |-> IF p = c THEN NoStream
                                 ELSE [streams[p] EXCEPT !.viewers = @ \ {c}]]
  /\ byClient' = [byClient EXCEPT ![c] = NoEntry]
leave(c) ==
  /\ streams' = [p \in Conns |-> IF p = c THEN NoStream
                                 ELSE [streams[p] EXCEPT !.viewers = @ \ {c}]]
  /\ byClient' = [d \in Conns |-> IF d \in {c} \cup streams[c].viewers THEN NoEntry
                                  ELSE byClient[d]]

(* The voice channel is looked at again: who left it meanwhile is undone.  *)
Confirm(g) ==
  /\ At(g, "confirm")
  /\ IF voice[Now(g).conn] = Now(g).arg
     THEN UNCHANGED <<byClient, streams>> /\ Continue(g, <<>>)
     ELSE leave(Now(g).conn) /\ Become(g, <<>>)
  /\ UNCHANGED <<scene, nextGeneration, manager, primary, failed, changes>>

----------------------------------------------------------------------------
(* stream.watch: of the publisher asked for, or of the one that started    *)
(* first (WatchStreamWithCapabilities, streamState.watch).                 *)
RequestWatch(c) ==
  /\ Idle(c) /\ c \in load.watch /\ GateOpen /\ nextGeneration < load.starts
  /\ voice[c] # "none"
  /\ \E p \in IF c \in load.legacy THEN {"none"} ELSE Publishers(voice[c]) \ {c} :
       Become(<<"reader", c>>, <<Step("watch", c, <<voice[c], p>>), Step("leave gate", c, "")>>)
  /\ UNCHANGED <<scene, hub, manager, primary, failed, changes>>

Candidates(x, p) ==
  {q \in Publishers(x) :
     IF p = "none" THEN \A r \in Publishers(x) : streams[q].since <= streams[r].since ELSE q = p}

ViewersUnlimited(q) == TRUE
RoomForViewer(q) == Cardinality(streams[q].viewers) < MaxViewers

watch(c, q) ==
  /\ nextGeneration' = nextGeneration + 1
  /\ streams' = [streams EXCEPT ![q].viewers = @ \cup {c}]
  /\ byClient' = [byClient EXCEPT ![c] = [gen |-> nextGeneration + 1, pub |-> q]]

WatchSteps(c, x, q, mode) ==
  <<Step("confirm", c, x)>>
  \o (IF mode = "p2p" THEN <<Step("tell publisher", c, q)>> ELSE <<>>)
  \o Event("started", q, x, Conns) \o <<Step("unlock", c, "")>>
  \o (IF mode = "p2p" THEN <<>>
      ELSE Closing(c) \o <<Step("reserve", c, <<x, q>>)>>)
  \o Event("replied", q, x, {c})

Watch(g) ==
  /\ At(g, "watch") /\ ~InTransition(User(g[2]))
  /\ LET c == Now(g).conn
         x == Now(g).arg[1]
     IN \/ \E q \in Candidates(x, Now(g).arg[2]) \ {c} :
             /\ voice[c] = x /\ ~In(c) /\ RoomForViewer(q)
             /\ watch(c, q) /\ Continue(g, WatchSteps(c, x, q, streams[q].mode))
        \/ /\ voice[c] # x \/ In(c)
              \/ \A q \in Candidates(x, Now(g).arg[2]) : q = c \/ ~RoomForViewer(q)
           /\ UNCHANGED hub /\ Become(g, <<>>)
  /\ UNCHANGED <<scene, manager, primary, failed, changes>>

(* A publisher or viewer whose queue is full is unregistered by whoever    *)
(* wanted to send to it; the watch then fails.                             *)
Unregister(c) == <<Step("detach", c, ""), Step("forget", c, ""), Step("leave voice", c, "")>>
Accepts(c) == c \in registered
Refuses(c) == c \notin registered \/ "full" \in load.ops

TellPublisher(g) ==
  /\ At(g, "tell publisher")
  /\ \/ Accepts(Now(g).arg) /\ Continue(g, <<>>)
     \/ /\ Refuses(Now(g).arg)
        /\ Become(g, Unregister(Now(g).arg)
                        \o <<Step("unlock", Now(g).conn, ""), Step("leave gate", Now(g).conn, "")>>)
  /\ UNCHANGED <<scene, hub, manager, primary, failed, changes>>

(* P2P signalling goes to the peers of the stream only (relationship).     *)
Related(c, d) ==
  /\ In(c) /\ streams[byClient[c].pub].mode = "p2p"
  /\ \/ byClient[c].pub = c /\ d \in streams[c].viewers
     \/ byClient[c].pub # c /\ d = byClient[c].pub

RelayP2P(c) ==
  /\ "full" \in load.ops /\ Idle(c)
  /\ \E d \in Conns : Related(c, d) /\ Become(<<"reader", c>>, Unregister(d))
  /\ UNCHANGED <<scene, hub, manager, primary, failed, changes>>

----------------------------------------------------------------------------
(* leaveStream: the entry goes first, the session after it, and then the   *)
(* events are sent.                                                        *)
LeaveSteps(c) ==
  LET p == byClient[c].pub
  IN <<Step("media leave", c, "")>>
     \o (IF p = c THEN Event("stopped", c, streams[c].ch, Conns)
                       \o Event("replace", c, streams[c].ch, Conns)
         ELSE IF streams[p].mode = "p2p" THEN <<Step("tell of leaving", c, <<p, streams[p].ch>>)>>
         ELSE Event("started", p, streams[p].ch, Conns))

Forget(g) ==
  /\ At(g, "forget")
  /\ IF In(Now(g).conn)
     THEN leave(Now(g).conn) /\ Continue(g, LeaveSteps(Now(g).conn))
     ELSE UNCHANGED <<byClient, streams>> /\ Continue(g, <<>>)
  /\ UNCHANGED <<scene, nextGeneration, manager, primary, failed, changes>>

TellOfLeaving(g) ==
  /\ At(g, "tell of leaving")
  /\ LET p == Now(g).arg[1]
     IN \/ Accepts(p) /\ Continue(g, Event("started", p, Now(g).arg[2], Conns))
        \/ Refuses(p) /\ Continue(g, Unregister(p))
  /\ UNCHANGED <<scene, hub, manager, primary, failed, changes>>

(* stream.leave, voice.leave, and too many candidates, in the reader.      *)
RequestLeave(c) ==
  /\ "leave" \in load.ops /\ Idle(c) /\ voice[c] # "none"
  /\ \/ In(c) /\ Become(<<"reader", c>>, <<Step("forget", c, "")>>)
     \/ Become(<<"reader", c>>, <<Step("forget", c, ""), Step("leave voice", c, "")>>)
  /\ UNCHANGED <<scene, hub, manager, primary, failed, changes>>

LeaveVoice(g) ==
  /\ At(g, "leave voice")
  /\ voice' = [voice EXCEPT ![Now(g).conn] = "none"] /\ Continue(g, <<>>)
  /\ UNCHANGED <<load, registered, permitted, open, hub, manager, primary, failed, changes>>

(* JoinVoice as far as streams go: another channel ends the stream, and so *)
(* does another connection of the user.                                    *)
RequestJoin(c) ==
  /\ "join" \in load.ops /\ Idle(c) /\ GateOpen /\ changes < load.changes
  /\ changes' = changes + 1
  /\ \E x \in open : /\ voice[c] # x
                      /\ Become(<<"reader", c>>, <<Step("join", c, x), Step("enter", c, x),
                              Step("unlock", c, ""), Step("leave gate", c, "")>>)
  /\ UNCHANGED <<scene, hub, manager, primary, failed>>

Join(g) ==
  /\ At(g, "join") /\ ~InTransition(User(g[2]))
  /\ LET c == Now(g).conn
     IN IF c \notin registered THEN Become(g, <<>>)
        ELSE Continue(g, IF voice[c] \in {"none", Now(g).arg} THEN <<>>
                         ELSE <<Step("forget", c, "")>>)
  /\ UNCHANGED <<scene, hub, manager, primary, failed, changes>>

Others(c) == {d \in Conns \ {c} : User(d) = User(c) /\ voice[d] # "none"}

Enter(g) ==
  /\ At(g, "enter")
  /\ LET c == Now(g).conn
     IN /\ voice' = [d \in Conns |-> IF d = c THEN Now(g).arg
                                     ELSE IF d \in Others(c) THEN "none" ELSE voice[d]]
        /\ Continue(g, IF Others(c) = {} THEN <<>>
                       ELSE <<Step("forget", CHOOSE d \in Others(c) : TRUE, "")>>)
  /\ UNCHANGED <<load, registered, permitted, open, hub, manager, primary, failed, changes>>

----------------------------------------------------------------------------
(* The media server.  Manager.leave closes the sessions of a room with its *)
(* publisher, or one viewer; the mutant leaves the viewers in the table.   *)
Watching(r) == {c \in Conns : sessions[c].room = r /\ sessions[c].role = "viewer"}

CloseAlone(c) ==
  LET s == sessions[c]
  IN /\ sessions' = [sessions EXCEPT ![c] = NoSession]
     /\ rooms' = IF s.role = "publisher" THEN [rooms EXCEPT ![c] = 0] ELSE rooms
     /\ made' = IF s.role = "none" THEN made
                ELSE [made EXCEPT ![s.room].viewers = IF s.role = "viewer" THEN @ \ {c} ELSE {}]
CloseSessions(c) ==
  LET s == sessions[c]
      gone == {c} \cup IF s.role = "publisher" THEN made[s.room].viewers ELSE {}
  IN /\ sessions' = [d \in Conns |-> IF d \in gone THEN NoSession ELSE sessions[d]]
     /\ rooms' = IF s.role = "publisher" THEN [rooms EXCEPT ![c] = 0] ELSE rooms
     /\ made' = IF s.role = "none" THEN made
                ELSE [made EXCEPT ![s.room].viewers = @ \ gone]

MediaLeave(g) ==
  /\ At(g, "media leave")
  /\ CloseSessions(Now(g).conn) /\ Continue(g, <<>>)
  /\ UNCHANGED <<scene, hub, primary, failed, changes>>

(* StartWithRenditions: a room is made if the channel has fewer than the   *)
(* limit, then the session is made with the logical start it captures, and *)
(* offered.  Whatever fails on the way is undone in the catalogue.         *)
Undo(g) == Become(g, <<Step("forget", g[2], ""), Step("leave gate", g[2], "")>>)

RoomsOf(x) == {p \in Conns : rooms[p] # 0 /\ made[rooms[p]].ch = x}

MakeRoom(g) ==
  /\ At(g, "make room")
  /\ LET c == Now(g).conn
     IN IF Cardinality(RoomsOf(Now(g).arg)) >= MaxPublishers
        THEN UNCHANGED manager /\ Undo(g)
        ELSE /\ made' = Append(made, [pub |-> c, ch |-> Now(g).arg, viewers |-> {}, reserved |-> 0])
             /\ rooms' = [rooms EXCEPT ![c] = Len(made) + 1]
             /\ UNCHANGED sessions /\ Continue(g, <<>>)
  /\ UNCHANGED <<scene, hub, primary, failed, changes>>

Captured(c) == IF c \in registered THEN byClient[c].gen ELSE 0

Publish(g) ==
  /\ At(g, "publish")
  /\ LET c == Now(g).conn
     IN \/ /\ sessions' = [sessions EXCEPT ![c] =
               [room |-> rooms[c], role |-> "publisher", gen |-> Captured(c)]]
           /\ UNCHANGED rooms /\ Continue(g, <<>>)
        \/ /\ "peer" \in load.ops
           /\ rooms' = [rooms EXCEPT ![c] = 0] /\ UNCHANGED sessions /\ Undo(g)
  /\ UNCHANGED <<scene, hub, made, primary, failed, changes>>

Offer(g) ==
  /\ At(g, "offer")
  /\ \/ UNCHANGED manager /\ Continue(g, <<>>)
     \/ "media" \in load.ops /\ CloseSessions(Now(g).conn) /\ Undo(g)
  /\ UNCHANGED <<scene, hub, primary, failed, changes>>

(* WatchRenditionForPublisher: a place is reserved in the room the         *)
(* publisher has now, and given back unless the session gets into it.      *)
Reserve(g) ==
  /\ At(g, "reserve")
  /\ LET c == Now(g).conn
         q == Now(g).arg[2]
         r == rooms[q]
     IN IF r = 0 THEN UNCHANGED made /\ Undo(g)
        ELSE IF \/ made[r].ch # Now(g).arg[1]
                \/ Cardinality(made[r].viewers) + made[r].reserved >= MaxViewers
        THEN UNCHANGED made /\ Undo(g)
        ELSE /\ made' = [made EXCEPT ![r].reserved = @ + 1]
             /\ Continue(g, <<Step("attend", c, r)>> \o Offering(c))
  /\ UNCHANGED <<scene, hub, rooms, sessions, primary, failed, changes>>

Attend(g) ==
  /\ At(g, "attend")
  /\ LET c == Now(g).conn
         r == Now(g).arg
     IN \/ /\ rooms[made[r].pub] = r
           /\ sessions' = [sessions EXCEPT ![c] =
                [room |-> r, role |-> "viewer", gen |-> Captured(c)]]
           /\ made' = [made EXCEPT ![r].reserved = @ - 1, ![r].viewers = @ \cup {c}]
           /\ Continue(g, <<>>)
        \/ /\ rooms[made[r].pub] # r \/ "media" \in load.ops
           /\ made' = [made EXCEPT ![r].reserved = @ - 1]
           /\ UNCHANGED sessions /\ Undo(g)
  /\ UNCHANGED <<scene, hub, rooms, primary, failed, changes>>

----------------------------------------------------------------------------
(* A session fails (deadline, recovery, peer, duplicate track, bit rate):  *)
(* it leaves the manager, then SessionFailureHandler compares generations  *)
(* under mediaTransitions.  The mutant does not compare.                   *)
SessionFails(c) ==
  /\ failed < load.failures /\ failed' = failed + 1
  /\ sessions[c].role # "none" /\ todo[<<"failure", c>>] = <<>>
  /\ CloseSessions(c)
  /\ Become(<<"failure", c>>,
            IF sessions[c].gen = 0 THEN <<>>
            ELSE <<Step("compare", c, sessions[c].gen), Step("unlock", c, "")>>)
  /\ UNCHANGED <<scene, hub, primary, changes>>

AnyStream(c, gen) == In(c)
SameStream(c, gen) == In(c) /\ byClient[c].gen = gen

Compare(g) ==
  /\ At(g, "compare") /\ ~InTransition(User(g[2]))
  /\ LET c == Now(g).conn
     IN IF SameStream(c, Now(g).arg) /\ c \in registered
        THEN Continue(g, <<Step("forget", c, Now(g).arg)>>)
        ELSE Become(g, <<>>)
  /\ UNCHANGED <<scene, hub, manager, primary, failed, changes>>

----------------------------------------------------------------------------
(* Administration: a connection is dropped (Unregister), a channel is      *)
(* reset (ResetVoiceChannel), neither under a lock; the stream permission  *)
(* of a user goes (RefreshRolePermissions) or a channel (RemoveChannel),   *)
(* both under channelAccessMu after the database has changed.              *)
Administer(c, op, steps) ==
  /\ op \in load.ops /\ changes < load.changes /\ changes' = changes + 1
  /\ todo[<<"admin", c>>] = <<>> /\ Become(<<"admin", c>>, steps)
  /\ UNCHANGED <<load, voice, registered, hub, manager, primary, failed>>

Drop(c) == c \in registered /\ Administer(c, "drop", Unregister(c)) /\ UNCHANGED <<permitted, open>>

Reset(c) ==
  /\ voice[c] # "none"
  /\ Administer(c, "reset", <<Step("forget", c, ""), Step("leave voice", c, "")>>)
  /\ UNCHANGED <<permitted, open>>

Detach(g) ==
  /\ At(g, "detach")
  /\ registered' = registered \ {Now(g).conn} /\ Continue(g, <<>>)
  /\ UNCHANGED <<load, voice, permitted, open, hub, manager, primary, failed, changes>>

RevokeInside(c) ==
  <<Step("revoke", c, ""), Step("gate", c, ""), Step("unlock", c, ""), Step("leave gate", c, "")>>
RevokeSteps(c) ==
  <<Step("gate", c, ""), Step("revoke", c, ""), Step("unlock", c, ""), Step("leave gate", c, "")>>

RevokePermission(c) ==
  /\ User(c) \in permitted
  /\ Administer(c, "revoke", RevokeSteps(c))
  /\ permitted' = permitted \ {User(c)} /\ UNCHANGED open

RemoveChannel(c) ==
  /\ voice[c] \in open
  /\ Administer(c, "remove", <<Step("gate", c, ""), Step("stop streams", c, voice[c]),
                              Step("clear voice", c, voice[c]), Step("leave gate", c, "")>>)
  /\ open' = open \ {voice[c]} /\ UNCHANGED permitted

(* channelAccessMu for writing waits for the requests that hold it.        *)
WritersWait(g) ==
  \A c \in Conns : <<"admin", c>> # g /\ Exclusive(<<"admin", c>>) => At(<<"admin", c>>, "gate")

EnterGate(g) ==
  /\ At(g, "gate") /\ GateEmpty /\ WritersWait(g)
  /\ Continue(g, <<>>)
  /\ UNCHANGED <<scene, hub, manager, primary, failed, changes>>

Revoke(g) ==
  /\ At(g, "revoke") /\ ~InTransition(User(g[2]))
  /\ LET c == Now(g).conn
     IN Continue(g, IF byClient[c].pub = c /\ voice[c] # "none" THEN <<Step("forget", c, "")>>
                    ELSE <<>>)
  /\ UNCHANGED <<scene, hub, manager, primary, failed, changes>>

StopStreams(g) ==
  /\ At(g, "stop streams")
  /\ IF Publishers(Now(g).arg) = {} THEN Continue(g, <<>>)
     ELSE \E p \in Publishers(Now(g).arg) : Continue(g, <<Step("forget", p, ""), Now(g)>>)
  /\ UNCHANGED <<scene, hub, manager, primary, failed, changes>>

ClearVoice(g) ==
  /\ At(g, "clear voice")
  /\ voice' = [c \in Conns |-> IF voice[c] = Now(g).arg THEN "none" ELSE voice[c]]
  /\ Continue(g, <<>>)
  /\ UNCHANGED <<load, registered, permitted, open, hub, manager, primary, failed, changes>>

----------------------------------------------------------------------------
(* filterLegacyStreamEvent: a legacy client keeps one stream per channel,  *)
(* and hears of another only in the reply to its own request or after that *)
(* one stopped.  announceLegacyStreamReplacement then names the oldest.    *)
Filtered(kind, shown, p) ==
  IF kind # "replied" /\ shown \notin {"none", p} THEN shown
  ELSE IF kind = "stopped" THEN "none" ELSE p

Announce(g) ==
  /\ \E kind \in {"started", "replied", "stopped"} :
       /\ At(g, kind)
       /\ primary' = [d \in load.legacy |->
            IF d \notin Now(g).arg[2] \cap registered THEN primary[d]
            ELSE [primary[d] EXCEPT ![Now(g).arg[1]] = Filtered(kind, @, Now(g).conn)]]
  /\ Continue(g, <<>>)
  /\ UNCHANGED <<scene, hub, manager, failed, changes>>

Replace(g) ==
  /\ At(g, "replace")
  /\ LET x == Now(g).arg[1]
     IN \/ Publishers(x) = {} /\ Continue(g, <<>>)
        \/ \E p \in Candidates(x, "none") : Continue(g, Event("started", p, x, Conns))
  /\ UNCHANGED <<scene, hub, manager, primary, failed, changes>>

----------------------------------------------------------------------------
GoOn(g) ==
  /\ todo[g] # <<>>
  /\ \/ Start(g) \/ Confirm(g) \/ Watch(g) \/ TellPublisher(g) \/ Forget(g) \/ TellOfLeaving(g)
     \/ LeaveVoice(g) \/ Join(g) \/ Enter(g) \/ MediaLeave(g) \/ MakeRoom(g) \/ Publish(g)
     \/ Offer(g) \/ Reserve(g) \/ Attend(g) \/ Compare(g) \/ Detach(g) \/ EnterGate(g)
     \/ Revoke(g) \/ StopStreams(g) \/ ClearVoice(g) \/ Announce(g) \/ Replace(g)

Request(c) == RequestStart(c) \/ RequestWatch(c) \/ RequestLeave(c) \/ RequestJoin(c) \/ RelayP2P(c)

Next ==
  \/ \E c \in Conns : \/ Request(c) \/ SessionFails(c)
                       \/ Drop(c) \/ Reset(c) \/ RevokePermission(c) \/ RemoveChannel(c)
  \/ \E g \in Goroutines : GoOn(g)

Spec == Init /\ [][Next]_vars

----------------------------------------------------------------------------
(* streamState: whoever has an entry publishes or is among the viewers of  *)
(* a running stream, and every publisher and viewer has that entry.        *)
CatalogueExact ==
  \A c \in Conns :
    /\ Live(c) <=> byClient[c].pub = c
    /\ In(c) => Live(byClient[c].pub)
    /\ \A p \in Conns : c \in streams[p].viewers <=> (p # c /\ byClient[c].pub = p)

(* Manager: a session is in the room its publisher has now, on the list    *)
(* its role requires; a closed room keeps nobody.                          *)
RoomsExact ==
  /\ \A c \in Conns : sessions[c].role # "none" => rooms[made[sessions[c].room].pub] = sessions[c].room
  /\ \A r \in DOMAIN made : made[r].viewers = Watching(r)
  /\ \A c \in Conns : sessions[c].role = "publisher" => made[sessions[c].room].pub = c

(* Every reservation of a place belongs to a watch under way, so that none *)
(* is lost when a watch fails, and viewers never exceed the limit.         *)
Reserving(r) == {c \in Conns : At(<<"reader", c>>, "attend") /\ Now(<<"reader", c>>).arg = r}
CapacityKept ==
  /\ \A r \in DOMAIN made : /\ made[r].reserved = Cardinality(Reserving(r))
                             /\ Cardinality(made[r].viewers) + made[r].reserved <= MaxViewers
  /\ \A x \in Channels : /\ Cardinality(Publishers(x)) <= MaxPublishers
                         /\ Cardinality(RoomsOf(x)) <= MaxPublishers
  /\ \A p \in Conns : Cardinality(streams[p].viewers) <= MaxViewers

(* A late failure ends only the start or watch its session served: as long *)
(* as the callback runs, the connection has no newer one.                  *)
FailureStillCurrent ==
  \A c \in Conns : At(<<"failure", c>>, "forget") =>
    byClient[c].gen \in {0, Now(<<"failure", c>>).arg}

(* The tables of the hub and of the media server are sound and bounded at  *)
(* every step, the steps between the two included.                         *)
TablesExact == CatalogueExact /\ RoomsExact /\ CapacityKept

AtRest == \A g \in Goroutines : todo[g] = <<>>

(* Once a revocation or a removal is over, nobody without the permission   *)
(* publishes and no stream is left in the removed channel, also when a     *)
(* start was under way.                                                    *)
RevocationKept ==
  AtRest => \A p \in Conns : Live(p) => User(p) \in permitted /\ streams[p].ch \in open

(* While connections only make requests and fail, whoever streams or       *)
(* watches is in that voice channel at rest, and in server mode has a      *)
(* session in the room of that very stream.                                *)
Undisturbed == load.ops \cap {"drop", "reset", "full"} = {} /\ \A c, d \in Conns : User(c) = User(d) => c = d
StreamsServed ==
  AtRest /\ Undisturbed => \A c \in Conns : In(c) =>
    LET p == byClient[c].pub
    IN /\ voice[c] = streams[p].ch
       /\ streams[p].mode = "server" =>
            /\ sessions[c].room # 0 /\ sessions[c].room = rooms[p]
            /\ sessions[c].gen = byClient[c].gen

(* Leaving voice stops publishing and watching: who is in no voice channel *)
(* has no media session at rest.  It fails, also when connections only     *)
(* make requests: a watch that is between the catalogue and the room while *)
(* the publisher stops and starts again enters the new room without an     *)
(* entry, and leaving closes sessions of entries only.                     *)
MediaEndsWithVoice ==
  AtRest => \A c \in Conns : sessions[c].role # "none" => voice[c] # "none"

(* A legacy client is shown a running stream whenever there is one, and    *)
(* none otherwise.  It holds while streams stop one at a time and nobody   *)
(* watches; otherwise an update sent late brings a stopped stream back.    *)
LegacyShown ==
  AtRest => \A d \in load.legacy \cap registered, x \in Channels :
    primary[d][x] \in IF Publishers(x) = {} THEN {"none"} ELSE Publishers(x)

(* Streams go on, end and are shown as their requests, failures and        *)
(* revocations say: the four above.                                        *)
StreamsRight == FailureStillCurrent /\ RevocationKept /\ StreamsServed /\ LegacyShown

(* Requests, callbacks and revocations never all wait for each other's     *)
(* mediaTransitions and channelAccessMu: somebody can go on.               *)
Blocked(g) ==
  \/ todo[g] = <<>>
  \/ (\E op \in Acquiring : At(g, op)) /\ InTransition(User(g[2]))
  \/ At(g, "gate") /\ ~(GateEmpty /\ WritersWait(g))
NobodyStuck == (\A g \in Goroutines : Blocked(g)) => AtRest
=============================================================================
