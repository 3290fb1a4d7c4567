------------------------------ MODULE VoiceHub ------------------------------
(***************************************************************************)
(* Who is in a voice channel, and who has a media session for it: the      *)
(* roster of src/internal/realtime/voice_state.go, the operations on it    *)
(* (voice_hub.go, voice_signals.go, channel_access.go, hub.go), the        *)
(* requests of a connection (realtime/http/handler.go) and the sessions of *)
(* the media server as the hub sees them (module VoiceManager has the      *)
(* rooms behind them).                                                     *)
(*                                                                         *)
(* One step is one critical section of voiceState.mu, clientsMu or the     *)
(* manager's mutex.  Leaving always takes two of them: the roster entry    *)
(* goes first, the session after it.  Three locks span several steps and   *)
(* are read off the program counters: channelAccessMu (a join holds it     *)
(* shared, a revocation exclusively, a waiting revocation blocks new       *)
(* joins), voiceJoins (one join per user) and mediaTransitions (one roster *)
(* transition per user; module KeyLock).  A connection's requests run in   *)
(* its reader, its Unregister in another goroutine.  There is one server;  *)
(* streams, mute flags and the events sent to clients are left out.        *)
(***************************************************************************)
EXTENDS Integers, FiniteSets

CONSTANTS Conns, Users, Channels,
          Owner(_),    \* the user of a connection
          Loads        \* who is connected and what happens, in each behaviour

ASSUME VoiceAssumption ==
  /\ IsFiniteSet(Conns)
  /\ \A c \in Conns : Owner(c) \in Users
  /\ "none" \notin Conns \cup Channels
  /\ \A l \in Loads : /\ l.conns \subseteq Conns /\ l.channels \subseteq Channels
                      /\ l.encrypted \subseteq Channels
                      /\ l.joins \in Nat /\ l.changes \in Nat

VARIABLES load,       \* conns, channels, encrypted (required at the start), ops (what
                      \* happens besides joining), joins and changes (bounds)
          byClient,   \* voiceState.byClient; generation 0 for no entry
          byChannel,  \* voiceState.byChannel: the keys of each room
          byUser,     \* voiceState.byUser, "none" for no entry
          nextGeneration,
          sessions,   \* Manager.sessions, with the join each session captured
          registered, \* Hub.clientsByConnection
          done,       \* Client.done is closed
          access,     \* Client.channelAccess
          inServer,   \* Client.servers has the server
          reader,     \* the goroutine that serves a connection's requests
          teardown,   \* the Unregister of a connection
          failures,   \* failure callbacks under way
          admin,      \* the administrative operation under way
          changes,    \* administrative operations so far
          policy,     \* the database: the channels each user may enter
          required,   \* the database: channels that require encryption
          active      \* the database: users whose E2EE device is active

roster == <<byClient, byChannel, byUser>>
tables == <<policy, required, active>>
vars == <<load, byClient, byChannel, byUser, nextGeneration, sessions, registered, done,
          access, inServer, reader, teardown, failures, admin, changes,
          policy, required, active>>

NoParticipant == [gen |-> 0, ch |-> "none", e2ee |-> FALSE]
NoSession == [on |-> FALSE, gen |-> 0, ch |-> "none", e2ee |-> FALSE, lost |-> FALSE]
Idle == [at |-> "idle", ch |-> "none", e2ee |-> FALSE, old |-> "none"]
Stopped == [Idle EXCEPT !.at = "stopped"]
NoAdmin == [op |-> "none", at |-> "idle", arg |-> "none", conn |-> "none",
            failed |-> FALSE, todo |-> {}]
In(c) == byClient[c].gen > 0

(* The locks.  Exclusive operations hold channelAccessMu for writing; the  *)
(* guarded ones take mediaTransitions around each connection they remove.  *)
Exclusive == {"refresh", "revoke", "revokeServer", "removeChannel"}
Guarded == {"refresh", "revoke", "revalidate"}
InGate(c) == reader[c].at \notin {"idle", "stopped", "leaving"}
WantsJoinLock(c) == InGate(c)
HasJoinLock(c) == InGate(c) /\ reader[c].at # "checked"
InTransition(u) ==
  \/ \E c \in Conns : Owner(c) = u /\ reader[c].at \in {"validated", "replacing"}
  \/ \E f \in failures : Owner(f.conn) = u /\ f.at # "waiting"
  \/ /\ admin.op \in Guarded /\ admin.at \in {"leaving", "closing"}
     /\ Owner(admin.conn) = u

Init ==
  /\ load \in Loads
  /\ byClient = [c \in Conns |-> NoParticipant]
  /\ byChannel = [x \in Channels |-> {}]
  /\ byUser = [u \in Users |-> "none"]
  /\ nextGeneration = 0
  /\ sessions = [c \in Conns |-> NoSession]
  /\ registered = load.conns /\ done = [c \in Conns |-> c \notin load.conns]
  /\ access = [c \in Conns |-> load.channels] /\ inServer = [c \in Conns |-> TRUE]
  /\ reader = [c \in Conns |-> IF c \in load.conns THEN Idle ELSE Stopped]
  /\ teardown = [c \in Conns |-> IF c \in load.conns THEN "no" ELSE "gone"]
  /\ failures = {} /\ admin = NoAdmin /\ changes = 0
  /\ policy = [u \in Users |-> load.channels] /\ required = load.encrypted /\ active = Users

----------------------------------------------------------------------------
(* voiceState: the entries of a connection removed, of a channel, of the   *)
(* server, and a new entry made.                                           *)
(* removeLocked; the mutant forgets byUser.                                *)
RemoveLeavesUser(c) ==
  /\ byClient' = [byClient EXCEPT ![c] = NoParticipant]
  /\ byChannel' = [byChannel EXCEPT ![byClient[c].ch] = @ \ {c}]
  /\ UNCHANGED byUser
removeLocked(c) ==
  /\ byClient' = [byClient EXCEPT ![c] = NoParticipant]
  /\ byChannel' = [byChannel EXCEPT ![byClient[c].ch] = @ \ {c}]
  /\ byUser' = [byUser EXCEPT ![Owner(c)] = IF @ = c THEN "none" ELSE @]

leave(c) == IF In(c) THEN removeLocked(c) ELSE UNCHANGED roster

RemoveAll(S) ==
  /\ byClient' = [c \in Conns |-> IF c \in S THEN NoParticipant ELSE byClient[c]]
  /\ byUser' = [u \in Users |-> IF byUser[u] \in S THEN "none" ELSE byUser[u]]
removeChannel(x) == RemoveAll(byChannel[x]) /\ byChannel' = [byChannel EXCEPT ![x] = {}]
removeServer == RemoveAll({c \in Conns : In(c)}) /\ byChannel' = [x \in Channels |-> {}]

(* The user's other connection, when it is in a voice channel.             *)
Replaced(c) == {p \in Conns : p = byUser[Owner(c)] /\ p # c /\ In(p)}

Refreshes(c, x, e) == In(c) /\ byClient[c].ch = x /\ byClient[c].e2ee = e

join(c, x, e) ==
  LET entry == [gen |-> nextGeneration + 1, ch |-> x, e2ee |-> e]
      gone == Replaced(c) \cup {c}
  IN /\ nextGeneration' = nextGeneration + 1
     /\ \/ /\ Refreshes(c, x, e)
           /\ byClient' = [byClient EXCEPT ![c] = entry]
           /\ UNCHANGED <<byChannel, byUser>>
        \/ /\ ~Refreshes(c, x, e)
           /\ byClient' = [d \in Conns |-> IF d = c THEN entry
                                           ELSE IF d \in gone THEN NoParticipant
                                           ELSE byClient[d]]
           /\ byChannel' = [y \in Channels |->
                (byChannel[y] \ {d \in gone : byClient[d].ch = y})
                  \cup (IF y = x THEN {c} ELSE {})]
           /\ byUser' = [byUser EXCEPT ![Owner(c)] = c]

CloseSession(c) == sessions' = [sessions EXCEPT ![c] = NoSession]

----------------------------------------------------------------------------
(* joinVoice.  It takes channelAccessMu, checks access and the encryption  *)
(* policy (the client asks for the mode the channel requires, or the       *)
(* request ends here), takes voiceJoins and checks access again.           *)
Reader(c, at) == reader' = [reader EXCEPT ![c].at = at]

BeginJoin(c) ==
  /\ reader[c] = Idle /\ nextGeneration < load.joins
  /\ ~(admin.op \in Exclusive /\ admin.at # "committed")
  /\ \E x \in policy[Owner(c)] :
       /\ x \in required => Owner(c) \in active
       /\ reader' = [reader EXCEPT ![c] =
            [at |-> "checked", ch |-> x, e2ee |-> (x \in required), old |-> "none"]]
  /\ UNCHANGED <<load, roster, nextGeneration, sessions, registered, done, access, inServer,
                 teardown, failures, admin, changes, tables>>

LockJoin(c) ==
  /\ reader[c].at = "checked"
  /\ \A d \in Conns : Owner(d) = Owner(c) => ~HasJoinLock(d)
  /\ reader' = [reader EXCEPT ![c] =
       IF reader[c].ch \in policy[Owner(c)] THEN [@ EXCEPT !.at = "locked"] ELSE Idle]
  /\ UNCHANGED <<load, roster, nextGeneration, sessions, registered, done, access, inServer,
                 teardown, failures, admin, changes, tables>>

(* JoinVoiceWithDevice: under mediaTransitions it checks the device, the   *)
(* cached access, the server and that the connection is open ...           *)
(* (the mutant does not check the device)                                  *)
MayJoinUncheckedDevice(c) == reader[c].ch \in access[c] /\ inServer[c] /\ ~done[c]
MayJoin(c) ==
  /\ reader[c].e2ee => Owner(c) \in active
  /\ reader[c].ch \in access[c] /\ inServer[c] /\ ~done[c]

TransitionIgnored(c) == TRUE
TransitionFree(c) == ~InTransition(Owner(c))

Validate(c) ==
  /\ reader[c].at = "locked" /\ TransitionFree(c)
  /\ reader' = [reader EXCEPT ![c] =
       IF MayJoin(c) THEN [@ EXCEPT !.at = "validated"] ELSE Idle]
  /\ UNCHANGED <<load, roster, nextGeneration, sessions, registered, done, access, inServer,
                 teardown, failures, admin, changes, tables>>

(* ... enters the roster, and closes the session of a replaced connection. *)
EnterRoster(c) ==
  /\ reader[c].at = "validated"
  /\ join(c, reader[c].ch, reader[c].e2ee)
  /\ reader' = [reader EXCEPT ![c] =
       IF Refreshes(c, reader[c].ch, reader[c].e2ee) \/ Replaced(c) = {}
       THEN [@ EXCEPT !.at = "announced"]
       ELSE [@ EXCEPT !.at = "replacing", !.old = CHOOSE p \in Replaced(c) : TRUE]]
  /\ UNCHANGED <<load, sessions, registered, done, access, inServer, teardown, failures,
                 admin, changes, tables>>

CloseReplaced(c) ==
  /\ reader[c].at = "replacing"
  /\ CloseSession(reader[c].old)
  /\ reader' = [reader EXCEPT ![c].at = "announced", ![c].old = "none"]
  /\ UNCHANGED <<load, roster, nextGeneration, registered, done, access, inServer, teardown,
                 failures, admin, changes, tables>>

(* The reply is queued.  A closed connection refuses it, and so does a full*)
(* queue; the reader then ends without leaving.                            *)
QueueJoined(c) ==
  /\ reader[c].at = "announced"
  /\ \/ ~done[c] /\ Reader(c, "media")
     \/ (done[c] \/ "drop" \in load.ops) /\ reader' = [reader EXCEPT ![c] = Stopped]
  /\ UNCHANGED <<load, roster, nextGeneration, sessions, registered, done, access, inServer,
                 teardown, failures, admin, changes, tables>>

(* Manager.Join: the connection's previous session is closed, then a new   *)
(* one is installed with the logical join it serves, then the first offer  *)
(* is sent.  A session whose offer finds no connection will fail.  When    *)
(* there is no room, or no offer can be made, the roster entry is undone.  *)
MediaLeave(c) ==
  /\ reader[c].at = "media"
  /\ CloseSession(c) /\ Reader(c, "reserving")
  /\ UNCHANGED <<load, roster, nextGeneration, registered, done, access, inServer, teardown,
                 failures, admin, changes, tables>>

Captured(c) == IF c \in registered THEN byClient[c].gen ELSE 0

MediaInstall(c) ==
  /\ reader[c].at = "reserving"
  /\ \/ /\ sessions' = [sessions EXCEPT ![c] =
             [on |-> TRUE, gen |-> Captured(c), ch |-> reader[c].ch,
              e2ee |-> reader[c].e2ee, lost |-> FALSE]]
        /\ Reader(c, "offering")
     \/ "media" \in load.ops /\ Reader(c, "undoing") /\ UNCHANGED sessions
  /\ UNCHANGED <<load, roster, nextGeneration, registered, done, access, inServer, teardown,
                 failures, admin, changes, tables>>

OfferNeverLost(c) == FALSE
OfferLost(c) == sessions[c].on /\ done[c]

Offer(c) ==
  /\ reader[c].at = "offering"
  /\ \/ /\ sessions' = [sessions EXCEPT ![c].lost = OfferLost(c)]
        /\ reader' = [reader EXCEPT ![c] = Idle]
     \/ "media" \in load.ops /\ CloseSession(c) /\ Reader(c, "undoing")
  /\ UNCHANGED <<load, roster, nextGeneration, registered, done, access, inServer, teardown,
                 failures, admin, changes, tables>>

(* LeaveVoice in the reader, after a failed join or for a request (a leave,*)
(* a state update without a session, too many candidates).  It takes no    *)
(* lock.                                                                   *)
UndoJoin(c) ==
  /\ reader[c].at = "undoing"
  /\ leave(c)
  /\ IF In(c) THEN Reader(c, "undone") ELSE reader' = [reader EXCEPT ![c] = Idle]
  /\ UNCHANGED <<load, nextGeneration, sessions, registered, done, access, inServer, teardown,
                 failures, admin, changes, tables>>

LeaveVoice(c) ==
  /\ "leave" \in load.ops /\ reader[c].at = "idle" /\ In(c)
  /\ leave(c) /\ Reader(c, "leaving")
  /\ UNCHANGED <<load, nextGeneration, sessions, registered, done, access, inServer, teardown,
                 failures, admin, changes, tables>>

ReaderCloses(c) ==
  /\ reader[c].at \in {"undone", "leaving"}
  /\ CloseSession(c) /\ reader' = [reader EXCEPT ![c] = Idle]
  /\ UNCHANGED <<load, roster, nextGeneration, registered, done, access, inServer, teardown,
                 failures, admin, changes, tables>>

ReaderStops(c) ==
  /\ reader[c] = Idle /\ done[c]
  /\ reader' = [reader EXCEPT ![c] = Stopped]
  /\ UNCHANGED <<load, roster, nextGeneration, sessions, registered, done, access, inServer,
                 teardown, failures, admin, changes, tables>>

----------------------------------------------------------------------------
(* A session fails (its deadline, its recovery or its peer): it leaves the *)
(* manager first, then the captured callback runs under mediaTransitions.  *)
SessionFails(c) ==
  /\ sessions[c].on
  /\ CloseSession(c)
  /\ failures' = failures \cup
       IF sessions[c].gen = 0 THEN {} ELSE {[conn |-> c, gen |-> sessions[c].gen, at |-> "waiting"]}
  /\ UNCHANGED <<load, roster, nextGeneration, registered, done, access, inServer, reader,
                 teardown, admin, changes, tables>>

(* SessionFailureHandler acts on the join it captured, if it is current;   *)
(* the mutants act on any join, and on none.                               *)
AnyJoin(f) == In(f.conn)
NoJoin(f) == FALSE
FailureCurrent(f) == In(f.conn) /\ byClient[f.conn].gen = f.gen

Move(f, at) == failures' = (failures \ {f}) \cup {[f EXCEPT !.at = at]}
End(f) == failures' = failures \ {f}

(* SessionFailureHandler compares generations; CloseVoice then leaves the  *)
(* channel of a connection that is still registered.                       *)
FailureLock(f) ==
  /\ f.at = "waiting" /\ ~InTransition(Owner(f.conn))
  /\ IF FailureCurrent(f) THEN Move(f, "leaving") ELSE End(f)
  /\ UNCHANGED <<load, roster, nextGeneration, sessions, registered, done, access, inServer,
                 reader, teardown, admin, changes, tables>>

FailureLeave(f) ==
  /\ f.at = "leaving"
  /\ IF f.conn \in registered /\ In(f.conn)
     THEN leave(f.conn) /\ Move(f, "closing")
     ELSE UNCHANGED roster /\ End(f)
  /\ UNCHANGED <<load, nextGeneration, sessions, registered, done, access, inServer, reader,
                 teardown, admin, changes, tables>>

FailureClose(f) ==
  /\ f.at = "closing" /\ CloseSession(f.conn) /\ End(f)
  /\ UNCHANGED <<load, roster, nextGeneration, registered, done, access, inServer, reader,
                 teardown, admin, changes, tables>>

----------------------------------------------------------------------------
(* Unregister: the connection is closed, detached, and leaves.  It runs at *)
(* the end of the connection without waiting for the reader; a revoked     *)
(* session and a full queue call it earlier.                               *)
CloseClient(c) ==
  /\ done' = [done EXCEPT ![c] = TRUE]
  /\ teardown' = [teardown EXCEPT ![c] = "closed"]

Drop(c) ==
  /\ "drop" \in load.ops \/ reader[c].at = "stopped"
  /\ teardown[c] = "no"
  /\ CloseClient(c)
  /\ UNCHANGED <<load, roster, nextGeneration, sessions, registered, access, inServer, reader,
                 failures, admin, changes, tables>>

Detach(c) ==
  /\ teardown[c] = "closed"
  /\ registered' = registered \ {c}
  /\ teardown' = [teardown EXCEPT ![c] = "detached"]
  /\ UNCHANGED <<load, roster, nextGeneration, sessions, done, access, inServer, reader,
                 failures, admin, changes, tables>>

TeardownLeave(c) ==
  /\ teardown[c] = "detached"
  /\ leave(c)
  /\ teardown' = [teardown EXCEPT ![c] = IF In(c) THEN "closing" ELSE "gone"]
  /\ UNCHANGED <<load, nextGeneration, sessions, registered, done, access, inServer, reader,
                 failures, admin, changes, tables>>

TeardownClose(c) ==
  /\ teardown[c] = "closing" /\ CloseSession(c)
  /\ teardown' = [teardown EXCEPT ![c] = "gone"]
  /\ UNCHANGED <<load, roster, nextGeneration, registered, done, access, inServer, reader,
                 failures, admin, changes, tables>>

----------------------------------------------------------------------------
(* The administrative operations.  Each commits its change to the database *)
(* first and calls the hub after it.                                       *)
Begin(op, arg) ==
  /\ op \in load.ops /\ admin = NoAdmin /\ changes < load.changes
  /\ changes' = changes + 1
  /\ admin' = [NoAdmin EXCEPT !.op = op, !.at = "committed", !.arg = arg]

Present == {u \in Users : \E c \in load.conns : Owner(c) = u}

Commit ==
  /\ \/ \E u \in Present, S \in SUBSET Channels :
          /\ S \subseteq load.channels
          /\ Begin("refresh", u) /\ policy' = [policy EXCEPT ![u] = S]
          /\ UNCHANGED <<required, active>>
     \/ \E u \in Present :
          /\ Begin("revoke", u) /\ policy' = [policy EXCEPT ![u] = {}]
          /\ UNCHANGED <<required, active>>
     \/ /\ Begin("revokeServer", "none") /\ policy' = [u \in Users |-> {}]
        /\ UNCHANGED <<required, active>>
     \/ \E x \in Channels \cap load.channels :
          /\ Begin("removeChannel", x) /\ policy' = [u \in Users |-> policy[u] \ {x}]
          /\ UNCHANGED <<required, active>>
     \/ \E x \in Channels \cap load.channels :
          /\ Begin("reset", x)
          /\ required' = (required \cup {x}) \ (required \cap {x})
          /\ UNCHANGED <<policy, active>>
     \/ \E u \in active \cap Present :
          /\ Begin("revalidate", u) /\ active' = active \ {u}
          /\ UNCHANGED <<policy, required>>
  /\ UNCHANGED <<load, roster, nextGeneration, sessions, registered, done, access, inServer,
                 reader, teardown, failures>>

Ask ==
  /\ admin.at = "committed" /\ admin' = [admin EXCEPT !.at = "wanting"]
  /\ UNCHANGED <<load, roster, nextGeneration, sessions, registered, done, access, inServer,
                 reader, teardown, failures, changes, tables>>

(* The connections an operation visits, one by one.                        *)
Visits ==
  CASE admin.op = "revoke" -> {c \in registered : Owner(c) = admin.arg}
    [] admin.op = "reset" -> byChannel[admin.arg]
    [] OTHER -> {c \in registered : inServer[c]}

(* channelAccessMu.Lock() waits for the joins under way; the mutant takes  *)
(* it shared.                                                              *)
JoinsIgnored == TRUE
NobodyJoins == \A c \in Conns : ~InGate(c)

(* reloadChannelAccess installs the committed policy on every visited      *)
(* connection, the empty one when the database fails.  One query loads the *)
(* access of all users (the batch loader that cmd/api/main.go installs),   *)
(* so it fails for all of them or for none.                                *)
Reload(failed) ==
  access' = [c \in Conns |-> IF c \notin Visits THEN access[c]
                             ELSE IF failed THEN {} ELSE policy[Owner(c)]]

AdminEnter ==
  /\ admin.at = "wanting"
  /\ \/ /\ admin.op \in {"refresh", "revoke"} /\ NobodyJoins
        /\ \E failed \in {FALSE} \cup {"dberror" \in load.ops} :
             /\ Reload(failed)
             /\ admin' = [admin EXCEPT !.at = "next", !.todo = Visits, !.failed = failed]
        /\ UNCHANGED inServer
     \/ /\ admin.op = "revokeServer" /\ NobodyJoins
        /\ \E failed \in {FALSE} \cup {"dberror" \in load.ops} :
             /\ Reload(failed)
             /\ inServer' = [c \in Conns |-> inServer[c] /\ (failed \/ c \notin Visits)]
             /\ admin' = [admin EXCEPT !.at = IF failed THEN "next" ELSE "removing",
                                       !.todo = IF failed THEN Visits ELSE {},
                                       !.failed = failed]
     \/ /\ admin.op = "removeChannel" /\ NobodyJoins
        /\ admin' = [admin EXCEPT !.at = "removing"]
        /\ UNCHANGED <<access, inServer>>
     \/ /\ admin.op = "reset"
        /\ admin' = [admin EXCEPT !.at = "next", !.todo = Visits]
        /\ UNCHANGED <<access, inServer>>
  /\ UNCHANGED <<load, roster, nextGeneration, sessions, registered, done, reader, teardown,
                 failures, changes, tables>>

(* RevalidateVoiceE2EE looks the user's connection up under the lock.      *)
Revalidate ==
  /\ admin.at = "wanting" /\ admin.op = "revalidate" /\ ~InTransition(admin.arg)
  /\ LET c == byUser[admin.arg]
     IN IF c # "none" /\ byClient[c].e2ee /\ admin.arg \notin active
        THEN admin' = [admin EXCEPT !.at = "leaving", !.conn = c, !.todo = {c}]
        ELSE admin' = NoAdmin
  /\ UNCHANGED <<load, roster, nextGeneration, sessions, registered, done, access, inServer,
                 reader, teardown, failures, changes, tables>>

(* Whether the operation takes the visited connection out of voice.        *)
Removes(c) == admin.op = "refresh" => In(c) /\ byClient[c].ch \notin access[c]

AdminNext(c) ==
  /\ admin.at = "next" /\ c \in admin.todo /\ ~admin.failed
  /\ admin.op \in Guarded => TransitionFree(c)
  /\ admin' = IF Removes(c) THEN [admin EXCEPT !.at = "leaving", !.conn = c]
              ELSE [admin EXCEPT !.todo = @ \ {c}]
  /\ UNCHANGED <<load, roster, nextGeneration, sessions, registered, done, access, inServer,
                 reader, teardown, failures, changes, tables>>

VisitedAgain(c) == [admin EXCEPT !.at = "next", !.conn = "none"]
Visited(c) == [admin EXCEPT !.at = "next", !.conn = "none", !.todo = @ \ {c}]

AdminLeave ==
  /\ admin.at = "leaving"
  /\ leave(admin.conn)
  /\ IF In(admin.conn)
     THEN admin' = [admin EXCEPT !.at = "closing"] /\ UNCHANGED inServer
     ELSE /\ admin' = Visited(admin.conn)
          /\ inServer' = [inServer EXCEPT ![admin.conn] = @ /\ admin.op # "revoke"]
  /\ UNCHANGED <<load, nextGeneration, sessions, registered, done, access, reader, teardown,
                 failures, changes, tables>>

AdminClose ==
  /\ admin.at = "closing"
  /\ CloseSession(admin.conn) /\ admin' = Visited(admin.conn)
  /\ inServer' = [inServer EXCEPT ![admin.conn] = @ /\ admin.op # "revoke"]
  /\ UNCHANGED <<load, roster, nextGeneration, registered, done, access, reader, teardown,
                 failures, changes, tables>>

(* A connection whose permissions could not be loaded is unregistered.     *)
AdminUnregisters(c) ==
  /\ admin.at = "next" /\ c \in admin.todo /\ admin.failed
  /\ \/ /\ teardown[c] = "no" /\ CloseClient(c) /\ UNCHANGED admin
     \/ /\ teardown[c] = "gone" /\ admin' = Visited(c) /\ UNCHANGED <<done, teardown>>
  /\ UNCHANGED <<load, roster, nextGeneration, sessions, registered, access, inServer, reader,
                 failures, changes, tables>>

(* RevokeServer and RemoveChannel empty the roster first.                  *)
AdminRemove ==
  /\ admin.at = "removing"
  /\ \/ /\ admin.op = "removeChannel" /\ removeChannel(admin.arg)
        /\ admin' = [admin EXCEPT !.at = "removed", !.todo = byChannel[admin.arg]]
     \/ /\ admin.op = "revokeServer" /\ removeServer
        /\ admin' = [admin EXCEPT !.at = "removed", !.todo = {c \in Conns : In(c)}]
  /\ UNCHANGED <<load, nextGeneration, sessions, registered, done, access, inServer, reader,
                 teardown, failures, changes, tables>>

AdminCloseRemoved(c) ==
  /\ admin.at = "removed" /\ c \in admin.todo
  /\ CloseSession(c) /\ admin' = [admin EXCEPT !.todo = @ \ {c}]
  /\ UNCHANGED <<load, roster, nextGeneration, registered, done, access, inServer, reader,
                 teardown, failures, changes, tables>>

AdminEnd ==
  /\ admin.at \in {"next", "removed"} /\ admin.todo = {}
  /\ admin' = IF admin.at = "next" /\ admin.op = "revokeServer"
              THEN [admin EXCEPT !.at = "removing"] ELSE NoAdmin
  /\ UNCHANGED <<load, roster, nextGeneration, sessions, registered, done, access, inServer,
                 reader, teardown, failures, changes, tables>>
----------------------------------------------------------------------------
JoinStep(c) ==
  \/ LockJoin(c) \/ Validate(c) \/ EnterRoster(c) \/ CloseReplaced(c)
  \/ QueueJoined(c) \/ MediaLeave(c) \/ MediaInstall(c) \/ Offer(c)
  \/ UndoJoin(c) \/ ReaderCloses(c)
TeardownStep(c) == Detach(c) \/ TeardownLeave(c) \/ TeardownClose(c)
FailureStep(f) == FailureLock(f) \/ FailureLeave(f) \/ FailureClose(f)
AdminStep ==
  \/ Ask \/ AdminEnter \/ Revalidate \/ AdminLeave \/ AdminClose \/ AdminRemove
  \/ AdminEnd
  \/ \E c \in Conns : AdminNext(c) \/ AdminUnregisters(c) \/ AdminCloseRemoved(c)

MediaFails(c) == ("media" \in load.ops \/ sessions[c].lost) /\ SessionFails(c)

Next ==
  \/ \E c \in Conns : \/ BeginJoin(c) \/ JoinStep(c) \/ LeaveVoice(c) \/ ReaderStops(c)
                      \/ MediaFails(c) \/ Drop(c) \/ TeardownStep(c)
  \/ \E f \in failures : FailureStep(f)
  \/ Commit \/ AdminStep

Spec == Init /\ [][Next]_vars

(* A goroutine that has started goes on, a session whose first offer could *)
(* not be sent fails, a connection whose reader stopped is torn down.      *)
(* Strong fairness where a goroutine waits for a sync.Mutex, which serves  *)
(* its waiters in order once one has waited too long.                      *)
FailureOf(c) == \E f \in failures : f.conn = c /\ FailureStep(f)
Fairness ==
  /\ \A c \in Conns : /\ SF_vars(JoinStep(c)) /\ WF_vars(TeardownStep(c))
                      /\ SF_vars(FailureOf(c))
                      /\ WF_vars(sessions[c].lost /\ SessionFails(c))
                      /\ WF_vars(reader[c].at = "stopped" /\ Drop(c))
  /\ SF_vars(AdminStep)
FairSpec == Spec /\ Fairness

----------------------------------------------------------------------------
ReaderStages == {"idle", "stopped", "leaving", "checked", "locked", "validated",
                 "replacing", "announced", "media", "reserving", "offering",
                 "undoing", "undone"}

(* The maps of voiceState.                                                 *)
RosterType ==
  /\ byClient \in [Conns -> [gen : Nat, ch : Channels \cup {"none"}, e2ee : BOOLEAN]]
  /\ byChannel \in [Channels -> SUBSET Conns]
  /\ byUser \in [Users -> Conns \cup {"none"}]
  /\ nextGeneration \in Nat
  /\ \A c \in Conns : In(c) => byClient[c].ch \in Channels

(* A join knows its channel, a callback its connection, an operation its   *)
(* subject.                                                                *)
Readers == [at : ReaderStages, ch : Channels \cup {"none"}, e2ee : BOOLEAN,
            old : Conns \cup {"none"}]
Subjects ==
  /\ reader \in [Conns -> Readers]
  /\ \A c \in Conns : InGate(c) => reader[c].ch \in Channels
  /\ \A f \in failures :
       f.conn \in Conns /\ f = [conn |-> f.conn, gen |-> f.gen, at |-> f.at]
  /\ DOMAIN admin = {"op", "at", "arg", "conn", "failed", "todo"}
  /\ admin.at \in {"leaving", "closing"} => admin.conn \in Conns
  /\ admin.op \in {"removeChannel", "reset"} => admin.arg \in Channels
  /\ admin.op = "revalidate" => admin.arg \in Users
  /\ policy \in [Users -> SUBSET Channels] /\ active \subseteq Users

(* The three maps of voiceState agree: a connection is in the room its     *)
(* entry names and in no other, and byUser names it; so a user takes part  *)
(* in at most one channel over at most one connection.                     *)
RosterExact ==
  /\ \A c \in Conns : In(c) <=> byUser[Owner(c)] = c
  /\ \A c \in Conns, x \in Channels : c \in byChannel[x] <=> In(c) /\ byClient[c].ch = x

(* A failure callback that passed its generation check still speaks of the *)
(* current join when it removes the participant: mediaTransitions keeps a  *)
(* newer join out between the check and the removal.                       *)
FailureStillCurrent ==
  \A f \in failures : f.at = "leaving" /\ In(f.conn) => byClient[f.conn].gen = f.gen

(* The inductive invariant of the two: byUser names a connection of the    *)
(* user, and a callback and a join never hold the user's lock together.    *)
UsersOwn == \A u \in Users : byUser[u] # "none" => Owner(byUser[u]) = u
LockExcludes ==
  \A f \in failures, c \in Conns :
    f.at # "waiting" /\ Owner(c) = Owner(f.conn) => reader[c].at \notin {"validated", "replacing"}
VoiceInv ==
  /\ RosterType /\ Subjects /\ UsersOwn /\ RosterExact /\ LockExcludes /\ FailureStillCurrent

(* ResetVoiceChannel takes neither lock and RevalidateVoiceE2EE only       *)
(* mediaTransitions, so a join may be half way when they run.              *)
NoReset == load.ops \cap {"reset", "revalidate"} = {}

(* A step that ends a session of the current join of its connection is the *)
(* failure of that session, or the join giving up.                         *)
EndsOwnSession ==
  \A c \in Conns :
    /\ sessions[c].on /\ ~sessions'[c].on
    /\ In(c) /\ byClient[c].gen = sessions[c].gen
    => \/ reader[c].at = "offering"
       \/ \E f \in failures' \ failures : f.conn = c /\ f.gen = sessions[c].gen

(* No delayed leave, replacement, failure, revocation or teardown that was *)
(* about an older join closes the session of a newer one (where no channel *)
(* is reset meanwhile; a reset may).                                       *)
SessionServesJoin == [][NoReset => EndsOwnSession]_vars

(* Nothing that concerns the voice of c is under way.                      *)
Settled(c) ==
  /\ reader[c] = Idle /\ ~done[c]
  /\ \A d \in Conns : reader[d].old # c
  /\ \A f \in failures : f.conn # c
  /\ admin.conn # c /\ ~(admin.at = "removed" /\ c \in admin.todo)

(* Between operations the participants of the roster are exactly the       *)
(* connections with a media session, in the same channel and for the same  *)
(* join (where no channel is reset and no device revoked meanwhile).       *)
MediaFollowsRoster(c) ==
  NoReset /\ Settled(c) =>
    /\ In(c) <=> sessions[c].on
    /\ In(c) => sessions[c].gen = byClient[c].gen /\ sessions[c].ch = byClient[c].ch

(* Media and roster tell the same story: at rest they name the same joins, *)
(* and on the way no step takes the session of a newer join for an older.  *)
MediaMatchesRoster == [](\A c \in Conns : MediaFollowsRoster(c)) /\ SessionServesJoin

(* Once a change of permissions, a removal from the server or a deletion   *)
(* has returned, no open connection is in voice, in the roster or with a   *)
(* session, in a channel its user may not enter, not even by a join that   *)
(* was under way.  (A session that a reset has left without its roster     *)
(* entry is not found by a later revocation, which goes by the roster.)    *)
AccessRespected ==
  admin = NoAdmin => \A c \in Conns : ~done[c] =>
    /\ In(c) => byClient[c].ch \in policy[Owner(c)]
    /\ NoReset /\ Settled(c) /\ sessions[c].on => sessions[c].ch \in policy[Owner(c)]

(* Once the revocation of a device has returned, no participant uses it.   *)
RevokedDeviceLeaves ==
  admin.op # "revalidate" =>
    \A c \in Conns : In(c) /\ byClient[c].e2ee => Owner(c) \in active

(* What was revoked stays revoked, for channels and for devices.           *)
RevocationsHold == AccessRespected /\ RevokedDeviceLeaves

(* Every join comes to an end: the locks it waits for are released.        *)
JoinFinishes == \A c \in Conns : InGate(c) ~> ~InGate(c)

(* The media session of a connection that closed goes away and none comes  *)
(* after it, whatever the connection's last join was doing.                *)
DisconnectEndsMedia == \A c \in Conns : done[c] ~> [](~sessions[c].on)

(* An administrative operation comes to an end.                            *)
RevocationFinishes == (admin # NoAdmin) ~> (admin = NoAdmin)

(* Nobody waits for ever on channelAccessMu, voiceJoins and                *)
(* mediaTransitions, and a closed connection loses its media session for   *)
(* good.                                                                   *)
EveryoneProceeds == JoinFinishes /\ RevocationFinishes /\ DisconnectEndsMedia

----------------------------------------------------------------------------
(* What comments of the code say and these interleavings refute.           *)

(* "A join validated before a revoke must not appear afterwards": when the *)
(* Unregister of a connection and its reader have ended, it is not in the  *)
(* roster.                                                                 *)
RevokedJoinStaysOut ==
  \A c \in Conns : teardown[c] = "gone" /\ reader[c].at = "stopped" => ~In(c)

(* docs/reliability.md: "Delayed teardown callbacks cannot disconnect a    *)
(* newer join using the same WebSocket": SessionServesJoin without the     *)
(* restriction.                                                            *)
NewerJoinUndisturbed == [][EndsOwnSession]_vars

(* "A policy change reconnects the channel so nobody mixes encrypted and   *)
(* plain audio": between operations every participant is in the mode its   *)
(* channel requires.                                                       *)
NoMixedAudio ==
  admin = NoAdmin => \A c \in Conns : Settled(c) /\ In(c) =>
    (byClient[c].e2ee <=> byClient[c].ch \in required)

(* RevalidateVoiceE2EE "applies explicit revocation and LRU device eviction*)
(* to the current call as well as future joins": after it no connection of *)
(* the user has a session that was made with the device.                   *)
RevokedDeviceLosesMedia ==
  admin = NoAdmin => \A c \in Conns :
    Settled(c) /\ sessions[c].on /\ sessions[c].e2ee => Owner(c) \in active

=============================================================================
