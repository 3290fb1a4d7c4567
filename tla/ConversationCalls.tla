-------------------------- MODULE ConversationCalls --------------------------
(***************************************************************************)
(* Private conversations, the calls held in them and the device keys the   *)
(* calls are encrypted with: internal/community/{conversations,contact,    *)
(* calls,call_devices}.go and internal/e2ee.                               *)
(*                                                                         *)
(* A request commits one transaction and then, in steps of its own, reads  *)
(* the call again (readCall), hands it to the members' connections         *)
(* (emitConversation) and returns it in its response.  Requests of several *)
(* windows interleave at those steps, so snapshots arrive in any order;    *)
(* clients keep the one with the highest revision, as                      *)
(* docs/community-features.md asks of them.                                *)
(***************************************************************************)
EXTENDS Integers, FiniteSets, Sequences

CONSTANTS
    Users,
    Groups,              \* identities for conversations of three and more
    Sessions,            \* the random session ids of client windows
    Devices,             \* e2ee device ids
    Strangers,           \* pairs {a, b} of users who share no server
    MaxActiveDevices,    \* e2ee.MaxActiveDevices
    Loads,               \* workloads: which requests a behaviour may make
    MaxRequests          \* bound on the requests of one behaviour

VARIABLES
    load,        \* the workload of this behaviour
    requests,    \* requests made so far
    members,     \* conversation_members: conversation -> set of users
    blocks,      \* user_blocks: pairs <<user, blocked>>
    privacy,     \* message_privacy.mode
    banned,      \* users in user_bans
    devices,     \* active keys of a user, least recently used first
    revoked,     \* keys of a user with revoked_at set
    leases,      \* conversation_call_members: user_id is UNIQUE
    revision,    \* conversations.call_revision
    working,     \* requests between their commit and their response
    shown,       \* the call state a user's client shows for a conversation
    lapsed       \* history: <<user, session>> whose heartbeat was ever late

vars == <<load, requests, members, blocks, privacy, banned, devices, revoked,
          leases, revision, working, shown, lapsed>>

contacts == <<blocks, privacy, banned>>
keys     == <<devices, revoked>>

Direct(a, b)  == {a, b}
Conversations == {Direct(a, b) : a \in Users, b \in Users} \cup Groups

(* Users are finitely many, a session id is never the absent one, and what  *)
(* a workload names exists.                                                 *)
ASSUME CallsAssumption ==
    /\ IsFiniteSet(Users)
    /\ "none" \notin Sessions
    /\ \A l \in Loads : /\ l.people \subseteq Users /\ l.open \subseteq Conversations
                        /\ l.sessions \subseteq Sessions /\ l.devices \subseteq Devices \cup {"none"}

NoLease == [conversation |-> {}, session |-> "none", device |-> "none", age |-> "none"]
NoDevice == "none"
Nothing == [revision |-> 0 - 1, members |-> {}]

(* heartbeat_at against now-45: later, equal, earlier. *)
Ages == {"fresh", "edge", "late"}

Active(u, d) == \E i \in DOMAIN devices[u] : devices[u][i] = d

Init ==
    /\ load \in Loads
    /\ requests = 0
    /\ members = [c \in Conversations |-> IF c \in load.open THEN load.people ELSE {}]
    /\ blocks = {}
    /\ privacy = [u \in Users |-> "shared"]
    /\ banned = {}
    /\ devices = [u \in Users |-> load.keys]
    /\ revoked = [u \in Users |-> {}]
    /\ leases = [u \in Users |-> NoLease]
    /\ revision = [c \in Conversations |-> 0]
    /\ working = {}
    /\ shown = [u \in Users |-> [c \in Conversations |-> Nothing]]
    /\ lapsed = {}

Request(kind) ==
    /\ kind \in load.kinds
    /\ requests < MaxRequests
    /\ requests' = requests + 1
    /\ UNCHANGED load

-----------------------------------------------------------------------------
(* Contacts. *)

activeActor(u) == u \notin banned

Shared(a, b) == {a, b} \notin Strangers

canContact(from, to) ==
    /\ activeActor(from)
    /\ to \notin banned
    /\ <<from, to>> \notin blocks /\ <<to, from>> \notin blocks
    /\ \/ privacy[to] = "everyone"
       \/ privacy[to] = "shared" /\ Shared(from, to)

conversationAccess(c, u) == u \in members[c]

(* Inside the transaction of a send or of a join: every other member must be *)
(* reachable, so one block or opt-out closes the conversation for the sender. *)
canSendTransaction(c, u) ==
    /\ activeActor(u)
    /\ conversationAccess(c, u)
    /\ members[c] # {u}
    /\ \A v \in members[c] \ {u} : canContact(u, v)

SetPrivacy(u, mode) ==
    /\ Request("privacy")
    /\ privacy' = [privacy EXCEPT ![u] = mode]
    /\ UNCHANGED <<members, blocks, banned, keys, leases, revision, working, shown, lapsed>>

block(u, v) ==
    /\ Request("block")
    /\ u # v
    /\ blocks' = IF <<u, v>> \in blocks THEN blocks \ {<<u, v>>} ELSE blocks \cup {<<u, v>>}
    /\ UNCHANGED <<members, privacy, banned, keys, leases, revision, working, shown, lapsed>>

-----------------------------------------------------------------------------
(* The call state and how it reaches the clients. *)

Lease(c) == {u \in Users : leases[u] # NoLease /\ leases[u].conversation = c}

readCall(c) ==
    [revision |-> revision[c],
     members  |-> {[user |-> u, session |-> leases[u].session, device |-> leases[u].device] :
                   u \in {v \in Lease(c) : leases[v].age = "fresh"}}]

(* The steps a request still has to take: read, emit, respond. *)
Task(c, u, emits, also) ==
    [step |-> "read", conversation |-> c, caller |-> u, emits |-> emits, also |-> also,
     state |-> Nothing]

Keep(old, new) == IF new.revision >= old.revision THEN new ELSE old

Tell(who, c, state) ==
    shown' = [u \in Users |-> IF u \in who THEN [shown[u] EXCEPT ![c] = Keep(@, state)] ELSE shown[u]]

Read(t) ==
    /\ t \in working /\ t.step = "read"
    /\ working' = (working \ {t})
                    \cup {[t EXCEPT !.step = IF t.emits THEN "emit" ELSE "respond",
                                    !.state = readCall(t.conversation)]}
    /\ UNCHANGED <<load, requests, members, contacts, keys, leases, revision, shown, lapsed>>

emitConversation(t) ==
    /\ t \in working /\ t.step = "emit"
    /\ Tell(members[t.conversation] \cup t.also, t.conversation, t.state)
    /\ working' = (working \ {t}) \cup {[t EXCEPT !.step = "respond"]}
    /\ UNCHANGED <<load, requests, members, contacts, keys, leases, revision, lapsed>>

Respond(t) ==
    /\ t \in working /\ t.step = "respond"
    /\ Tell({t.caller}, t.conversation, t.state)
    /\ working' = working \ {t}
    /\ UNCHANGED <<load, requests, members, contacts, keys, leases, revision, lapsed>>

callState(u, c) ==
    /\ Request("state")
    /\ conversationAccess(c, u)
    /\ working' = working \cup {Task(c, u, FALSE, {})}
    /\ UNCHANGED <<members, contacts, keys, leases, revision, shown, lapsed>>

-----------------------------------------------------------------------------
(* Membership. *)

(* A conversation of two is found again by its direct_key, which brings back *)
(* a member who left; a client that is told of a conversation it does not *)
(* have asks for the call in it (conversation.changed, then callState). *)
createConversation(u, others) ==
    /\ Request("create")
    /\ others # {} /\ u \notin others
    /\ \A v \in others : canContact(u, v)
    /\ \E c \in IF Cardinality(others) = 1 THEN {others \cup {u}}
                                             ELSE {g \in Groups : members[g] = {}} :
         /\ members' = [members EXCEPT ![c] = @ \cup others \cup {u}]
         /\ working' = working \cup {Task(c, v, FALSE, {}) : v \in (others \cup {u}) \ members[c]}
    /\ UNCHANGED <<contacts, keys, leases, revision, shown, lapsed>>

(* ON DELETE CASCADE takes the lease with the membership, and the trigger *)
(* counts the deletion. *)
DropLeases(gone) ==
    /\ leases' = [u \in Users |-> IF u \in gone THEN NoLease ELSE leases[u]]
    /\ revision' = [c \in Conversations |-> revision[c] + Cardinality(gone \cap Lease(c))]

LeaveLeaseBehind(u, c) ==
    /\ Request("leave")
    /\ u \in members[c]
    /\ members' = [members EXCEPT ![c] = @ \ {u}]
    /\ working' = working \cup {Task(c, u, TRUE, {u})}
    /\ UNCHANGED <<contacts, keys, leases, revision, shown, lapsed>>

leaveConversation(u, c) ==
    /\ Request("leave")
    /\ u \in members[c]
    /\ members' = [members EXCEPT ![c] = @ \ {u}]
    /\ DropLeases(IF u \in Lease(c) THEN {u} ELSE {})
    /\ working' = working \cup {Task(c, u, TRUE, {u})}
    /\ UNCHANGED <<contacts, keys, shown, lapsed>>

-----------------------------------------------------------------------------
(* Calls. *)

JoinUncounted(u, c, s, d, late) ==
    /\ leases' = [v \in Users |->
                    IF v = u THEN [conversation |-> c, session |-> s, device |-> d, age |-> "fresh"]
                    ELSE IF v \in late THEN NoLease ELSE leases[v]]
    /\ revision' = [k \in Conversations |->
                     revision[k] + Cardinality(late \cap Lease(k))
                       + (IF k = c /\ (u \notin Lease(c) \/ u \in late) THEN 1 ELSE 0)]

(* The upsert of a lease, after the late ones of every conversation were *)
(* purged: the triggers count the purges, an insert, and a new session. *)
Upsert(u, c, s, d, late) ==
    /\ leases' = [v \in Users |->
                    IF v = u THEN [conversation |-> c, session |-> s, device |-> d, age |-> "fresh"]
                    ELSE IF v \in late THEN NoLease ELSE leases[v]]
    /\ revision' = [k \in Conversations |->
                     revision[k] + Cardinality(late \cap Lease(k))
                       + (IF k = c /\ (u \notin Lease(c) \/ u \in late \/ leases[u].session # s)
                          THEN 1 ELSE 0)]

DeviceUnchecked(u, d) == TRUE

DeviceAccepted(u, d) == d = NoDevice \/ Active(u, d)

joinCall(u, c, s, d, replace) ==
    LET late     == {v \in Users : leases[v].age = "late"}
        previous == IF u \in Lease(c) \ late THEN leases[u] ELSE NoLease
    IN  /\ Request("join")
        /\ canSendTransaction(c, u)
        /\ DeviceAccepted(u, d)
        /\ u \notin UNION {Lease(k) \ late : k \in Conversations \ {c}}
        /\ previous # NoLease /\ previous.session # s => replace
        /\ Upsert(u, c, s, d, late)
        /\ working' = working \cup
                        {Task(c, u, previous.session # s \/ previous.device # d, {})}
        /\ UNCHANGED <<members, contacts, keys, shown, lapsed>>

leaveCall(u, c, s) ==
    /\ Request("hangup")
    /\ conversationAccess(c, u)
    /\ DropLeases(IF u \in Lease(c) /\ leases[u].session = s THEN {u} ELSE {})
    /\ working' = working \cup {Task(c, u, TRUE, {})}
    /\ UNCHANGED <<members, contacts, keys, shown, lapsed>>

(* A heartbeat that does not come: the lease turns 45 seconds old, then older. *)
Lapse(u) ==
    /\ "lapse" \in load.kinds
    /\ leases[u].age \in {"fresh", "edge"}
    /\ leases' = [leases EXCEPT ![u].age = IF @ = "fresh" THEN "edge" ELSE "late"]
    /\ lapsed' = lapsed \cup {<<u, leases[u].session>>}
    /\ UNCHANGED <<load, requests, members, contacts, keys, revision, working, shown>>

-----------------------------------------------------------------------------
(* Device keys. *)

(* Once the key transaction has committed, the handler runs *)
(* RevokeInvalidCallDevices for the user. *)
DevicesChanged(u) ==
    working' = working \cup {[Task({}, u, FALSE, {}) EXCEPT !.step = "revalidate"]}

Register(u, d) ==
    LET at == {i \in DOMAIN devices[u] : devices[u][i] = d}
        kept == IF at # {} THEN SelectSeq(devices[u], LAMBDA e : e # d)
                ELSE IF Len(devices[u]) >= MaxActiveDevices
                     THEN SubSeq(devices[u], Len(devices[u]) - MaxActiveDevices + 2, Len(devices[u]))
                     ELSE devices[u]
    IN  /\ Request("register")
        /\ d \notin revoked[u]
        /\ devices' = [devices EXCEPT ![u] = Append(kept, d)]
        /\ revoked' = [revoked EXCEPT ![u] =
                         @ \cup {e \in Devices : Active(u, e) /\ e # d
                                                  /\ \A i \in DOMAIN kept : kept[i] # e}]
        /\ DevicesChanged(u)
        /\ UNCHANGED <<members, contacts, leases, revision, shown, lapsed>>

RevokeQuietly(u, d) ==
    /\ Request("revoke")
    /\ Active(u, d)
    /\ devices' = [devices EXCEPT ![u] = SelectSeq(@, LAMBDA e : e # d)]
    /\ revoked' = [revoked EXCEPT ![u] = @ \cup {d}]
    /\ UNCHANGED <<members, contacts, leases, revision, working, shown, lapsed>>

Revoke(u, d) ==
    /\ Request("revoke")
    /\ Active(u, d)
    /\ devices' = [devices EXCEPT ![u] = SelectSeq(@, LAMBDA e : e # d)]
    /\ revoked' = [revoked EXCEPT ![u] = @ \cup {d}]
    /\ DevicesChanged(u)
    /\ UNCHANGED <<members, contacts, leases, revision, shown, lapsed>>

RevokeInvalidCallDevices(t) ==
    LET u    == t.caller
        gone == {v \in {u} : leases[v].device # NoDevice /\ ~Active(v, leases[v].device)}
    IN  /\ t \in working /\ t.step = "revalidate"
        /\ DropLeases(gone)
        /\ working' = (working \ {t})
                        \cup {Task(leases[v].conversation, v, TRUE, {}) : v \in gone}
        /\ UNCHANGED <<load, requests, members, contacts, keys, shown, lapsed>>

Ban(u) ==
    /\ Request("ban")
    /\ banned' = banned \cup {u}
    /\ UNCHANGED <<members, blocks, privacy, keys, leases, revision, working, shown, lapsed>>

-----------------------------------------------------------------------------
Calls(u) ==
    \E c \in load.open :
      \/ \E s \in load.sessions, d \in load.devices, replace \in BOOLEAN :
           joinCall(u, c, s, d, replace)
      \/ \E s \in load.sessions : leaveCall(u, c, s)
      \/ callState(u, c)
      \/ leaveConversation(u, c)

Next ==
    \/ \E u \in load.people :
         \/ Calls(u)
         \/ \E others \in SUBSET load.people : createConversation(u, others)
         \/ \E mode \in {"none", "everyone"} : SetPrivacy(u, mode)
         \/ \E v \in load.people : block(u, v)
         \/ \E d \in load.devices \ {NoDevice} : Register(u, d) \/ Revoke(u, d)
         \/ Ban(u)
    \/ \E u \in Users : Lapse(u)
    \/ \E t \in working :
         Read(t) \/ emitConversation(t) \/ Respond(t) \/ RevokeInvalidCallDevices(t)

Spec == Init /\ [][Next]_vars

-----------------------------------------------------------------------------
Settled(c) == \A t \in working : t.step = "revalidate" \/ t.conversation # c

Seen(u, c) == {<<m.user, m.session>> : m \in shown[u][c].members}

(* "Existing revisions keep out-of-order snapshots from restoring removed     *)
(* participants" (docs/call-membership.md:7): once the requests about a call  *)
(* have been answered, a member's client shows nobody who has hung up, left   *)
(* the conversation, moved to another window or lost their device, and misses *)
(* nobody who is in the call; a lease that was ever 45 seconds without a      *)
(* heartbeat is excepted, since it is dropped and revived without an event.   *)
CallShown ==
    \A c \in Conversations : Settled(c) => \A u \in members[c] : shown[u][c] # Nothing =>
      LET holders == {<<v, leases[v].session>> : v \in Lease(c)}
      IN  /\ Seen(u, c) \subseteq holders \cup lapsed
          /\ holders \subseteq Seen(u, c) \cup lapsed
          /\ \A m \in shown[u][c].members : <<m.user, m.session>> \in lapsed \/ m.user \in members[c]

(* Nobody encrypts a call with a key that was revoked, explicitly or because  *)
(* a newer device pushed it out, once RevokeInvalidCallDevices has run: a     *)
(* join that races with the revocation is refused or removed.                 *)
RevokedDeviceHangsUp ==
    \A u \in Users :
      \/ leases[u].device = NoDevice
      \/ Active(u, leases[u].device)
      \/ \E t \in working : t.step = "revalidate" /\ t.caller = u

(* Who is in a call: everyone's client shows it truly once the requests    *)
(* about it are answered (joinCall, leaveCall, leaveConversation), and no  *)
(* lease keeps a revoked device (RevokeInvalidCallDevices).                *)
CallsTrue == CallShown /\ RevokedDeviceHangsUp

(* "A late response or event must not replace a fresher list of members"      *)
(* (docs/community-features.md:136, in Russian there), device keys included.  *)
DevicesShown ==
    \A c \in Conversations : Settled(c) => \A u \in members[c] : shown[u][c] # Nothing =>
      \A m \in shown[u][c].members : m.user \in Lease(c) /\ leases[m.user].session = m.session
        => leases[m.user].device = m.device \/ <<m.user, m.session>> \in lapsed
=============================================================================
