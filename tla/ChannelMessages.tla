-------------------------- MODULE ChannelMessages --------------------------
(***************************************************************************)
(* The messages of one channel: sending with retry keys, replies, comment  *)
(* threads, forwards, edits, deletions, pins and reactions as the          *)
(* transactions of internal/message/sqlite run them, with the foreign keys *)
(* and triggers of migrations 20, 24 and 25; the change journal clients    *)
(* catch up from and its pruning; and the publishing of events after the   *)
(* commit, which handlers of different requests do in any order.           *)
(*                                                                         *)
(* A write transaction holds SQLite's writer from its start                *)
(* (storage.BeginWrite), so it is one action. The several journal rows a   *)
(* transaction writes for one message are one row here.                    *)
(***************************************************************************)
EXTENDS Integers, Sequences, FiniteSets

CONSTANTS
    Users, Contents, Emoji,
    Loads,          \* the workloads, see Init
    syncPageSize,   \* journal rows of one sync page (200 in the code)
    ResetSize,      \* messages of a reset page (50)
    ReactionLimit,  \* distinct emoji of one message (20)
    NoKey           \* a request without client_message_id

ASSUME MessagesAssumption ==
    /\ syncPageSize \in Nat \ {0} /\ ResetSize \in Nat \ {0}
    /\ \A l \in Loads : NoKey \notin l.keys

VARIABLES
    load,       \* [kind, comments, slow, ops, keys, ids, rows, live]
    role,       \* server_members.role of each user, "none" for a stranger
    readable,   \* who the channel_accessible_members view names
    silenced,   \* members under a timeout: no Publish bit, no new reactions
    messages,   \* id -> the row of the messages table
    lastID,     \* the AUTOINCREMENT sequence of messages
    pins,       \* the message_pins rows
    reactions,  \* the message_reactions rows
    keys,       \* message_send_keys: <<user, key>> -> [hash, id]
    minted,     \* history: <<user, key>> -> the ids a send under it created
    changes,    \* the message id of every journal row, at its sequence number
    kept,       \* the sequence numbers not pruned yet
    floor,      \* message_sync_state.floor
    clock,      \* unixepoch()
    pending,    \* what handlers have committed and not published yet
    live,       \* what a subscribed client shows, by highest revision
    at, window, horizon  \* a syncing client: its cursor, history, lower end

db == <<role, readable, silenced, messages, lastID, pins, reactions, keys,
        minted, changes, kept, floor, clock>>
client == <<at, window, horizon>>
vars == <<load, db, pending, live, client>>

Ids == DOMAIN messages
Moderators == {"owner", "admin"}
Comments(id) == {i \in Ids : messages[i].root = id}

(* A member who may read the channel. *)
requireServerMember(u) == role[u] # "none"
requireMessageChannel(u) == u \in readable
Member(u) == requireServerMember(u) /\ requireMessageChannel(u)

(* permissions.Allowed for Publish, and for ManageMessages, which without   *)
(* custom roles is what owners and admins have.                            *)
MayPublish(u) == u \notin silenced
MayModerate(u) == role[u] \in Moderators

Init ==
    /\ load \in Loads
    /\ role = load.roles
    /\ readable = {u \in Users : role[u] # "none"}
    /\ silenced = {} /\ messages = <<>> /\ lastID = 0
    /\ pins = {} /\ reactions = {} /\ keys = <<>>
    /\ minted = [k \in Users \X load.keys |-> {}]
    /\ changes = <<>> /\ kept = {} /\ floor = 0 /\ clock = 0
    /\ pending = {} /\ live = <<>>
    /\ at = 0 /\ window = <<>> /\ horizon = 0

Can(op) == op \in load.ops

(***************************************************************************)
(* What a reader is shown of a message: hydrateInteractions adds the       *)
(* quoted text, or that the quoted message is gone, the reactions and the  *)
(* number of comments to the row.                                          *)
(***************************************************************************)
Quote(m) == IF m.reply # 0 THEN messages[m.reply].content
            ELSE IF m.original # 0 THEN "deleted" ELSE "none"
hydrateInteractions(id) ==
    [quote |-> Quote(messages[id]), comments |-> Cardinality(Comments(id)),
     reactions |-> {<<r.user, r.emoji>> : r \in {x \in reactions : x.id = id}}]
View(id) == [content |-> messages[id].content, forward |-> messages[id].forward,
             revision |-> messages[id].revision, rest |-> hydrateInteractions(id)]

(***************************************************************************)
(* The triggers. Every change of content or revision, every insertion and  *)
(* every deletion writes a journal row; their order within a transaction   *)
(* does not matter.                                                        *)
(***************************************************************************)
ListOf(touched) == CHOOSE f \in [1..Cardinality(touched) -> touched] :
    \A i \in touched : \E s \in DOMAIN f : f[s] = i
Journal(touched) ==
    /\ changes' = changes \o ListOf(touched)
    /\ kept' = kept \cup (Len(changes) + 1)..(Len(changes) + Cardinality(touched))
Bump(m, ids) == [i \in DOMAIN m |->
    IF i \in ids THEN [m[i] EXCEPT !.revision = @ + 1] ELSE m[i]]
(* There is room for one more transaction of this workload. *)
Room == Len(changes) < load.rows

(***************************************************************************)
(* Publishing. A handler's transaction leaves its events in pending; the   *)
(* comment count of a thread's root is read again before it is announced.  *)
(* Without a subscribed client publishing reaches nobody.                  *)
(***************************************************************************)
Send(events) == pending' = IF load.live THEN pending \cup events ELSE pending
Snapshot(m, id) == [to |-> "client", id |-> id, content |-> m[id].content, revision |-> m[id].revision]
publishCommentRoot(id) == IF id = 0 THEN {} ELSE {[to |-> "root", id |-> id, after |-> lastID]}

(* PublishMessageCreated, PublishMessageUpdated, PublishMessagePinned: the *)
(* client keeps the highest revision it has seen of each message.          *)
PublishMessage(e) ==
    /\ e \in pending /\ e.to = "client"
    /\ pending' = pending \ {e}
    /\ live' = IF e.id \in DOMAIN live /\ live[e.id].revision >= e.revision THEN live
               ELSE [i \in DOMAIN live \cup {e.id} |-> IF i = e.id THEN e ELSE live[i]]
    /\ UNCHANGED <<load, db, client>>

(* GetPost: the root as it is now, unless it has been deleted. *)
GetPost(e) ==
    /\ e \in pending /\ e.to = "root"
    /\ pending' = (pending \ {e}) \cup
           (IF e.id \in Ids THEN {Snapshot(messages, e.id)} ELSE {})
    /\ UNCHANGED <<load, db, live, client>>

(***************************************************************************)
(* CreateReferenced                                                        *)
(***************************************************************************)
(* News: a post is for publishers, a reply needs comments to be enabled    *)
(* and goes to the thread of the message it answers.                       *)
requireNewsWrite(u, r) ==
    load.kind = "news" => IF r = 0 THEN MayModerate(u) ELSE load.comments
NewsThread(r) == IF load.kind # "news" \/ r \notin Ids THEN 0
                 ELSE IF messages[r].root # 0 THEN messages[r].root ELSE r

(* The last own message decides; moderators are exempt. *)
checkSlowmode(u) ==
    LET own == {i \in Ids : messages[i].author = u}
    IN  ~MayModerate(u) => \A i \in own : (\A j \in own : j <= i) => clock >= messages[i].at + load.slow

ThreadValid(t, r) ==
    /\ t \in Ids /\ messages[t].root = 0 /\ load.kind # "voice"
    /\ load.kind = "news" => load.comments
    /\ r # 0 => r \in Comments(t) \cup {t}

(* The INSERT with its send key: one more message, one more comment of root. *)
Insert(u, k, hash, m) ==
    LET id == lastID + 1
        all == Bump([i \in Ids \cup {id} |-> IF i = id THEN m ELSE messages[i]], {m.root})
    IN  /\ messages' = all /\ lastID' = id
        /\ Journal({id} \cup ({m.root} \ {0}))
        /\ keys' = [p \in DOMAIN keys \cup ({<<u, k>>} \ {<<u, NoKey>>}) |->
                       IF p = <<u, k>> THEN [hash |-> hash, id |-> id] ELSE keys[p]]
        /\ minted' = [p \in DOMAIN minted |->
                         IF p = <<u, k>> THEN minted[p] \cup {id} ELSE minted[p]]
        /\ UNCHANGED <<load, role, readable, silenced, pins, reactions, floor, clock, live, client>>

(* A key already used answers the retry: the original message, a conflict  *)
(* when the request differs, "gone" when the message was deleted. None of  *)
(* the three writes.                                                       *)
KeyForgotten(u, k) == k # NoKey /\ <<u, k>> \in DOMAIN keys => keys[<<u, k>>].id = 0
SendKeyFree(u, k) == k = NoKey \/ <<u, k>> \notin DOMAIN keys

Row(u, c, r, t, f) == [author |-> u, content |-> c, revision |-> 1, reply |-> r,
                       original |-> r, root |-> t, forward |-> f, at |-> clock]

CreateReferenced(u, k, c, r, t) ==
    /\ Member(u) /\ SendKeyFree(u, k)
    /\ requireNewsWrite(u, r) /\ MayPublish(u) /\ checkSlowmode(u)
    /\ t # 0 => ThreadValid(t, r)
    /\ r # 0 => r \in Ids
    /\ Insert(u, k, <<c, r, t>>, Row(u, c, r, IF t # 0 THEN t ELSE NewsThread(r), "none"))

(* Normalize and Validate: text is required. *)
ValidContent(c) == c # ""

(* Service.Create: the commit; the message and its thread's root are       *)
(* announced afterwards. POST .../messages.                                *)
Create(u, k, c, r, t) ==
    /\ ValidContent(c)
    /\ CreateReferenced(u, k, c, r, t)
    /\ Send({Snapshot(messages', lastID')} \cup publishCommentRoot(messages'[lastID'].root))
create(u, k, c, r, t) == Can("create") /\ Room /\ lastID < load.ids /\ Create(u, k, c, r, t)

(* forwardSnapshot copies the source as it is now; the copy never changes. *)
forwardSnapshot(id) == messages[id].content

(* POST .../messages/forward *)
Forward(u, k, source) ==
    /\ Member(u) /\ SendKeyFree(u, k)
    /\ requireNewsWrite(u, 0) /\ MayPublish(u) /\ checkSlowmode(u)
    /\ source \in Ids
    /\ Insert(u, k, <<"forward", source>>,
              Row(u, forwardSnapshot(source), 0, 0, forwardSnapshot(source)))
    /\ Send({Snapshot(messages', lastID')})
forward(u, k, source) == Can("forward") /\ Room /\ lastID < load.ids /\ Forward(u, k, source)

(***************************************************************************)
(* Update: the author's own, not a forward; in a news channel a post needs *)
(* the right to post. The trigger messages_reply_edited announces the new  *)
(* text to the messages that quote it.                                     *)
(***************************************************************************)
UpdateQuietly(id, c) ==
    /\ messages' = [messages EXCEPT ![id].content = c, ![id].revision = @ + 1]
    /\ Journal({id})
UpdateUnnumbered(id, c) ==
    /\ messages' = [messages EXCEPT ![id].content = c]
    /\ Journal({id})
QuotesOf(id, c) == IF messages[id].content = c THEN {} ELSE {i \in Ids : messages[i].reply = id}
UpdateRow(id, c) ==
    /\ messages' = Bump([messages EXCEPT ![id].content = c], {id} \cup QuotesOf(id, c))
    /\ Journal({id} \cup QuotesOf(id, c))

UpdateMessage(u, id, c) ==
    /\ Member(u) /\ MayPublish(u) /\ id \in Ids
    /\ messages[id].root = 0 => requireNewsWrite(u, 0)
    /\ messages[id].forward = "none"
    /\ messages[id].author = u
    /\ UpdateRow(id, c)
    /\ UNCHANGED <<load, role, readable, silenced, lastID, pins, reactions, keys,
                   minted, floor, clock, live, client>>
Update(u, id, c) == ValidContent(c) /\ UpdateMessage(u, id, c) /\ Send({Snapshot(messages', id)})
update(u, id, c) == Can("update") /\ Room /\ Update(u, id, c)

(***************************************************************************)
(* Delete: the author or a moderator. Comments go with their post; quotes, *)
(* send keys, pins and reactions follow their foreign keys.                *)
(***************************************************************************)
DeleteMessage(u, id) ==
    LET gone == {id} \cup Comments(id)
        quoting == {i \in Ids \ gone : messages[i].reply \in gone}
        root == {messages[id].root} \ {0}
    IN  /\ Member(u) /\ id \in Ids
        /\ messages[id].author = u \/ MayModerate(u)
        /\ messages' = LET left == [i \in Ids \ gone |-> IF i \in quoting
                                       THEN [messages[i] EXCEPT !.reply = 0] ELSE messages[i]]
                       IN  Bump(Bump(left, quoting), root)
        /\ Journal(gone \cup quoting \cup root)
        /\ keys' = [p \in DOMAIN keys |->
                       IF keys[p].id \in gone THEN [keys[p] EXCEPT !.id = 0] ELSE keys[p]]
        /\ pins' = pins \ gone
        /\ reactions' = {r \in reactions : r.id \notin gone}
        /\ UNCHANGED <<load, role, readable, silenced, lastID, minted, floor, clock, live, client>>
Delete(u, id) == DeleteMessage(u, id) /\ Send(publishCommentRoot(messages[id].root))
deleteMessage(u, id) == Can("delete") /\ Room /\ Delete(u, id)

(***************************************************************************)
(* Pin, Unpin and SetReaction. Only a change is announced.                 *)
(***************************************************************************)
PinMessage(u, id) ==
    /\ Member(u) /\ MayModerate(u)
    /\ id \in Ids \ pins
    /\ pins' = pins \cup {id}
    /\ UNCHANGED <<load, role, readable, silenced, messages, lastID, reactions, keys,
                   minted, changes, kept, floor, clock, live, client>>
Pin(u, id) == PinMessage(u, id) /\ Send({Snapshot(messages, id)})
pin(u, id) == Can("pin") /\ Pin(u, id)

UnpinMessage(u, id) ==
    /\ Member(u) /\ MayModerate(u)
    /\ id \in pins
    /\ pins' = pins \ {id}
    /\ UNCHANGED <<load, role, readable, silenced, messages, lastID, reactions, keys,
                   minted, changes, kept, floor, clock, live, client>>
Unpin(u, id) == UnpinMessage(u, id) /\ Send({})
unpin(u, id) == Can("pin") /\ Unpin(u, id)

ReactionRoom(id, e) ==
    LET used == {r.emoji : r \in {x \in reactions : x.id = id}}
    IN  e \in used \/ Cardinality(used) < ReactionLimit
ReactMessage(u, id, e, active) ==
    LET row == [id |-> id, user |-> u, emoji |-> e]
    IN  /\ Member(u) /\ id \in Ids
        /\ IF active THEN u \notin silenced /\ ReactionRoom(id, e) /\ row \notin reactions
                     ELSE row \in reactions
        /\ reactions' = IF active THEN reactions \cup {row} ELSE reactions \ {row}
        /\ messages' = Bump(messages, {id})
        /\ Journal({id})
        /\ UNCHANGED <<load, role, readable, silenced, lastID, pins, keys, minted,
                       floor, clock, live, client>>
SetReaction(u, id, e, active) == ReactMessage(u, id, e, active) /\ Send({})
setReaction(u, id, e, active) == Can("react") /\ Room /\ SetReaction(u, id, e, active)

(***************************************************************************)
(* What other parts of the server do to the channel: a member leaves,      *)
(* loses or regains the channel, is timed out; time passes.                *)
(***************************************************************************)
(* The reactions of a member who leaves cascade, each with its trigger. *)
Depart(u) ==
    LET lost == {r \in reactions : r.user = u}
        ids == {r.id : r \in lost}
    IN  /\ Can("depart") /\ role[u] \notin {"none", "owner"}
        /\ role' = [role EXCEPT ![u] = "none"]
        /\ readable' = readable \ {u}
        /\ silenced' = silenced \ {u}
        /\ reactions' = reactions \ lost
        /\ messages' = Bump(messages, ids)
        /\ Journal(ids)
        /\ UNCHANGED <<load, lastID, pins, keys, minted, floor, clock, pending, live, client>>

Limit(u) ==
    /\ Can("restrict") /\ role[u] = "member"
    /\ \/ readable' = (readable \ {u}) \cup ({u} \ readable) /\ UNCHANGED silenced
       \/ silenced' = (silenced \ {u}) \cup ({u} \ silenced) /\ UNCHANGED readable
    /\ UNCHANGED <<load, role, messages, lastID, pins, reactions, keys, minted,
                   changes, kept, floor, clock, pending, live, client>>

Tick ==
    /\ load.slow > 0 /\ clock < load.slow
    /\ clock' = clock + 1
    /\ UNCHANGED <<load, role, readable, silenced, messages, lastID, pins, reactions,
                   keys, minted, changes, kept, floor, pending, live, client>>

(***************************************************************************)
(* GET .../messages/sync. A cursor behind the floor or ahead of the        *)
(* journal gets the newest messages and the current cursor; any other the  *)
(* next rows of the journal, each with its message as it is now.           *)
(***************************************************************************)
Newest(n) ==
    LET top == {i \in Ids : messages[i].root = 0}
    IN  {i \in top : Cardinality({j \in top : j > i}) < n}

Reset(after) == after < floor \/ after > Len(changes)

(* The client: a reset discards its history; otherwise tombstones first,   *)
(* then messages by revision (docs/client-reliability.md).                 *)
ResetPage ==
    LET page == Newest(ResetSize)
        more == Cardinality({i \in Ids : messages[i].root = 0}) > ResetSize
    IN  /\ window' = [i \in page |-> View(i)]
        /\ horizon' = IF more THEN CHOOSE i \in page : \A j \in page : i <= j ELSE 0
        /\ at' = Len(changes)

ChangesPage(after) ==
    LET next == {s \in kept : s > after /\ Cardinality({x \in kept : x > after /\ x < s}) < syncPageSize}
        more == {s \in kept : s > after} # next
        ids == {changes[s] : s \in next}
        gone == ids \ Ids
    IN  /\ window' = [i \in (DOMAIN window \ gone) \cup (ids \cap Ids) |->
                         IF i \in ids THEN View(i) ELSE window[i]]
        /\ at' = IF more THEN CHOOSE s \in next : \A x \in next : x <= s ELSE Len(changes)
        /\ UNCHANGED horizon

Sync ==
    /\ Can("sync")
    /\ IF Reset(at) THEN ResetPage ELSE at < Len(changes) /\ ChangesPage(at)
    /\ UNCHANGED <<load, db, pending, live>>

(* A client that starts over, or whose cursor is not of this journal. *)
Reconnect ==
    /\ Can("sync") /\ changes # <<>>
    /\ ResetPage
    /\ UNCHANGED <<load, db, pending, live>>

(* pruneChangeBatch: the oldest rows go and the floor follows, in one      *)
(* transaction. What is old enough is a matter of time, so any prefix.     *)
pruneNoFloor(s) == kept' = {x \in kept : x > s} /\ UNCHANGED floor
pruneChangeBatch(s) ==
    /\ kept' = {x \in kept : x > s}
    /\ floor' = IF s > floor THEN s ELSE floor
Prune(s) ==
    /\ Can("prune") /\ s \in kept
    /\ pruneChangeBatch(s)
    /\ UNCHANGED <<load, role, readable, silenced, messages, lastID, pins, reactions, keys,
                   minted, changes, clock, pending, live, client>>

Writes ==
    \/ \E u \in Users, k \in load.keys \cup {NoKey}, c \in Contents, r, t \in 0..lastID : create(u, k, c, r, t)
    \/ \E u \in Users, k \in load.keys \cup {NoKey}, i \in Ids : forward(u, k, i)
    \/ \E u \in Users, i \in Ids, c \in Contents : update(u, i, c)
    \/ \E u \in Users, i \in Ids : deleteMessage(u, i) \/ pin(u, i) \/ unpin(u, i)
    \/ \E u \in Users, i \in Ids, e \in Emoji, on \in BOOLEAN : setReaction(u, i, e, on)

Next ==
    \/ Writes
    \/ \E u \in Users : Depart(u) \/ Limit(u)
    \/ Tick
    \/ Sync \/ Reconnect
    \/ \E s \in kept : Prune(s)
    \/ \E e \in pending : PublishMessage(e) \/ GetPost(e)

Spec == Init /\ [][Next]_vars

(***************************************************************************)
(* A client that follows its cursor misses nothing: of every message       *)
(* without a journal row still to be read it shows what a reader is shown, *)
(* it shows no deleted message, and it has every post from its lower end   *)
(* on. Quoted texts, reactions and comment counts are part of what is      *)
(* shown, so every trigger that changes them must write a row, and pruning *)
(* must never drop a row a client would still be served from.              *)
(***************************************************************************)
SyncComplete ==
    LET unread == {changes[s] : s \in {x \in kept : x > at}}
    IN  ~Reset(at) =>
          /\ \A i \in DOMAIN window \ unread : i \in Ids /\ window[i] = View(i)
          /\ \A i \in Ids \ unread : messages[i].root = 0 /\ i >= horizon => i \in DOMAIN window

(***************************************************************************)
(* Nothing a reader is shown of a message changes without its revision     *)
(* growing: clients order what they receive by revision alone.             *)
(***************************************************************************)
RevisionAdvances ==
    [][\A i \in Ids \cap DOMAIN messages' :
         \/ View(i)' = View(i)
         \/ messages'[i].revision > messages[i].revision]_vars

(* A send key creates one message, also when that message has been deleted *)
(* before the retry arrives.                                               *)
SendOnce == \A p \in DOMAIN minted : Cardinality(minted[p]) <= 1

(***************************************************************************)
(* Once the handlers have published, a subscribed client that keeps the    *)
(* highest revision shows every message with its current text, in whatever *)
(* order the handlers of concurrent requests got to publish.               *)
(***************************************************************************)
LiveCurrent ==
    load.live /\ pending = {} =>
        \A i \in Ids : i \in DOMAIN live /\ live[i].content = messages[i].content

(* A client ends with what the channel holds, whether it follows its sync  *)
(* cursor (Sync, GetSync) or the live events, which it can put in order by *)
(* their revisions.                                                        *)
ClientCurrent == [](SyncComplete /\ LiveCurrent) /\ RevisionAdvances
=============================================================================
