------------------------------ MODULE Membership ------------------------------
(***************************************************************************)
(* Who belongs to the server and what the realtime hub makes of it.        *)
(*                                                                         *)
(* The database side (internal/server, internal/invite, internal/channel,  *)
(* the custom roles of internal/community, and registration by invite      *)
(* link) changes in write transactions, each one action here.  Whatever a  *)
(* handler tells the hub comes after its commit, one hub call at a time,   *)
(* and the calls of two requests interleave.  The hub side caches per      *)
(* connection what the database said: whether the user is in the server,   *)
(* the channels they may open, their subscriptions, their voice channel.   *)
(*                                                                         *)
(* There is one server: servers.Create inserts only into an empty table    *)
(* and servers.Delete refuses the last row.                                *)
(***************************************************************************)
EXTENDS Naturals, Sequences, FiniteSets

CONSTANTS
    Users,         \* accounts, the unregistered newcomers included
    Conns,         \* websocket connections
    UserOf,        \* the user of each connection
    ChannelIds,    \* channels that exist or may be created
    VoiceChannels, \* those of kind voice
    RoleIds,       \* custom roles that may exist
    Workers,       \* goroutines serving HTTP requests
    Loads,         \* workloads: initial database and the requests made
    Nobody, NoChannel, NoInvite

VARIABLES
    role,      \* server_members.role, "none" for outsiders
    status,    \* users and user_bans: "new", "active", "banned", "deleted"
    bannedBy,  \* user_bans.banned_by_user_id
    muted,     \* members whose timeout_until lies ahead
    bits,      \* server_roles: permissions of every existing custom role
    custom,    \* member_roles
    channel,   \* channels with their grants
    link,      \* the invite link
    invite,    \* the direct invite of each user
    signed,    \* users with a session row
    conn,      \* connections as the hub and their handlers see them
    worker,    \* request goroutines
    load, budget, failures,
    demoted,   \* history: users whose built-in role was lowered
    joins      \* history: memberships made through the link

db == <<role, status, bannedBy, muted, bits, custom, channel, link, invite, signed, demoted, joins>>
vars == <<db, conn, worker, load, budget, failures>>

Perms == {"read", "publish", "voice", "manage"}
NewChannel == [restricted |-> FALSE, users |-> {}, roles |-> {}, custom |-> {}]
NoLink == [by |-> Nobody, max |-> 0, used |-> 0, register |-> FALSE, open |-> FALSE]
Off == [at |-> "off", alive |-> FALSE, knows |-> FALSE, access |-> {}, subs |-> {},
        told |-> {}, voice |-> NoChannel, doing |-> "none", want |-> NoChannel, late |-> FALSE]
IdleWorker == [user |-> Nobody, step |-> "idle", todo |-> <<>>]

Init ==
    /\ load \in Loads
    /\ role = load.role
    /\ status = [u \in Users |-> IF u \in load.newcomers THEN "new" ELSE "active"]
    /\ bannedBy = [u \in Users |-> Nobody]
    /\ muted = {}
    /\ bits = load.bits
    /\ custom = load.custom
    /\ channel = [ch \in load.channels |-> NewChannel]
    /\ link = load.link
    /\ invite = [u \in Users |-> NoInvite]
    /\ signed = Users \ load.newcomers
    /\ conn = [c \in Conns |-> Off]
    /\ worker = [w \in Workers |-> IdleWorker]
    /\ budget = load.requests
    /\ failures = load.failures
    /\ demoted = {}
    /\ joins = 0

-----------------------------------------------------------------------------
(* The permission views of migrations 27 and 38. *)

Manager(u) == role[u] \in {"owner", "admin"}

member_permissions(u) ==
    LET base == CASE role[u] = "none" -> {}
                  [] Manager(u) -> Perms
                  [] OTHER -> IF custom[u] = {} THEN Perms \ {"manage"}
                              ELSE UNION {bits[r] : r \in custom[u]}
    IN  IF u \in muted THEN base \cap {"read", "manage"} ELSE base

Allowed(u, p) == p \in member_permissions(u)

channel_accessible_members(u) ==
    {ch \in DOMAIN channel :
        /\ Allowed(u, "read")
        /\ \/ ~channel[ch].restricted
           \/ Manager(u)
           \/ u \in channel[ch].users
           \/ role[u] \in channel[ch].roles
           \/ channel[ch].custom \cap custom[u] # {}}

AccessibleChannelIDs(u) == channel_accessible_members(u)

CheckAccess(u, ch) == ch \in channel_accessible_members(u)

CheckVoiceAccess(u, ch) ==
    CheckAccess(u, ch) /\ ch \in VoiceChannels /\ Allowed(u, "voice")

requireManager(u, ch) == ch \in DOMAIN channel /\ Manager(u)

owner(u) == role[u] = "owner"

(* Bans and timeouts: owners act on anybody but owners, admins on members. *)
Outranks(u, target) ==
    /\ u # target
    /\ role[target] \notin {"none", "owner"}
    /\ role[u] = "owner" \/ (role[u] = "admin" /\ role[target] = "member")

-----------------------------------------------------------------------------
(* Requests: RequireAuth finds a session, the handler runs later, and its  *)
(* hub calls follow its commit.                                            *)

RequireAuth(w, u) ==
    /\ budget > 0
    /\ worker[w].step = "idle"
    /\ u \in signed
    /\ status[u] = "active"
    /\ worker' = [worker EXCEPT ![w] = [@ EXCEPT !.user = u, !.step = "authenticated"]]
    /\ budget' = budget - 1
    /\ UNCHANGED <<db, conn, load, failures>>

Asks(w, op) == worker[w].step = "authenticated" /\ op \in load.ops

Reply(w, calls) ==
    /\ worker' = [worker EXCEPT ![w] = [IdleWorker EXCEPT
                     !.step = IF calls = <<>> THEN "idle" ELSE "calling", !.todo = calls]]
    /\ UNCHANGED <<conn, load, budget, failures>>

(* Every refusal: not allowed, not found, not valid, database unavailable. *)
Refuse(w) ==
    /\ worker[w].step \in {"authenticated", "validated"}
    /\ Reply(w, <<>>)
    /\ UNCHANGED db

Call(name, who) == [name |-> name, who |-> who]
PublishServerMemberJoined == Call("RefreshChannelAccess", Nobody)
PublishServerMemberRoleUpdated == Call("RefreshChannelAccess", Nobody)
PublishChannelAccessChanged == Call("RefreshChannelAccess", Nobody)
rolesChanged == <<Call("RefreshRolePermissions", Nobody), Call("RefreshChannelAccess", Nobody)>>

-----------------------------------------------------------------------------
(* Invite links. *)

ValidateLink(max, register) == register => max > 0

InsertLink(u, max, register) ==
    /\ Manager(u)
    /\ link = NoLink
    /\ link' = [by |-> u, max |-> max, used |-> 0, register |-> register, open |-> TRUE]
    /\ UNCHANGED <<role, status, bannedBy, muted, bits, custom, channel, invite, signed, demoted, joins>>

CreateLink(w, max, register) ==
    /\ ValidateLink(max, register)
    /\ InsertLink(worker[w].user, max, register)
    /\ Reply(w, <<>>)

createLink(w) ==
    /\ Asks(w, "createLink")
    /\ \E max \in 0..1, register \in BOOLEAN : CreateLink(w, max, register)

(* open folds "not revoked" and "not expired". *)
ResolveLink == link.open /\ (link.max > 0 => link.used < link.max)

RevokeRow(u) ==
    /\ Manager(u)
    /\ link # NoLink
    /\ link' = [link EXCEPT !.open = FALSE]
    /\ UNCHANGED <<role, status, bannedBy, muted, bits, custom, channel, invite, signed, demoted, joins>>

RevokeLink(w) == RevokeRow(worker[w].user) /\ Reply(w, <<>>)

revokeLink(w) == Asks(w, "revokeLink") /\ RevokeLink(w)

LinkExpires ==
    /\ "linkExpires" \in load.ops
    /\ link.open
    /\ link' = [link EXCEPT !.open = FALSE]
    /\ UNCHANGED <<role, status, bannedBy, muted, bits, custom, channel, invite, signed, demoted, joins,
                   conn, worker, load, budget, failures>>

ConsumeLink(u) ==
    /\ ResolveLink
    /\ role[u] = "none"
    /\ link' = [link EXCEPT !.used = @ + 1]
    /\ joins' = joins + 1
    /\ role' = [role EXCEPT ![u] = "member"]
    /\ UNCHANGED <<status, bannedBy, muted, bits, custom, channel, invite, signed, demoted>>

AcceptLink(w) ==
    LET u == worker[w].user IN
    /\ ConsumeLink(u)
    /\ Reply(w, <<PublishServerMemberJoined, Call("AddUserToServer", u)>>)

acceptLink(w) == Asks(w, "acceptLink") /\ AcceptLink(w)

(* Registration validates the link, hashes the password for a while, and   *)
(* consumes the link in the transaction that creates the account.          *)
ValidateRegistrationInvite(w, u) ==
    /\ budget > 0
    /\ "register" \in load.ops
    /\ worker[w].step = "idle"
    /\ status[u] = "new"
    /\ ResolveLink /\ link.register /\ link.max > 0
    /\ worker' = [worker EXCEPT ![w] = [@ EXCEPT !.user = u, !.step = "validated"]]
    /\ budget' = budget - 1
    /\ UNCHANGED <<db, conn, load, failures>>

ConsumeUnchecked(u) ==
    /\ status[u] = "new"
    /\ link' = [link EXCEPT !.used = @ + 1]
    /\ joins' = joins + 1
    /\ role' = [role EXCEPT ![u] = "member"]
    /\ status' = [status EXCEPT ![u] = "active"]
    /\ signed' = signed \cup {u}
    /\ UNCHANGED <<bannedBy, muted, bits, custom, channel, invite, demoted>>

RegisterWithInvite(u) ==
    /\ status[u] = "new"
    /\ ResolveLink /\ link.register /\ link.max > 0
    /\ link' = [link EXCEPT !.used = @ + 1]
    /\ joins' = joins + 1
    /\ role' = [role EXCEPT ![u] = "member"]
    /\ status' = [status EXCEPT ![u] = "active"]
    /\ signed' = signed \cup {u}
    /\ UNCHANGED <<bannedBy, muted, bits, custom, channel, invite, demoted>>

Register(w) ==
    LET u == worker[w].user IN
    /\ worker[w].step = "validated"
    /\ RegisterWithInvite(u)
    /\ Reply(w, <<PublishServerMemberJoined, Call("AddUserToServer", u)>>)

-----------------------------------------------------------------------------
(* Direct invites: at most one is pending for a user (a unique index). *)

InsertInvite(u, target) ==
    /\ Manager(u)
    /\ status[target] = "active"
    /\ u # target
    /\ role[target] = "none"
    /\ invite[target] # NoInvite => invite[target].lapsed
    /\ invite' = [invite EXCEPT ![target] = [by |-> u, lapsed |-> FALSE]]
    /\ UNCHANGED <<role, status, bannedBy, muted, bits, custom, channel, link, signed, demoted, joins>>

CreateDirect(w, target) == InsertInvite(worker[w].user, target) /\ Reply(w, <<>>)

createDirect(w) == Asks(w, "createDirect") /\ \E target \in Users : CreateDirect(w, target)

InviteExpires(u) ==
    /\ "inviteExpires" \in load.ops
    /\ invite[u] # NoInvite
    /\ ~invite[u].lapsed
    /\ invite' = [invite EXCEPT ![u].lapsed = TRUE]
    /\ UNCHANGED <<role, status, bannedBy, muted, bits, custom, channel, link, signed, demoted, joins,
                   conn, worker, load, budget, failures>>

(* An expired invite is marked so, and the answer is a refusal. *)
AcceptInvite(u) ==
    /\ invite[u] # NoInvite
    /\ invite' = [invite EXCEPT ![u] = NoInvite]
    /\ role' = IF invite[u].lapsed \/ role[u] # "none" THEN role
               ELSE [role EXCEPT ![u] = "member"]
    /\ UNCHANGED <<status, bannedBy, muted, bits, custom, channel, link, signed, demoted, joins>>

Accept(w) ==
    LET u == worker[w].user IN
    /\ AcceptInvite(u)
    /\ Reply(w, IF invite[u].lapsed THEN <<>>
                ELSE <<PublishServerMemberJoined, Call("AddUserToServer", u)>>)

accept(w) == Asks(w, "accept") /\ Accept(w)

DeclineInvite(u) ==
    /\ invite[u] # NoInvite
    /\ invite' = [invite EXCEPT ![u] = NoInvite]
    /\ UNCHANGED <<role, status, bannedBy, muted, bits, custom, channel, link, signed, demoted, joins>>

Decline(w) == DeclineInvite(worker[w].user) /\ Reply(w, <<>>)

decline(w) == Asks(w, "decline") /\ Decline(w)

-----------------------------------------------------------------------------
(* Members. *)

(* Rows that go with the member row (foreign keys) and with the account.   *)
DropMember(u) ==
    /\ role' = [role EXCEPT ![u] = "none"]
    /\ custom' = [custom EXCEPT ![u] = {}]
    /\ muted' = muted \ {u}
    /\ channel' = [ch \in DOMAIN channel |-> [channel[ch] EXCEPT !.users = @ \ {u}]]
    /\ invite' = [v \in Users |-> IF v = u THEN NoInvite
                                  ELSE IF invite[v] # NoInvite /\ invite[v].by = u THEN NoInvite
                                  ELSE invite[v]]
    /\ link' = IF link.by = u THEN NoLink ELSE link
    /\ joins' = IF link.by = u THEN 0 ELSE joins
    /\ signed' = signed \ {u}
    /\ demoted' = demoted \ {u}

UpdateMemberRow(u, target, new) ==
    /\ owner(u)
    /\ u # target
    /\ role[target] \notin {"none", "owner", new}
    /\ role' = [role EXCEPT ![target] = new]
    /\ demoted' = IF new = "member" THEN demoted \cup {target} ELSE demoted
    /\ UNCHANGED <<status, bannedBy, muted, bits, custom, channel, link, invite, signed, joins>>

UpdateMemberRole(w, target, new) ==
    /\ UpdateMemberRow(worker[w].user, target, new)
    /\ Reply(w, <<PublishServerMemberRoleUpdated>>)

updateMemberRole(w) ==
    /\ Asks(w, "updateMemberRole")
    /\ \E target \in Users, new \in {"admin", "member"} : UpdateMemberRole(w, target, new)

BanMemberWithReason(u, target) ==
    /\ Outranks(u, target)
    /\ status[target] # "banned"
    /\ status' = [status EXCEPT ![target] = "banned"]
    /\ bannedBy' = [bannedBy EXCEPT ![target] = u]
    /\ DropMember(target)
    /\ UNCHANGED bits

(* The token of a connection dies with its session row. *)
KillTokens(w, target, calls) ==
    /\ worker' = [worker EXCEPT ![w] = [IdleWorker EXCEPT !.step = "calling", !.todo = calls]]
    /\ conn' = [c \in Conns |-> IF UserOf[c] = target THEN [conn[c] EXCEPT !.alive = FALSE] ELSE conn[c]]
    /\ UNCHANGED <<load, budget, failures>>

BanMember(w, target) ==
    /\ BanMemberWithReason(worker[w].user, target)
    /\ KillTokens(w, target, <<Call("RevokeUserFromServer", target)>>)

banMember(w) == Asks(w, "banMember") /\ \E target \in Users : BanMember(w, target)

Unban(u, target) ==
    /\ status[target] = "banned"
    /\ role[u] = "owner" \/ (role[u] = "admin" /\ bannedBy[target] = u)
    /\ status' = [status EXCEPT ![target] = "active"]
    /\ bannedBy' = [bannedBy EXCEPT ![target] = Nobody]
    /\ UNCHANGED <<role, muted, bits, custom, channel, link, invite, signed, demoted, joins>>

unbanMember(w) ==
    /\ Asks(w, "unbanMember")
    /\ \E target \in Users : Unban(worker[w].user, target)
    /\ Reply(w, <<>>)

SetTimeoutRow(u, target, on) ==
    /\ Outranks(u, target)
    /\ muted' = IF on THEN muted \cup {target} ELSE muted \ {target}
    /\ UNCHANGED <<role, status, bannedBy, bits, custom, channel, link, invite, signed, demoted, joins>>

SetMemberTimeoutQuietly(w, target, on) ==
    /\ SetTimeoutRow(worker[w].user, target, on)
    /\ Reply(w, <<Call("RefreshChannelAccess", Nobody)>>)

SetMemberTimeout(w, target, on) ==
    /\ SetTimeoutRow(worker[w].user, target, on)
    /\ Reply(w, rolesChanged)

setMemberTimeout(w) ==
    /\ Asks(w, "setMemberTimeout")
    /\ \E target \in Users, on \in BOOLEAN : SetMemberTimeout(w, target, on)

DeleteAccountRows(u) ==
    /\ role[u] \notin {"none", "owner"}
    /\ status[u] # "deleted"
    /\ status' = [status EXCEPT ![u] = "deleted"]
    /\ DropMember(u)
    /\ UNCHANGED <<bannedBy, bits>>

DeleteAccount(w) ==
    LET u == worker[w].user IN
    /\ DeleteAccountRows(u)
    /\ KillTokens(w, u, <<Call("RevokeUserFromServer", u)>>)

deleteAccount(w) == Asks(w, "deleteAccount") /\ DeleteAccount(w)

(* A user the ban was lifted from signs in again; Sessions has the detail. *)
SignIn(u) ==
    /\ "signIn" \in load.ops
    /\ status[u] = "active"
    /\ u \notin signed
    /\ signed' = signed \cup {u}
    /\ UNCHANGED <<role, status, bannedBy, muted, bits, custom, channel, link, invite, demoted, joins,
                   conn, worker, load, budget, failures>>

-----------------------------------------------------------------------------
(* Channels and custom roles. *)

InsertChannel(u, ch) ==
    /\ Manager(u)
    /\ ch \notin DOMAIN channel
    /\ channel' = [x \in DOMAIN channel \cup {ch} |-> IF x = ch THEN NewChannel ELSE channel[x]]
    /\ UNCHANGED <<role, status, bannedBy, muted, bits, custom, link, invite, signed, demoted, joins>>

CreateUnannounced(w, ch) == InsertChannel(worker[w].user, ch) /\ Reply(w, <<>>)

Create(w, ch) ==
    /\ InsertChannel(worker[w].user, ch)
    /\ Reply(w, <<Call("RefreshChannelAccess", Nobody)>>)

create(w) == Asks(w, "createChannel") /\ \E ch \in ChannelIds : Create(w, ch)

DeleteChannelRow(u, ch) ==
    /\ requireManager(u, ch)
    /\ channel' = [x \in DOMAIN channel \ {ch} |-> channel[x]]
    /\ UNCHANGED <<role, status, bannedBy, muted, bits, custom, link, invite, signed, demoted, joins>>

Delete(w, ch) ==
    /\ DeleteChannelRow(worker[w].user, ch)
    /\ Reply(w, <<Call("RemoveChannel", ch), Call("RefreshChannelAccess", Nobody)>>)

deleteChannel(w) == Asks(w, "deleteChannel") /\ \E ch \in ChannelIds : Delete(w, ch)

SetAccessRows(u, ch, restricted, users, roles) ==
    /\ requireManager(u, ch)
    /\ \A v \in users : role[v] # "none"
    /\ channel' = [channel EXCEPT ![ch] = [@ EXCEPT !.restricted = restricted,
                                                    !.users = users, !.roles = roles]]
    /\ UNCHANGED <<role, status, bannedBy, muted, bits, custom, link, invite, signed, demoted, joins>>

SetAccess(w, ch, restricted, users, roles) ==
    /\ SetAccessRows(worker[w].user, ch, restricted, users, roles)
    /\ Reply(w, <<PublishChannelAccessChanged>>)

access(w) ==
    /\ Asks(w, "access")
    /\ \E ch \in DOMAIN channel, restricted \in BOOLEAN, roles \in {{}, {"member"}} :
         \E users \in {{}} \cup {{u} : u \in Users} : SetAccess(w, ch, restricted, users, roles)

saveRole(w) ==
    /\ Asks(w, "saveRole")
    /\ owner(worker[w].user)
    /\ \E r \in RoleIds, p \in {{"read"}, {"read", "voice"}} :
         bits' = [x \in DOMAIN bits \cup {r} |-> IF x = r THEN p ELSE bits[x]]
    /\ Reply(w, rolesChanged)
    /\ UNCHANGED <<role, status, bannedBy, muted, custom, channel, link, invite, signed, demoted, joins>>

deleteRole(w) ==
    /\ Asks(w, "deleteRole")
    /\ owner(worker[w].user)
    /\ \E r \in DOMAIN bits :
         /\ bits' = [x \in DOMAIN bits \ {r} |-> bits[x]]
         /\ custom' = [u \in Users |-> custom[u] \ {r}]
         /\ channel' = [ch \in DOMAIN channel |-> [channel[ch] EXCEPT !.custom = @ \ {r}]]
    /\ Reply(w, rolesChanged)
    /\ UNCHANGED <<role, status, bannedBy, muted, link, invite, signed, demoted, joins>>

assignRoles(w) ==
    /\ Asks(w, "assignRoles")
    /\ owner(worker[w].user)
    /\ \E u \in Users, new \in SUBSET DOMAIN bits :
         /\ role[u] \notin {"none", "owner"}
         /\ custom' = [custom EXCEPT ![u] = new]
    /\ Reply(w, rolesChanged)
    /\ UNCHANGED <<role, status, bannedBy, muted, bits, channel, link, invite, signed, demoted, joins>>

roleGrants(w) ==
    /\ Asks(w, "roleGrants")
    /\ owner(worker[w].user)
    /\ \E ch \in DOMAIN channel, new \in SUBSET DOMAIN bits :
         channel' = [channel EXCEPT ![ch].custom = new]
    /\ Reply(w, rolesChanged)
    /\ UNCHANGED <<role, status, bannedBy, muted, bits, custom, link, invite, signed, demoted, joins>>

-----------------------------------------------------------------------------
(* The hub.  channelAccessMu: a connection registering or joining voice    *)
(* holds it shared between reading the database and acting on the answer;  *)
(* the refreshing and revoking calls hold it exclusively.                  *)

OnlyRegistrationLocks == \A c \in Conns : conn[c].doing # "registering"

Exclusive == \A c \in Conns : conn[c].doing \notin {"registering", "joining"}

Registered == {c \in Conns : conn[c].at \in {"registered", "serving"}}

clientsForServer == {c \in Registered : conn[c].knows}

clientsByUser(u) == {c \in Registered : UserOf[c] = u}

WithAccess(c, ids) ==
    [conn[c] EXCEPT !.access = ids,
                    !.voice = IF @ \in ids THEN @ ELSE NoChannel,
                    !.subs = @ \cap ids,
                    !.told = @ \cap ids]

(* The database answers, or the clients are closed and reconnect. *)
LoadFails(clients) ==
    /\ failures > 0
    /\ clients # {}
    /\ failures' = failures - 1
    /\ conn' = [c \in Conns |-> IF c \in clients THEN Off ELSE conn[c]]

Install(record) == conn' = record /\ UNCHANGED failures

RefreshChannelAccess ==
    /\ Exclusive
    /\ \/ Install([c \in Conns |-> IF c \in clientsForServer
                                   THEN WithAccess(c, AccessibleChannelIDs(UserOf[c])) ELSE conn[c]])
       \/ LoadFails(clientsForServer)
    /\ UNCHANGED demoted

(* Its second half, a RefreshChannelAccess, is the next call of the list. *)
RefreshRolePermissions ==
    /\ Exclusive
    /\ \E unread \in {{}} \cup {clientsForServer : n \in 1..failures} :
         /\ conn' = [c \in Conns |->
                        IF c \in clientsForServer /\ (c \in unread \/ ~Allowed(UserOf[c], "voice"))
                        THEN [conn[c] EXCEPT !.voice = NoChannel] ELSE conn[c]]
         /\ failures' = IF unread = {} THEN failures ELSE failures - 1
    /\ demoted' = {}

RevokeUserFromServer(u) ==
    /\ Exclusive
    /\ \/ Install([c \in Conns |-> IF c \in clientsByUser(u)
                                   THEN [conn[c] EXCEPT !.knows = FALSE, !.voice = NoChannel,
                                             !.access = AccessibleChannelIDs(u), !.subs = {}, !.told = {}]
                                   ELSE conn[c]])
       \/ LoadFails(clientsByUser(u))
    /\ UNCHANGED demoted

AddUserToServer(u) ==
    LET newly == {c \in clientsByUser(u) : ~conn[c].knows} IN
    /\ \/ Install([c \in Conns |-> IF c \in newly
                                   THEN [conn[c] EXCEPT !.knows = TRUE, !.late = role[u] = "none",
                                             !.access = AccessibleChannelIDs(u)]
                                   ELSE conn[c]])
       \/ LoadFails(newly)
    /\ UNCHANGED demoted

RemoveChannel(ch) ==
    /\ Exclusive
    /\ Install([c \in Conns |-> [conn[c] EXCEPT !.subs = @ \ {ch}, !.told = @ \ {ch},
                                                !.voice = IF @ = ch THEN NoChannel ELSE @]])
    /\ UNCHANGED demoted

HubCall(w) ==
    /\ worker[w].step = "calling"
    /\ LET call == Head(worker[w].todo) IN
         CASE call.name = "RefreshChannelAccess" -> RefreshChannelAccess
           [] call.name = "RefreshRolePermissions" -> RefreshRolePermissions
           [] call.name = "RevokeUserFromServer" -> RevokeUserFromServer(call.who)
           [] call.name = "AddUserToServer" -> AddUserToServer(call.who)
           [] OTHER -> RemoveChannel(call.who)
    /\ worker' = [worker EXCEPT ![w] =
                    IF Len(@.todo) = 1 THEN IdleWorker ELSE [@ EXCEPT !.todo = Tail(@)]]
    /\ UNCHANGED <<role, status, bannedBy, muted, bits, custom, channel, link, invite, signed, joins,
                   load, budget>>

-----------------------------------------------------------------------------
(* Connections: authenticate, list the memberships, register with the hub  *)
(* (load the channels, then index), confirm the session, serve.            *)

Step(c, record) ==
    /\ conn' = [conn EXCEPT ![c] = record]
    /\ UNCHANGED <<db, worker, load, budget, failures>>

Authenticate(c) ==
    /\ "connect" \in load.ops
    /\ conn[c].at = "off"
    /\ UserOf[c] \in signed
    /\ status[UserOf[c]] = "active"
    /\ Step(c, [conn[c] EXCEPT !.at = "authenticated", !.alive = TRUE])

ListByUserID(c) ==
    /\ conn[c].at = "authenticated"
    /\ Step(c, [conn[c] EXCEPT !.at = "listed", !.knows = role[UserOf[c]] # "none"])

(* Register reads the channels before it indexes the client. *)
RegisterLoad(c) ==
    /\ conn[c].at = "listed"
    /\ conn[c].doing = "none"
    /\ Step(c, [conn[c] EXCEPT !.doing = "registering", !.access = AccessibleChannelIDs(UserOf[c])])

RegisterIndex(c) ==
    /\ conn[c].doing = "registering"
    /\ Step(c, [conn[c] EXCEPT !.doing = "none", !.at = "registered"])

ServeUnconfirmed(c) ==
    /\ conn[c].at = "registered"
    /\ Step(c, [conn[c] EXCEPT !.at = "serving"])

Confirm(c) ==
    /\ conn[c].at = "registered"
    /\ Step(c, IF conn[c].alive THEN [conn[c] EXCEPT !.at = "serving"] ELSE Off)

(* The write loop authenticates again with every ping. *)
Ping(c) ==
    /\ conn[c].at = "serving"
    /\ ~conn[c].alive
    /\ Step(c, Off)

Disconnect(c) ==
    /\ "disconnect" \in load.ops
    /\ conn[c].at # "off"
    /\ Step(c, Off)

(* Requests of a served connection, one at a time. *)
Ready(c, op) == op \in load.ops /\ conn[c].at = "serving" /\ conn[c].doing = "none"

checkChannelAccess(c, ch) ==
    /\ Ready(c, "subscribe")
    /\ ch \notin conn[c].told
    /\ CheckAccess(UserOf[c], ch)
    /\ Step(c, [conn[c] EXCEPT !.doing = "subscribing", !.want = ch])

(* The hub may refuse; the handler does not look at its answer. *)
Subscribe(c) ==
    /\ conn[c].doing = "subscribing"
    /\ Step(c, [conn[c] EXCEPT !.doing = "confirming",
                   !.subs = IF conn[c].knows /\ conn[c].want \in conn[c].access
                            THEN @ \cup {conn[c].want} ELSE @])

subscribeToChannel(c) ==
    /\ conn[c].doing = "confirming"
    /\ Step(c, IF CheckAccess(UserOf[c], conn[c].want)
               THEN [conn[c] EXCEPT !.doing = "none", !.want = NoChannel, !.told = @ \cup {conn[c].want}]
               ELSE [conn[c] EXCEPT !.doing = "none", !.want = NoChannel, !.subs = @ \ {conn[c].want}])

checkVoiceChannelAccess(c, ch) ==
    /\ Ready(c, "voice")
    /\ conn[c].voice # ch
    /\ CheckVoiceAccess(UserOf[c], ch)
    /\ Step(c, [conn[c] EXCEPT !.doing = "joining", !.want = ch])

JoinVoiceWithDevice(c) ==
    /\ conn[c].doing = "joining"
    /\ LET ch == conn[c].want
           joined == conn[c].knows /\ ch \in conn[c].access
       IN  conn' = [x \in Conns |->
             CASE x = c -> [conn[c] EXCEPT !.doing = "none", !.want = NoChannel,
                                           !.voice = IF joined THEN ch ELSE @]
               [] x # c /\ joined /\ UserOf[x] = UserOf[c] -> [conn[x] EXCEPT !.voice = NoChannel]
               [] OTHER -> conn[x]]
    /\ UNCHANGED <<db, worker, load, budget, failures>>

LeaveVoice(c) ==
    /\ Ready(c, "voice")
    /\ conn[c].voice # NoChannel
    /\ Step(c, [conn[c] EXCEPT !.voice = NoChannel])

-----------------------------------------------------------------------------
Handle(w) ==
    \/ createLink(w) \/ revokeLink(w) \/ acceptLink(w) \/ Register(w)
    \/ createDirect(w) \/ accept(w) \/ decline(w)
    \/ updateMemberRole(w) \/ banMember(w) \/ unbanMember(w) \/ setMemberTimeout(w) \/ deleteAccount(w)
    \/ create(w) \/ deleteChannel(w) \/ access(w)
    \/ saveRole(w) \/ deleteRole(w) \/ assignRoles(w) \/ roleGrants(w)
    \/ Refuse(w)

Serve(c) ==
    \/ Authenticate(c) \/ ListByUserID(c) \/ RegisterLoad(c) \/ RegisterIndex(c) \/ Confirm(c)
    \/ Ping(c) \/ Disconnect(c)
    \/ \E ch \in ChannelIds : checkChannelAccess(c, ch) \/ checkVoiceChannelAccess(c, ch)
    \/ Subscribe(c) \/ subscribeToChannel(c) \/ JoinVoiceWithDevice(c) \/ LeaveVoice(c)

Next ==
    \/ \E w \in Workers : Handle(w) \/ HubCall(w)
    \/ \E w \in Workers, u \in Users : RequireAuth(w, u) \/ ValidateRegistrationInvite(w, u)
    \/ \E c \in Conns : Serve(c)
    \/ \E u \in Users : SignIn(u) \/ InviteExpires(u)
    \/ LinkExpires

Spec == Init /\ [][Next]_vars

-----------------------------------------------------------------------------
Rest == \A w \in Workers : worker[w].step # "calling"

Pending(name, u) ==
    \E w \in Workers : \E i \in 1..Len(worker[w].todo) :
        worker[w].todo[i].name = name /\ worker[w].todo[i].who = u

(* Once the hub calls of every committed request have run, the channels    *)
(* cached for a connection of the server are those its user may open, and  *)
(* its subscriptions and its voice channel are among them: whatever order  *)
(* commits, hub calls, registrations and joins took.                       *)
AccessFresh ==
    Rest => \A c \in clientsForServer :
        /\ conn[c].access = AccessibleChannelIDs(UserOf[c])
        /\ conn[c].subs \subseteq conn[c].access
        /\ conn[c].voice # NoChannel => conn[c].voice \in conn[c].access

(* Nobody whose voice permission was taken by a timeout or a custom role   *)
(* stays in voice once the hub calls have run ("Permission revocation also *)
(* applies to media already running").  Lowering a built-in role is left   *)
(* out here: see VoicePermittedAlways.                                     *)
VoicePermitted ==
    Rest => \A c \in Registered :
        conn[c].voice # NoChannel => Allowed(UserOf[c], "voice") \/ UserOf[c] \in demoted

(* A connection served for somebody outside the server is in none of the   *)
(* server's sets, unless the call that cuts it off is still to come.  Left *)
(* out: connections indexed by an AddUserToServer that ran after the       *)
(* membership it announces had ended.                                      *)
OutsiderCut ==
    \A c \in clientsForServer :
        (conn[c].at = "serving" /\ role[UserOf[c]] = "none") =>
            \/ Pending("RevokeUserFromServer", UserOf[c])
            \/ conn[c].late

(* A link never lets in more people than its max_uses, registrations that  *)
(* were hashing a password meanwhile included.                             *)
LinkHonoured == link.max > 0 => joins <= link.max

(* What the hub would need for the comment of RefreshRolePermissions to    *)
(* hold of every revocation: an owner lowering an admin who has custom     *)
(* roles without voice only refreshes channel access.                      *)
VoicePermittedAlways ==
    Rest => \A c \in Registered : conn[c].voice # NoChannel => Allowed(UserOf[c], "voice")

(* A ban ends membership and only a new invitation restores it: nobody is  *)
(* a member while banned.  Accepting a link does not look at bans.         *)
BannedNotMember == \A u \in Users : status[u] \in {"banned", "deleted"} => role[u] = "none"

(* A served connection of a member takes part in the server.  A join that  *)
(* lands between listing the memberships and registering is missed.        *)
MemberKnown ==
    Rest => \A c \in Conns : (conn[c].at = "serving" /\ role[UserOf[c]] # "none") => conn[c].knows

(* A client told channel.subscribed receives the channel's events.         *)
ToldSubscribed ==
    Rest => \A c \in Registered : conn[c].told \subseteq conn[c].subs
=============================================================================
