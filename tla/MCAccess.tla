------------------------------ MODULE MCAccess ------------------------------
(* Membership and sign-in, of which a behaviour runs one while the other   *)
(* rests in an initial state.  Membership: one owner, one ordinary account *)
(* and one newcomer, two connections of them, two channels of which one is *)
(* a voice channel, two requests at a time; each workload is a part of the *)
(* API with what it races against.  Sign-in: one connection and two        *)
(* requests at a time over two tokens.                                   *)
EXTENDS Membership, TLC

CONSTANTS o, a, n, c1, c2, ch1, ch2, r

VARIABLES part, password, account, session, minted, socket, request, spare, outages, silent, overlap

MCUsers == {o, a, n}
MCUserOf == c1 :> a @@ c2 :> o

Base == [role |-> o :> "owner" @@ a :> "member" @@ n :> "none",
         newcomers |-> {n}, bits |-> <<>>, custom |-> [u \in MCUsers |-> {}],
         channels |-> {ch1, ch2}, link |-> NoLink, requests |-> 2, failures |-> 0, ops |-> {}]

Open(max, reg) == [by |-> o, max |-> max, used |-> 0, register |-> reg, open |-> TRUE]

Outside == [Base EXCEPT !.role = [@ EXCEPT ![a] = "none"]]

\* Joining through a link, with bans, against a connecting client.
Links == [Outside EXCEPT !.link = Open(1, FALSE), !.requests = 3, !.failures = 1,
            !.ops = {"acceptLink", "revokeLink", "banMember", "unbanMember", "signIn", "connect", "linkExpires"}]

\* Two registrations through one link, and links that come and go.
Newcomers == [Outside EXCEPT !.newcomers = {a, n}, !.link = Open(1, TRUE), !.requests = 3,
               !.ops = {"register", "createLink", "revokeLink", "connect"}]
NewLinks == [Outside EXCEPT !.requests = 3, !.ops = {"createLink", "acceptLink", "register", "deleteAccount"}]

\* Direct invites.
Invites == [Outside EXCEPT !.requests = 3,
              !.ops = {"createDirect", "accept", "decline", "inviteExpires", "connect"}]

\* Bans and deleted accounts against subscriptions and voice.
Bans == [Base EXCEPT !.link = Open(0, FALSE), !.ops = {"acceptLink", "banMember", "deleteAccount", "connect", "subscribe", "voice"},
           !.failures = 1]

\* Timeouts and roles against voice.
Roles == [Base EXCEPT !.bits = r :> {"read"},
            !.ops = {"setMemberTimeout", "assignRoles", "deleteRole", "connect", "voice"}, !.failures = 1]
RoleBits == [Base EXCEPT !.bits = r :> {"read"}, !.custom = [@ EXCEPT ![a] = {r}],
            !.ops = {"saveRole", "updateMemberRole", "roleGrants", "access", "connect", "voice"}]

\* Channels and their access lists against subscriptions.
Access == [Base EXCEPT !.channels = {ch1}, !.failures = 1,
             !.ops = {"createChannel", "deleteChannel", "access", "connect", "subscribe", "disconnect"}]

MCLoads == {Links, Newcomers, NewLinks, Invites, Bans, Roles, RoleBits, Access}

SignIns == INSTANCE Sessions WITH
    Conns <- {c1}, MaxTokens <- 2, MaxRequests <- 3, MaxAuthFailures <- 2, MaxOutages <- 2,
    conn <- socket, budget <- spare
signIns == <<password, account, session, minted, socket, request, spare, outages, silent, overlap>>

MCInit ==
    /\ part \in {"members", "sessions"}
    /\ Init /\ SignIns!Init
    /\ part # "members" => load = CHOOSE l \in Loads : TRUE

MCNext ==
    \/ part = "members" /\ Next /\ UNCHANGED <<part, signIns>>
    \/ part = "sessions" /\ SignIns!Next /\ UNCHANGED <<part, vars>>

(* Only the pings of sign-ins owe progress; a connection that was never    *)
(* made has none.                                                          *)
MCSpec == MCInit /\ [][MCNext]_<<part, vars, signIns>> /\ SignIns!Fairness

(* What the hub has cached and admitted follows the database: channel      *)
(* access, subscriptions and the permission to speak (RefreshChannelAccess *)
(* and RefreshRolePermissions against connect, Subscribe and joinVoice).   *)
AccessKept == part = "members" => AccessFresh /\ VoicePermitted

(* Nobody stays in who was put out: outsiders of the server, connections   *)
(* of revoked sessions, sessions that a password change had to end         *)
(* (RevokeUserFromServer, RevokeSession, ChangePassword against connect).  *)
NobodyStaysIn ==
    /\ part = "members" => OutsiderCut
    /\ part = "sessions" => SignIns!RevokedCut /\ SignIns!ChangeSignsOut

(* A connection whose session ended, for whatever reason, does not stay    *)
(* served: the ping's authentication ends it (write in handler.go).        *)
DeadSessionEnds == SignIns!DeadSessionEnds
=============================================================================
