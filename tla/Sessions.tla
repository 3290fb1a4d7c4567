------------------------------- MODULE Sessions -------------------------------
(***************************************************************************)
(* The sessions of one account (internal/account) and the websocket        *)
(* connections that live on them (internal/realtime/http, realtime/hub).   *)
(*                                                                         *)
(* Requests are goroutines: a login verifies the password and inserts its  *)
(* session later, a password change verifies, hashes and replaces, and     *)
(* every revocation deletes rows first and closes connections afterwards,  *)
(* one token at a time.  A connection authenticates, registers with the    *)
(* hub, confirms its session and authenticates again with every ping.      *)
(* A token stands for its hash; tokens are never reused.                   *)
(***************************************************************************)
EXTENDS Naturals, FiniteSets, TLC

CONSTANTS
    Conns,           \* websocket connections
    Workers,         \* goroutines serving HTTP requests
    MaxTokens,       \* bound: session tokens generated
    MaxRequests,     \* bound: HTTP requests
    MaxAuthFailures, \* failed checks in a row that close a connection (3 in the code)
    MaxOutages       \* bound: pings that meet a database error

VARIABLES
    password,  \* users.password_hash, as a version number
    account,   \* "active", "banned" or "deleted"
    session,   \* sessions rows by token: the password they rest on, expiry
    minted,    \* tokens generated so far
    conn,      \* connections: stage, token, failed checks
    request,   \* HTTP requests: operation, token, password read, revocations left
    budget, outages,
    silent,    \* history: tokens whose row went without a call to the hub
    overlap    \* history: tokens of logins that a password change overtook

vars == <<password, account, session, minted, conn, request, budget, outages, silent, overlap>>

Idle == [op |-> "none", token |-> 0, seen |-> 0, known |-> {}, revoke |-> {}]
Gone == [at |-> "off", token |-> 0, failed |-> 0]

Init ==
    /\ password = 1
    /\ account = "active"
    /\ session = (1 :> [born |-> 1, expired |-> FALSE])
    /\ minted = 1
    /\ conn = [c \in Conns |-> Gone]
    /\ request = [w \in Workers |-> Idle]
    /\ budget = MaxRequests
    /\ outages = MaxOutages
    /\ silent = {}
    /\ overlap = {}

FindActiveUserIDByTokenHash(t) ==
    t \in DOMAIN session /\ ~session[t].expired /\ account = "active"

Authenticate(t) == FindActiveUserIDByTokenHash(t)

Without(tokens) == [t \in DOMAIN session \ tokens |-> session[t]]

\* A token is known to a client once its row exists or existed.
Held == 1..minted

-----------------------------------------------------------------------------
(* Requests. *)

Begin(w, op, t) ==
    /\ budget > 0
    /\ request[w] = Idle
    /\ request' = [request EXCEPT ![w] = [Idle EXCEPT !.op = op, !.token = t]]
    /\ budget' = budget - 1
    /\ UNCHANGED <<password, account, session, minted, conn, outages, silent, overlap>>

(* Operations behind RequireAuth run later, whatever becomes of the token. *)
RequireAuth(w) ==
    \E op \in {"password", "revokeOne", "revokeOthers", "deleteAccount"}, t \in Held :
        Authenticate(t) /\ Begin(w, op, t)

(* Login, logout and refresh read the credentials themselves. *)
Present(w) == Begin(w, "login", 0) \/ \E op \in {"logout", "refresh"}, t \in Held : Begin(w, op, t)

Proceed(w, record) ==
    /\ request' = [request EXCEPT ![w] = record]
    /\ UNCHANGED <<conn, budget, outages>>

Refuse(w) ==
    /\ request[w] # Idle
    /\ request[w].revoke = {}
    /\ Proceed(w, Idle)
    /\ UNCHANGED <<password, account, session, minted, silent, overlap>>

(* The caller's hub calls: RevokeSession for each token of revoke. *)
Revoking(w, tokens) ==
    Proceed(w, IF tokens = {} THEN Idle ELSE [Idle EXCEPT !.op = "revoking", !.revoke = tokens])

(* bcrypt: a login or a change compares with the hash it read here. *)
verifyPassword(w) ==
    /\ request[w].op \in {"login", "password", "deleteAccount"}
    /\ request[w].seen = 0
    /\ account # "deleted"
    /\ request[w].op = "login" => account = "active"
    /\ Proceed(w, [request[w] EXCEPT !.seen = password, !.known = DOMAIN session])
    /\ UNCHANGED <<password, account, session, minted, silent, overlap>>

CreateSession(born) ==
    /\ minted < MaxTokens
    /\ minted' = minted + 1
    /\ session' = (minted + 1 :> [born |-> born, expired |-> FALSE]) @@ session

Login(w) ==
    /\ request[w].op = "login"
    /\ request[w].seen > 0
    /\ CreateSession(request[w].seen)
    /\ overlap' = IF request[w].seen < password THEN overlap \cup {minted + 1} ELSE overlap
    /\ Proceed(w, Idle)
    /\ UNCHANGED <<password, account, silent>>

Logout(w) ==
    LET t == request[w].token IN
    /\ request[w].op = "logout"
    /\ session' = Without({t})
    /\ Revoking(w, {t})
    /\ UNCHANGED <<password, account, minted, silent, overlap>>

Rotate(t) ==
    /\ FindActiveUserIDByTokenHash(t)
    /\ minted < MaxTokens
    /\ minted' = minted + 1
    /\ session' = (minted + 1 :> session[t]) @@ Without({t})

Refresh(w) ==
    LET t == request[w].token IN
    /\ request[w].op = "refresh"
    /\ Rotate(t)
    /\ overlap' = IF t \in overlap THEN overlap \cup {minted + 1} ELSE overlap
    /\ Revoking(w, {t})
    /\ UNCHANGED <<password, account, silent>>

ReplaceAndRevokeKnown(w, t) ==
    /\ password = request[w].seen
    /\ account # "deleted"
    /\ password' = password + 1
    /\ session' = [x \in DOMAIN Without(request[w].known \ {t}) |->
                     IF x = t THEN [session[x] EXCEPT !.born = password + 1] ELSE session[x]]
    /\ Revoking(w, (request[w].known \cap DOMAIN session) \ {t})

ReplacePasswordAndRevokeOthers(w, t) ==
    /\ password = request[w].seen
    /\ account # "deleted"
    /\ password' = password + 1
    /\ session' = [x \in DOMAIN session \cap {t} |-> [session[x] EXCEPT !.born = password + 1]]
    /\ Revoking(w, DOMAIN session \ {t})

ChangePassword(w) ==
    /\ request[w].op = "password"
    /\ request[w].seen > 0
    /\ ReplacePasswordAndRevokeOthers(w, request[w].token)
    /\ UNCHANGED <<account, minted, silent, overlap>>

RevokeSessionByID(w) ==
    /\ request[w].op = "revokeOne"
    /\ \E t \in DOMAIN session : session' = Without({t}) /\ Revoking(w, {t})
    /\ UNCHANGED <<password, account, minted, silent, overlap>>

RevokeOtherSessions(w) ==
    LET others == DOMAIN session \ {request[w].token} IN
    /\ request[w].op = "revokeOthers"
    /\ session' = Without(others)
    /\ Revoking(w, others)
    /\ UNCHANGED <<password, account, minted, silent, overlap>>

(* Deleting the account and banning delete the rows; the hub hears of the  *)
(* membership (RevokeUserFromServer), not of the tokens.                   *)
DeleteAccount(w) ==
    /\ request[w].op = "deleteAccount"
    /\ request[w].seen > 0
    /\ account = "active"
    /\ account' = "deleted"
    /\ session' = <<>>
    /\ silent' = silent \cup DOMAIN session
    /\ Proceed(w, Idle)
    /\ UNCHANGED <<password, minted, overlap>>

Ban ==
    /\ account = "active"
    /\ budget > 0
    /\ budget' = budget - 1
    /\ account' = "banned"
    /\ session' = <<>>
    /\ silent' = silent \cup DOMAIN session
    /\ UNCHANGED <<password, minted, conn, request, outages, overlap>>

Unban ==
    /\ account = "banned"
    /\ account' = "active"
    /\ UNCHANGED <<password, session, minted, conn, request, budget, outages, silent, overlap>>

Expire ==
    /\ \E t \in DOMAIN session :
         /\ ~session[t].expired
         /\ session' = [session EXCEPT ![t].expired = TRUE]
         /\ silent' = silent \cup {t}
    /\ UNCHANGED <<password, account, minted, conn, request, budget, outages, overlap>>

DeleteExpired ==
    LET expired == {t \in DOMAIN session : session[t].expired} IN
    /\ expired # {}
    /\ session' = Without(expired)
    /\ UNCHANGED <<password, account, minted, conn, request, budget, outages, silent, overlap>>

(* RevokeSession and RevokeSessionHash: close and unregister the clients   *)
(* indexed under the token.                                                *)
RevokeSession(w) ==
    \E t \in request[w].revoke :
        /\ conn' = [c \in Conns |-> IF conn[c].token = t /\ conn[c].at \in {"registered", "serving"}
                                    THEN Gone ELSE conn[c]]
        /\ request' = [request EXCEPT ![w] =
                         IF @.revoke = {t} THEN Idle ELSE [@ EXCEPT !.revoke = @ \ {t}]]
        /\ UNCHANGED <<password, account, session, minted, budget, outages, silent, overlap>>

-----------------------------------------------------------------------------
(* Connections. *)

Move(c, record) ==
    /\ conn' = [conn EXCEPT ![c] = record]
    /\ UNCHANGED <<password, account, session, minted, request, budget, silent, overlap>>

Connect(c) ==
    /\ conn[c].at = "off"
    /\ \E t \in Held : Authenticate(t) /\ Move(c, [Gone EXCEPT !.at = "authenticated", !.token = t])
    /\ UNCHANGED outages

Register(c) ==
    /\ conn[c].at = "authenticated"
    /\ Move(c, [conn[c] EXCEPT !.at = "registered"])
    /\ UNCHANGED outages

ConfirmNothing(c) ==
    /\ conn[c].at = "registered"
    /\ Move(c, [conn[c] EXCEPT !.at = "serving"])
    /\ UNCHANGED outages

Confirm(c) ==
    /\ conn[c].at = "registered"
    /\ Move(c, IF Authenticate(conn[c].token) THEN [conn[c] EXCEPT !.at = "serving"] ELSE Gone)
    /\ UNCHANGED outages

PingTransport(c) ==
    /\ conn[c].at = "serving"
    /\ Move(c, [conn[c] EXCEPT !.failed = 0])
    /\ UNCHANGED outages

(* A ping's check either answers or fails; the third failure in a row ends *)
(* the connection, an answer of "no session" ends it at once.              *)
Ping(c) ==
    /\ conn[c].at = "serving"
    /\ Move(c, IF Authenticate(conn[c].token) THEN [conn[c] EXCEPT !.failed = 0] ELSE Gone)
    /\ UNCHANGED outages

PingFails(c) ==
    /\ conn[c].at = "serving"
    /\ outages > 0
    /\ outages' = outages - 1
    /\ Move(c, IF conn[c].failed + 1 >= MaxAuthFailures THEN Gone ELSE [conn[c] EXCEPT !.failed = @ + 1])

Disconnect(c) ==
    /\ conn[c].at # "off"
    /\ Move(c, Gone)
    /\ UNCHANGED outages

Handle(w) ==
    \/ RequireAuth(w) \/ Present(w) \/ verifyPassword(w) \/ Login(w) \/ Logout(w) \/ Refresh(w)
    \/ ChangePassword(w) \/ RevokeSessionByID(w) \/ RevokeOtherSessions(w) \/ DeleteAccount(w)
    \/ RevokeSession(w) \/ Refuse(w)

Next ==
    \/ \E w \in Workers : Handle(w)
    \/ Ban \/ Unban \/ Expire \/ DeleteExpired
    \/ \E c \in Conns : Connect(c) \/ Register(c) \/ Confirm(c) \/ Ping(c) \/ PingFails(c) \/ Disconnect(c)

(* The ping ticker of a served connection keeps running, and its checks do *)
(* not fail for ever (outages are bounded).                                *)
Fairness == \A c \in Conns : WF_vars(Ping(c))

Spec == Init /\ [][Next]_vars /\ Fairness

-----------------------------------------------------------------------------
(* A connection is served on a session row, or the request that deleted    *)
(* the row is about to close it; rows deleted with the account, by a ban   *)
(* or after expiry leave it to the next ping.  In particular a revocation  *)
(* that finds the connection not yet registered is caught by the second    *)
(* authentication in connect.                                              *)
RevokedCut ==
    \A c \in Conns : conn[c].at = "serving" =>
        \/ conn[c].token \in DOMAIN session \cup silent
        \/ \E w \in Workers : conn[c].token \in request[w].revoke

(* A password change signs every other session out, those rotated or       *)
(* opened while it was hashing included.  Left out: the session of a login *)
(* that had compared the old password and was inserted after the change.   *)
ChangeSignsOut == \A t \in DOMAIN session : session[t].born = password \/ t \in overlap

(* The comment of ChangePassword without that exception.                   *)
ChangeSignsOutAll == \A t \in DOMAIN session : session[t].born = password

(* A connection whose session ended, for whatever reason, does not stay    *)
(* served: the ping's authentication ends it.                              *)
DeadSessionEnds ==
    \A c \in Conns :
        (conn[c].at = "serving" /\ ~Authenticate(conn[c].token)) ~>
            (conn[c].at # "serving" \/ Authenticate(conn[c].token))
=============================================================================
