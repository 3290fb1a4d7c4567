---------------------------- MODULE HubPresence ----------------------------
(***************************************************************************)
(* The connection registry and the presence counters of the realtime hub   *)
(* (src/internal/realtime/hub.go): which connections are registered, which *)
(* servers each belongs to, the index from servers to connections, how     *)
(* many connections make a user online on a server, and the presence       *)
(* events and snapshots connections receive.                               *)
(*                                                                         *)
(* One step is one critical section of clientsMu (presenceMu nests in it). *)
(* Register and AddUserToServer hold the channel-access lock shared for    *)
(* their whole length, the revocations hold it exclusively, Unregister     *)
(* holds neither.  A presence broadcast runs under the user's key of       *)
(* presenceBroadcasts (module KeyLock): it checks the status, saves the    *)
(* time, checks again and enqueues.  A queued event reaches its connection *)
(* in order (module OutgoingQueue), so `view` is updated at the enqueue.   *)
(* Channel permissions, rooms, voice and streams are left out.             *)
(***************************************************************************)
EXTENDS Integers, FiniteSets

CONSTANTS Conns,      \* connections (Client objects)
          Users, Servers,
          Owner(_),   \* the user of a connection
          Watchers,   \* connections that are registered at the start
          Workloads,  \* sets of operations that happen together besides connecting
          MaxAdmin    \* bound: membership changes

ASSUME HubAssumption ==
  /\ IsFiniteSet(Conns) /\ Watchers \subseteq Conns /\ MaxAdmin \in Nat
  /\ \A c \in Conns : Owner(c) \in Users

VARIABLES ops,        \* the operations that happen in this behaviour
          clients,    \* Hub.clients
          byServer,   \* Hub.clientsByServer
          servers,    \* Client.servers
          gone,       \* Client.done is closed
          presence,   \* Hub.presence: connections per server and user
          stage,      \* the connection's handler
          leaving,    \* connections an Unregister has detached
          counted,    \* servers for which the connection was added to the count
          casts,      \* presence broadcasts under way
          snaps,      \* presence snapshots under way
          view,       \* view[c][s]: the users c shows online on s
          member,     \* the server_members table
          admin,      \* the membership change under way
          changes     \* membership changes so far

hubVars == <<ops, clients, byServer, servers, gone, presence, stage, leaving, counted,
          casts, snaps, view, member, admin, changes>>
registry == <<clients, byServer, servers, presence, counted>>

NoAdmin == [op |-> "none", u |-> 0, s |-> 0, at |-> "idle", todo |-> {}, drop |-> {}]
ConnsOf(u) == {c \in clients : Owner(c) = u}
Online(s) == {u \in Users : presence[s][u] > 0}

(* Register and AddUserToServer hold the channel-access lock shared, the   *)
(* revocations exclusively.                                                *)
Registering(c) == stage[c] \in {"indexed", "announcing"}
Revoking == admin.at = "running" /\ admin.op # "add"

HubInit ==
  /\ ops \in Workloads
  /\ clients = Watchers
  /\ byServer = [s \in Servers |-> Watchers]
  /\ servers = [c \in Conns |-> IF c \in Watchers THEN Servers ELSE {}]
  /\ gone = [c \in Conns |-> FALSE]
  /\ presence = [s \in Servers |-> [u \in Users |-> Cardinality({c \in Watchers : Owner(c) = u})]]
  /\ stage = [c \in Conns |-> IF c \in Watchers THEN "live" ELSE "new"]
  /\ leaving = {}
  /\ counted = [c \in Conns |-> IF c \in Watchers THEN Servers ELSE {}]
  /\ casts = {} /\ snaps = {}
  /\ view = [c \in Conns |-> [s \in Servers |->
               IF c \in Watchers THEN {Owner(d) : d \in Watchers} ELSE {}]]
  /\ member = [u \in Users |-> Servers]
  /\ admin = NoAdmin /\ changes = 0

----------------------------------------------------------------------------
(* incrementPresence and decrementPresence for one connection and a set of  *)
(* servers, and the servers whose status they change.                       *)
Increment(u, ss) == [s \in Servers |-> IF s \in ss THEN [presence[s] EXCEPT ![u] = @ + 1] ELSE presence[s]]
(* Mutants: no guard at zero, the user's entry deleted with the first       *)
(* connection, the entry kept with the last.                                *)
DecrementUnguarded(s, u) == [presence EXCEPT ![s][u] = @ - 1]
DecrementDeletes(s, u) == [presence EXCEPT ![s][u] = 0]
DecrementKeepsLast(s, u) == [presence EXCEPT ![s][u] = IF @ <= 1 THEN @ ELSE @ - 1]
Decrement(s, u) == [presence EXCEPT ![s][u] = IF @ = 0 THEN 0 ELSE @ - 1]
BecameOnline(u, ss) == {s \in ss : presence[s][u] = 0}
BecameOffline(s, u) == presence[s][u] = 1

Cast(by, s, u, status) == [by |-> by, s |-> s, u |-> u, status |-> status, at |-> "waiting", to |-> {}]
Snap(by, c, ss) == [by |-> by, c |-> c, ss |-> ss, at |-> "reading", got |-> {}]

(* connect: the membership list is read before the client exists. *)
ListMemberships(c) ==
  /\ stage[c] = "new"
  /\ servers' = [servers EXCEPT ![c] = member[Owner(c)]]
  /\ stage' = [stage EXCEPT ![c] = "listed"]
  /\ UNCHANGED <<ops, clients, byServer, gone, presence, leaving, counted, casts, snaps, view,
                 member, admin, changes>>

(* Register, first critical section. *)
Register(c) ==
  /\ stage[c] = "listed" /\ ~Revoking
  /\ clients' = clients \cup {c}
  /\ byServer' = [s \in Servers |-> IF s \in servers[c] THEN byServer[s] \cup {c} ELSE byServer[s]]
  /\ stage' = [stage EXCEPT ![c] = "indexed"]
  /\ UNCHANGED <<ops, servers, gone, presence, leaving, counted, casts, snaps, view,
                 member, admin, changes>>

(* "Registration may race with disconnect before this post-registration     *)
(* step."                                                                   *)
StillRegistered(c) == c \in clients

(* registerPresence: the servers are counted in a second critical section. *)
RegisterPresence(c) ==
  /\ stage[c] = "indexed"
  /\ IF StillRegistered(c)
     THEN /\ presence' = Increment(Owner(c), servers[c])
          /\ counted' = [counted EXCEPT ![c] = servers[c]]
          /\ casts' = casts \cup {Cast(<<"register", c>>, s, Owner(c), "online") :
                                    s \in BecameOnline(Owner(c), servers[c])}
          /\ snaps' = snaps \cup {Snap(<<"register", c>>, c, servers[c])}
     ELSE UNCHANGED <<presence, counted, casts, snaps>>
  /\ stage' = [stage EXCEPT ![c] = "announcing"]
  /\ UNCHANGED <<ops, clients, byServer, servers, gone, leaving, view, member, admin, changes>>

(* Register returns when its broadcasts and its snapshot are out. *)
Busy(by) == (\E k \in casts : k.by = by) \/ (\E n \in snaps : n.by = by)
Registered(c) ==
  /\ stage[c] = "announcing" /\ ~Busy(<<"register", c>>)
  /\ stage' = [stage EXCEPT ![c] = "live"]
  /\ UNCHANGED <<ops, clients, byServer, servers, gone, presence, leaving, counted, casts, snaps,
                 view, member, admin, changes>>

----------------------------------------------------------------------------
(* Unregister: by the connection's own handler once Register returned, by   *)
(* RevokeSession (or a full queue) as soon as the client is indexed, or by  *)
(* AddUserToServer when the channel access cannot be loaded.                *)
MayUnregister(c) ==
  \/ stage[c] = "live" /\ "disconnect" \in ops
  \/ stage[c] \in {"indexed", "announcing", "live"} /\ "revokeSession" \in ops
  \/ c \in admin.drop

Detach(c) ==
  /\ MayUnregister(c) /\ c \in clients
  /\ gone' = [gone EXCEPT ![c] = TRUE]
  /\ clients' = clients \ {c}
  /\ byServer' = [s \in Servers |-> IF s \in servers[c] THEN byServer[s] \ {c} ELSE byServer[s]]
  /\ leaving' = leaving \cup {c}
  /\ UNCHANGED <<ops, servers, presence, stage, counted, casts, snaps, view, member, admin, changes>>

(* removeClientServer *)
removeClientServer(c, s, announce, by) ==
  /\ s \in servers[c]
  /\ servers' = [servers EXCEPT ![c] = @ \ {s}]
  /\ byServer' = [byServer EXCEPT ![s] = @ \ {c}]
  /\ presence' = Decrement(s, Owner(c))
  /\ counted' = [counted EXCEPT ![c] = @ \ {s}]
  /\ casts' = casts \cup (IF announce /\ BecameOffline(s, Owner(c))
                         THEN {Cast(by, s, Owner(c), "offline")} ELSE {})

(* unregisterPresence, one server at a time. *)
UnregisterServer(c, s) ==
  /\ c \in leaving
  /\ removeClientServer(c, s, TRUE, <<"unregister", c>>)
  /\ UNCHANGED <<ops, clients, gone, stage, leaving, snaps, view, member, admin, changes>>

----------------------------------------------------------------------------
(* broadcastPresence.  The key lock of the user is held from the first      *)
(* check to the last enqueue.                                               *)
Status(s, u) == IF presence[s][u] > 0 THEN "online" ELSE "offline"
KeyFree(u) == \A k \in casts : k.u = u => k.at = "waiting"
(* A mutant: broadcasts of one user are not serialized. *)
KeyFreeAlways(u) == TRUE
HoldsKey(u) == KeyFree(u)

CastLock(k) ==
  /\ k.at = "waiting" /\ HoldsKey(k.u)
  /\ casts' = (casts \ {k}) \cup
       (IF Status(k.s, k.u) = k.status THEN {[k EXCEPT !.at = "saving"]} ELSE {})
  /\ UNCHANGED <<ops, registry, gone, stage, leaving, snaps, view, member, admin, changes>>

(* currentStatus() == status once the last-seen time is stored. *)
Recheck(k) == Status(k.s, k.u) = k.status

CastRecheck(k) ==
  /\ k.at = "saving"
  /\ casts' = (casts \ {k}) \cup
       (IF Recheck(k) THEN {[k EXCEPT !.at = "listing"]} ELSE {})
  /\ UNCHANGED <<ops, registry, gone, stage, leaving, snaps, view, member, admin, changes>>

(* clientsForServer *)
CastList(k) ==
  /\ k.at = "listing"
  /\ casts' = (casts \ {k}) \cup {[k EXCEPT !.at = "sending", !.to = byServer[k.s]]}
  /\ UNCHANGED <<ops, registry, gone, stage, leaving, snaps, view, member, admin, changes>>

CastSend(k) ==
  /\ k.at = "sending"
  /\ casts' = casts \ {k}
  /\ view' = [c \in Conns |->
       IF c \in k.to /\ ~gone[c]
       THEN [view[c] EXCEPT ![k.s] = IF k.status = "online" THEN @ \cup {k.u} ELSE @ \ {k.u}]
       ELSE view[c]]
  /\ UNCHANGED <<ops, registry, gone, stage, leaving, snaps, member, admin, changes>>

(* sendPresenceSnapshot, after the broadcasts of the same call. *)
SnapRead(n) ==
  /\ n.at = "reading" /\ \A k \in casts : k.by # n.by
  /\ snaps' = (snaps \ {n}) \cup {[n EXCEPT !.at = "sending", !.got = {<<s, Online(s)>> : s \in n.ss}]}
  /\ UNCHANGED <<ops, registry, gone, stage, leaving, casts, view, member, admin, changes>>

SnapSend(n) ==
  /\ n.at = "sending"
  /\ snaps' = snaps \ {n}
  /\ view' = IF gone[n.c] THEN view
             ELSE [view EXCEPT ![n.c] = [s \in Servers |->
                     IF s \in n.ss THEN (CHOOSE g \in n.got : g[1] = s)[2] ELSE @[s]]]
  /\ UNCHANGED <<ops, registry, gone, stage, leaving, casts, member, admin, changes>>

----------------------------------------------------------------------------
(* Membership changes: the service commits the row, then calls the hub. *)
Commit(op, u, s) ==
  /\ admin.at = "idle" /\ op \in ops /\ changes < MaxAdmin
  /\ IF op = "add" THEN s \notin member[u] ELSE s \in member[u]
  /\ member' = [v \in Users |-> IF op = "add" THEN IF v = u THEN member[v] \cup {s} ELSE member[v]
                                ELSE IF v = u \/ op = "deleteServer" THEN member[v] \ {s} ELSE member[v]]
  /\ admin' = [op |-> op, u |-> u, s |-> s, at |-> "committed", todo |-> {}, drop |-> {}]
  /\ changes' = changes + 1
  /\ UNCHANGED <<ops, registry, gone, stage, leaving, casts, snaps, view>>

(* The hub's operation takes its lock and the connections to work on; a     *)
(* revocation tells them and the server's other connections.                *)
Begin ==
  /\ admin.at = "committed"
  /\ admin.op # "add" => \A c \in Conns : ~Registering(c)
  /\ LET s == admin.s
         own == ConnsOf(admin.u)
     IN  /\ admin' = [admin EXCEPT !.at = "running",
                                   !.todo = IF admin.op = "deleteServer" THEN byServer[s] ELSE own]
         /\ view' = [c \in Conns |->
              IF admin.op = "add" \/ c \notin byServer[s] \cup own \/ gone[c] THEN view[c]
              ELSE [view[c] EXCEPT ![s] = IF admin.op = "revoke" THEN @ \ {admin.u} ELSE {}]]
  /\ UNCHANGED <<ops, registry, gone, stage, leaving, casts, snaps, member, changes>>

(* A mutant: a client that has left is added too. *)
AddToAnyone(c, s) == s \notin servers[c]
(* AddUserToServer skips a client that has left the registry or is on the   *)
(* server already.                                                          *)
MayAdd(c, s) == c \in clients /\ s \notin servers[c]

(* AddUserToServer is still busy with the connection before: its broadcast  *)
(* and snapshot, or its Unregister.                                         *)
Unregistered(c) == c \in leaving /\ servers[c] = {} /\ ~Busy(<<"unregister", c>>)
Adding == \/ \E d \in Conns : Busy(<<"add", d>>)
          \/ \E d \in admin.drop : ~Unregistered(d)

(* The connection is counted in one critical section.  Then its channel     *)
(* access is loaded and its presence announced; when the load fails the     *)
(* connection is closed and unregistered instead.                           *)
AddUserToServer(c) ==
  /\ admin.at = "running" /\ admin.op = "add" /\ c \in admin.todo /\ ~Adding
  /\ LET s == admin.s IN
     IF MayAdd(c, s)
     THEN /\ servers' = [servers EXCEPT ![c] = @ \cup {s}]
          /\ byServer' = [byServer EXCEPT ![s] = @ \cup {c}]
          /\ presence' = Increment(Owner(c), {s})
          /\ counted' = [counted EXCEPT ![c] = @ \cup {s}]
          /\ \/ /\ casts' = casts \cup {Cast(<<"add", c>>, t, Owner(c), "online") :
                                           t \in BecameOnline(Owner(c), {s})}
                /\ snaps' = snaps \cup {Snap(<<"add", c>>, c, {s})}
                /\ admin' = [admin EXCEPT !.todo = @ \ {c}]
             \/ /\ "loadFails" \in ops
                /\ admin' = [admin EXCEPT !.todo = @ \ {c}, !.drop = @ \cup {c}]
                /\ UNCHANGED <<casts, snaps>>
     ELSE /\ admin' = [admin EXCEPT !.todo = @ \ {c}]
          /\ UNCHANGED <<servers, byServer, presence, counted, casts, snaps>>
  /\ UNCHANGED <<ops, clients, gone, stage, leaving, view, member, changes>>

RevokeFromServer(c) ==
  /\ Revoking /\ c \in admin.todo
  /\ \/ removeClientServer(c, admin.s, FALSE, <<"revoke", c>>)
     \/ admin.s \notin servers[c] /\ UNCHANGED <<servers, byServer, presence, counted, casts>>
  /\ admin' = [admin EXCEPT !.todo = @ \ {c}]
  /\ UNCHANGED <<ops, clients, gone, stage, leaving, snaps, view, member, changes>>

(* RevokeServer ends by deleting the server's counters. *)
Leave ==
  /\ admin.at = "running" /\ admin.todo = {} /\ ~Adding
  /\ IF admin.op = "deleteServer"
     THEN /\ presence' = [presence EXCEPT ![admin.s] = [u \in Users |-> 0]]
          /\ counted' = [c \in Conns |-> counted[c] \ {admin.s}]
     ELSE UNCHANGED <<presence, counted>>
  /\ admin' = NoAdmin
  /\ UNCHANGED <<ops, clients, byServer, servers, gone, stage, leaving, casts, snaps, view, member, changes>>

----------------------------------------------------------------------------
ConnStep(c) ==
  \/ ListMemberships(c) \/ Register(c) \/ RegisterPresence(c) \/ Registered(c)
  \/ Detach(c)
  \/ \E s \in Servers : UnregisterServer(c, s)
  \/ AddUserToServer(c) \/ RevokeFromServer(c)

Deliver ==
  \/ \E k \in casts : CastLock(k) \/ CastRecheck(k) \/ CastList(k) \/ CastSend(k)
  \/ \E n \in snaps : SnapRead(n) \/ SnapSend(n)

HubNext ==
  \/ \E c \in Conns : ConnStep(c)
  \/ Deliver
  \/ \E op \in {"add", "revoke", "deleteServer"}, u \in Users, s \in Servers : Commit(op, u, s)
  \/ Begin \/ Leave

HubSpec == HubInit /\ [][HubNext]_hubVars

----------------------------------------------------------------------------
HubTypeOK ==
  /\ clients \subseteq Conns /\ leaving \subseteq Conns
  /\ byServer \in [Servers -> SUBSET Conns]
  /\ servers \in [Conns -> SUBSET Servers] /\ counted \in [Conns -> SUBSET Servers]
  /\ gone \in [Conns -> BOOLEAN]
  /\ presence \in [Servers -> [Users -> Nat]]
  /\ stage \in [Conns -> {"new", "listed", "indexed", "announcing", "live"}]
  /\ view \in [Conns -> [Servers -> SUBSET Users]]
  /\ member \in [Users -> SUBSET Servers]
  /\ changes \in 0..MaxAdmin

(* clientsByServer is exactly the inverse of the servers of the registered  *)
(* clients, whatever registrations, disconnects and membership changes      *)
(* interleave: every server broadcast reaches exactly the connections that  *)
(* belong to it.                                                            *)
IndexExact == \A s \in Servers : byServer[s] = {c \in clients : s \in servers[c]}

(* Inductive form: a client is not registered before its handler gets to it. *)
IndexInv ==
  /\ byServer \in [Servers -> SUBSET Conns] /\ servers \in [Conns -> SUBSET Servers]
  /\ stage \in [Conns -> {"new", "listed", "indexed", "announcing", "live"}]
  /\ member \in [Users -> SUBSET Servers] /\ clients \subseteq Conns
  /\ DOMAIN admin = {"op", "u", "s", "at", "todo", "drop"}
  /\ admin.todo \subseteq Conns
  /\ admin.at # "idle" => admin.s \in Servers
  /\ \A c \in clients : stage[c] # "new"
  /\ IndexExact

Count(s, u) == Cardinality({c \in Conns : Owner(c) = u /\ s \in counted[c]})

Members(s) == {u \in Users : s \in member[u]}

(* A member is never counted with fewer connections than were added for     *)
(* them: a disconnect takes away its own connection and no other            *)
(* (decrementPresence).  It takes that no connection is unregistered while  *)
(* it registers, by a revoked session or a failed load; with such a         *)
(* revocation ConnectedIsOnline fails.                                      *)
NeverUnderstated ==
  ops \cap {"revokeSession", "loadFails"} = {} =>
    \A s \in Servers : \A u \in Members(s) : presence[s][u] >= Count(s, u)

(* A member is never counted with more connections than were added for      *)
(* them: the last one to leave takes them offline.  It takes that no        *)
(* membership is added while a connection registers; with such an addition  *)
(* DisconnectedIsOffline fails.                                             *)
NeverOverstated ==
  "add" \notin ops =>
    \A s \in Servers : \A u \in Members(s) : presence[s][u] <= Count(s, u)

(* No operation is under way. *)
Quiescent ==
  /\ casts = {} /\ snaps = {} /\ admin.at = "idle"
  /\ \A c \in leaving : servers[c] = {}
  /\ \A c \in Conns : ~Registering(c)

(* Once nothing is under way, a connection that was there from the start    *)
(* shows exactly the users that are online: delayed last-seen writes,       *)
(* reconnects and reordered broadcasts leave no stale status ("a delayed    *)
(* offline event cannot hide an online user", hub.go:717).  It takes that   *)
(* the connection gets no snapshot meanwhile, which only an added           *)
(* membership sends; with snapshots EveryoneSeesTruth fails.                *)
WatcherSeesTruth ==
  Quiescent /\ "add" \notin ops =>
    \A c \in Watchers \cap clients, s \in Servers :
      s \in servers[c] => view[c][s] \cap Members(s) = Online(s) \cap Members(s)

(* Who is online is counted and shown truthfully: the three above.         *)
PresenceTrue == HubTypeOK /\ NeverUnderstated /\ NeverOverstated /\ WatcherSeesTruth

(* docs/presence-and-channel-members.md: "only their final connection       *)
(* leaving marks them offline".  A user with a registered connection that   *)
(* has completed Register is online on the servers of that connection.      *)
ConnectedIsOnline ==
  \A c \in clients, s \in Servers :
    stage[c] = "live" /\ s \in servers[c] => presence[s][Owner(c)] > 0

(* The same sentence read the other way: once the user's final connection   *)
(* has left they are offline.                                               *)
DisconnectedIsOffline ==
  Quiescent => \A u \in Users, s \in Servers : ConnsOf(u) = {} => presence[s][u] = 0

(* The same document: "The first connection marks a user online".  Once     *)
(* nothing is under way every registered connection shows the users that    *)
(* are online, the one that has just connected included.                    *)
EveryoneSeesTruth ==
  Quiescent => \A c \in clients, s \in Servers : s \in servers[c] => view[c][s] = Online(s)
=============================================================================
