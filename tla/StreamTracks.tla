---------------------------- MODULE StreamTracks ----------------------------
(***************************************************************************)
(* The media of one stream: the tracks its publisher sends, one of each    *)
(* rendition and audio, what every viewer is sent of them, the exchange of *)
(* offers this takes, and the key frames that are asked of the publisher   *)
(* (src/internal/stream: session.go, room.go and the parts of manager.go   *)
(* that end sessions).                                                     *)
(*                                                                         *)
(* One step is one critical section of negotiationMu, of the room's or the *)
(* gates' mutex.  synchronizeViewers loops over the viewers: those it has  *)
(* still to call are in `due`.  Deadlines, recovery runs and candidates    *)
(* work as in VoiceSession; here a recovery run is a RestartICE at any     *)
(* time and an expired deadline a failure at any time.  Rate limited       *)
(* recovery requests do nothing and are left out.                          *)
(***************************************************************************)
EXTENDS Integers, FiniteSets

CONSTANTS Viewers, Renditions,
          Shows         \* what is published in each behaviour, and bounds on the
                        \* sessions of viewers, the ICE restarts, and the losses of
                        \* a picture or a connection

VARIABLES show,        \* room.renditions and audio, and the bounds
          live,        \* sessions in the manager's table
          choice,      \* selectedRenditionID of each viewer
          tracks,      \* room.tracks
          forward,     \* forwardTrack for each track
          senders,     \* the tracks each viewer's peer connection sends
          sections,    \* viewers whose peer connection has transceivers
          offered,     \* sessions with an offer out (not SignalingStateStable)
          pending,     \* negotiationPending
          restart,     \* iceRestartPending
          due,         \* viewers with a synchronizeViewerTracks under way
          joining,     \* ... with force, by Watch
          renewing,    \* publisher with a restartICE under way in acceptAnswer
          failing,     \* sessions with a failSession under way
          connected,   \* sessions whose connection is up
          ssrc,        \* videoSSRC
          gate,        \* keyframeGates
          told,        \* history: the tracks of each viewer's last offer
          bare,        \* history: viewers that were offered no media section
          stranded,    \* history: viewers present when their rendition ended
          fresh,       \* history: viewers that got a key frame since they connected
          watches, restarts, reports

exchange == <<offered, pending, restart, told, bare>>
keyframes == <<gate, fresh>>
bounds == <<watches, restarts, reports>>
vars == <<show, live, choice, tracks, forward, senders, sections, offered, pending, restart, due,
          joining, renewing, failing, connected, ssrc, gate, told, bare, stranded, fresh, bounds>>

Publisher == "publisher"
Audio == "audio"
Keys == Renditions \cup {Audio}
Watching == live \ {Publisher}
Closed == [recent |-> FALSE, pending |-> FALSE, fired |-> FALSE]

(* StartWithRenditions has made the room, the publisher and its first      *)
(* offer.                                                                  *)
Init ==
  /\ show \in Shows /\ live = {Publisher} /\ choice \in [Viewers -> Renditions \cap show.tracks]
  /\ tracks = {} /\ forward = [k \in Keys |-> "none"]
  /\ senders = [v \in Viewers |-> {}] /\ sections = {}
  /\ offered = {Publisher} /\ pending = {} /\ restart = {}
  /\ told = [v \in Viewers |-> {}] /\ bare = {} /\ stranded = {}
  /\ due = {} /\ joining = {} /\ renewing = {} /\ failing = {} /\ connected = {}
  /\ ssrc = {} /\ gate = [r \in Renditions |-> Closed] /\ fresh = {}
  /\ watches = 0 /\ restarts = 0 /\ reports = 0

(* WatchRenditionForPublisher: in the room, then synchronized with force.  *)
Watch(v) ==
  /\ Publisher \in live /\ v \notin live /\ watches < show.watches /\ watches' = watches + 1
  /\ live' = live \cup {v} /\ joining' = joining \cup {v}
  /\ UNCHANGED <<show, stranded, choice, tracks, forward, senders, sections, exchange, due, renewing, failing,
                 connected, ssrc, keyframes, restarts, reports>>

----------------------------------------------------------------------------
(* createOfferLocked, for a session whose exchange is at rest; an offer    *)
(* that finds no client fails the session, which may happen at any time.   *)
Offer(p, sending, secs) ==
  /\ offered' = offered \cup {p} /\ pending' = pending \ {p} /\ restart' = restart \ {p}
  /\ told' = [v \in Viewers |-> IF v = p THEN sending ELSE told[v]]
  /\ bare' = IF p = Publisher \/ p \in secs THEN bare ELSE bare \cup {p}

(* trackSnapshot: audio and the selected rendition.                        *)
trackSnapshot(v) == tracks \cap {Audio, choice[v]}

(* synchronizeViewerTracks.  Without a track and a transceiver there is    *)
(* nothing to offer yet.  The mutant forgets a change that comes while an  *)
(* answer is due.                                                          *)
NothingDeferred(v) == UNCHANGED exchange
Defer(v) == pending' = pending \cup {v} /\ UNCHANGED <<offered, restart, told, bare>>

synchronizeViewerTracks(v, force) ==
  LET wanted == trackSnapshot(v)
      secs == sections \cup {v}
  IN IF wanted = {} /\ v \notin sections
     THEN UNCHANGED <<senders, sections, exchange>>
     ELSE /\ senders' = [senders EXCEPT ![v] = wanted] /\ sections' = secs
          /\ IF wanted = senders[v] /\ ~force /\ v \notin pending \cup restart
             THEN UNCHANGED exchange
             ELSE IF v \in offered THEN Defer(v) ELSE Offer(v, wanted, secs)

Synchronize(v) ==
  /\ \/ v \in joining /\ joining' = joining \ {v} /\ UNCHANGED due /\ synchronizeViewerTracks(v, TRUE)
     \/ v \in due /\ due' = due \ {v} /\ UNCHANGED joining /\ synchronizeViewerTracks(v, FALSE)
  /\ UNCHANGED <<show, stranded, live, choice, tracks, forward, renewing, failing, connected, ssrc, keyframes,
                 bounds>>

(* restartICE: at once, or after the answer that is due.                   *)
restartICE(p) ==
  IF p \in offered THEN restart' = restart \cup {p} /\ UNCHANGED <<offered, pending, told, bare>>
  ELSE Offer(p, IF p = Publisher THEN {} ELSE senders[p], sections)

(* ... by a recovery run of a connection that was up, or on the viewer's   *)
(* request.                                                                *)
RestartICE(p) ==
  /\ restarts < show.restarts /\ restarts' = restarts + 1
  /\ p \in live /\ p \in connected \cup Viewers
  /\ restartICE(p)
  /\ UNCHANGED <<show, stranded, live, choice, tracks, forward, senders, sections, due, joining, renewing,
                 failing, connected, ssrc, keyframes, watches, reports>>

(* acceptAnswer: what was deferred is offered by the step that follows.    *)
AcceptAnswer(p) ==
  /\ p \in live \cap offered /\ offered' = offered \ {p}
  /\ due' = IF p # Publisher /\ p \in pending \cup restart THEN due \cup {p} ELSE due
  /\ renewing' = IF p = Publisher /\ p \in restart THEN {p} ELSE renewing
  /\ UNCHANGED <<show, stranded, live, choice, tracks, forward, senders, sections, pending, restart, told,
                 bare, joining, failing, connected, ssrc, keyframes, bounds>>

Renew(p) ==
  /\ p \in renewing /\ renewing' = {}
  /\ restartICE(p)
  /\ UNCHANGED <<show, stranded, live, choice, tracks, forward, senders, sections, due, joining, failing,
                 connected, ssrc, keyframes, bounds>>

----------------------------------------------------------------------------
(* session.requestKeyFrame: at once, or for the timer when another was     *)
(* asked for less than publisherKeyFrameInterval ago.  The mutant has no   *)
(* trailing request.                                                       *)
Reached(r, up) == {v \in up : choice[v] = r}
RequestOnce(r, known, up, kept) ==
  IF Publisher \notin live \/ r \notin known \/ gate[r].recent
  THEN UNCHANGED gate /\ fresh' = kept
  ELSE gate' = [gate EXCEPT ![r].recent = TRUE] /\ fresh' = kept \cup Reached(r, up)
RequestKeyFrame(r, known, up, kept) ==
  IF Publisher \notin live \/ r \notin known
  THEN UNCHANGED gate /\ fresh' = kept
  ELSE IF gate[r].recent
  THEN gate' = [gate EXCEPT ![r].pending = TRUE] /\ fresh' = kept
  ELSE gate' = [gate EXCEPT ![r].recent = TRUE] /\ fresh' = kept \cup Reached(r, up)

(* The interval ends, and with it the timer's wait; flushKeyFrame runs     *)
(* after that, possibly after another request was sent at once.            *)
IntervalEnds(r) ==
  /\ Publisher \in live /\ gate[r].recent
  /\ gate' = [gate EXCEPT ![r].recent = FALSE, ![r].fired = @ \/ gate[r].pending]
  /\ UNCHANGED <<show, stranded, live, choice, tracks, forward, senders, sections, exchange, due, joining,
                 renewing, failing, connected, ssrc, fresh, bounds>>

FlushKeyFrame(r) ==
  /\ Publisher \in live /\ gate[r].fired
  /\ gate' = [gate EXCEPT ![r] = [recent |-> TRUE, pending |-> FALSE, fired |-> FALSE]]
  /\ fresh' = IF r \in ssrc THEN fresh \cup Reached(r, connected \ {Publisher})
              ELSE fresh
  /\ UNCHANGED <<show, stranded, live, choice, tracks, forward, senders, sections, exchange, due, joining,
                 renewing, failing, connected, ssrc, bounds>>

(* handleConnectionState(Connected), which a viewer answers with a request *)
(* for a key frame; and a viewer's report of picture loss                  *)
(* (drainViewerRTCP, RecoveryActionKeyframe).                              *)
Connected(p) ==
  /\ p \in live \ offered /\ (p = Publisher \/ p \in sections)
  /\ p \notin connected /\ connected' = connected \cup {p}
  /\ IF p = Publisher THEN UNCHANGED keyframes
     ELSE RequestKeyFrame(choice[p], ssrc, connected' \ {Publisher}, fresh \ {p})
  /\ UNCHANGED <<show, stranded, live, choice, tracks, forward, senders, sections, exchange, due, joining,
                 renewing, failing, ssrc, bounds>>

Disconnected(p) ==
  /\ p \in connected /\ reports < show.reports /\ reports' = reports + 1
  /\ connected' = connected \ {p}
  /\ UNCHANGED <<show, stranded, live, choice, tracks, forward, senders, sections, exchange, due, joining,
                 renewing, failing, ssrc, keyframes, watches, restarts>>

PictureLost(v) ==
  /\ v \in live \cap connected /\ choice[v] \in senders[v]
  /\ reports < show.reports /\ reports' = reports + 1
  /\ RequestKeyFrame(choice[v], ssrc, connected \ {Publisher}, fresh)
  /\ UNCHANGED <<show, stranded, live, choice, tracks, forward, senders, sections, exchange, due, joining,
                 renewing, failing, connected, ssrc, watches, restarts>>

----------------------------------------------------------------------------
Go(k, at) == forward' = [forward EXCEPT ![k] = at]

(* forwardTrack, from its look at closed ...                               *)
TrackArrives(k) ==
  /\ Publisher \in live \ offered /\ k \in show.tracks /\ forward[k] = "none" /\ Go(k, "adding")
  /\ UNCHANGED <<show, stranded, live, choice, tracks, senders, sections, exchange, due, joining, renewing,
                 failing, connected, ssrc, keyframes, bounds>>

(* ... adds the track if the room still has its publisher ...              *)
AddTrack(k) ==
  /\ forward[k] = "adding"
  /\ IF Publisher \in live
     THEN tracks' = tracks \cup {k} /\ Go(k, "added") /\ UNCHANGED failing
     ELSE failing' = failing \cup {Publisher} /\ Go(k, "done") /\ UNCHANGED tracks
  /\ UNCHANGED <<show, stranded, live, choice, senders, sections, exchange, due, joining, renewing, connected,
                 ssrc, keyframes, bounds>>

(* ... asks for the first key frame, which nobody could ask for before,    *)
(* and synchronizes the viewers of that moment ...                         *)
AnnounceTrack(k) ==
  /\ forward[k] = "added" /\ Go(k, "reading")
  /\ due' = due \cup Watching
  /\ IF k = Audio THEN UNCHANGED <<ssrc, keyframes>>
     ELSE ssrc' = ssrc \cup {k} /\ RequestKeyFrame(k, ssrc', connected \ {Publisher}, fresh)
  /\ UNCHANGED <<show, stranded, live, choice, tracks, senders, sections, exchange, joining, renewing, failing,
                 connected, bounds>>

(* ... and reads until the track ends or exceeds its bit rate.  A second   *)
(* track of the same key is refused; both of these end the publisher.      *)
ReadEnds(k) ==
  /\ forward[k] = "reading" /\ Go(k, "ended")
  /\ failing' \in {failing, failing \cup {Publisher}}
  /\ UNCHANGED <<show, stranded, live, choice, tracks, senders, sections, exchange, due, joining, renewing,
                 connected, ssrc, keyframes, bounds>>

Duplicate(k) ==
  /\ Publisher \in live /\ k \in tracks /\ Publisher \notin failing
  /\ failing' = failing \cup {Publisher}
  /\ UNCHANGED <<show, stranded, live, choice, tracks, forward, senders, sections, exchange, due, joining,
                 renewing, connected, ssrc, keyframes, bounds>>

(* Then the track goes ...                                                 *)
RemoveTrack(k) ==
  /\ forward[k] = "ended" /\ Go(k, IF k \in tracks THEN "removed" ELSE "done")
  /\ ssrc' = ssrc \ {k} /\ tracks' = tracks \ {k}
  /\ UNCHANGED <<show, stranded, live, choice, senders, sections, exchange, due, joining, renewing, failing,
                 connected, keyframes, bounds>>

(* ... viewers of a rendition that ended are failed, and the end of audio  *)
(* is synchronized.  The mutant only synchronizes.                         *)
EndedSynchronized(k) == due' = due \cup Watching /\ UNCHANGED failing
Ended(k) ==
  IF k = Audio THEN due' = due \cup Watching /\ UNCHANGED failing
  ELSE failing' = failing \cup {v \in Watching : choice[v] = k} /\ UNCHANGED due

TrackEnded(k) ==
  /\ forward[k] = "removed" /\ Go(k, "done") /\ Ended(k)
  /\ stranded' = stranded \cup {v \in Watching : choice[v] = k}
  /\ UNCHANGED <<show, live, choice, tracks, senders, sections, exchange, joining, renewing,
                 connected, ssrc, keyframes, bounds>>

----------------------------------------------------------------------------
(* Manager.leave, by the hub, a failure or a lost client: the publisher    *)
(* takes the viewers and the tracks along (closeSnapshot).  A closed       *)
(* session does nothing any more, so that nothing is kept of it.           *)
leave(p) ==
  LET gone == IF p = Publisher THEN live ELSE {p}
  IN /\ live' = live \ gone /\ connected' = connected \ gone
     /\ tracks' = IF p = Publisher THEN {} ELSE tracks
     /\ senders' = [v \in Viewers |-> IF v \in gone THEN {} ELSE senders[v]]
     /\ sections' = sections \ gone /\ due' = due \ gone /\ joining' = joining \ gone
     /\ renewing' = renewing \ gone /\ fresh' = fresh \ gone
     /\ offered' = offered \ gone /\ pending' = pending \ gone /\ restart' = restart \ gone
     /\ told' = [v \in Viewers |-> IF v \in gone THEN {} ELSE told[v]]
     /\ bare' = bare \ gone /\ stranded' = stranded \ gone

Leave(p) ==
  /\ p \in live /\ leave(p) /\ failing' = failing \ {p}
  /\ UNCHANGED <<show, choice, forward, ssrc, gate, bounds>>

FailSession(p) ==
  /\ p \in failing /\ failing' = failing \ {p}
  /\ IF p \in live THEN leave(p)
     ELSE UNCHANGED <<live, tracks, senders, sections, exchange, due, joining, renewing, connected,
                      stranded, fresh>>
  /\ UNCHANGED <<show, choice, forward, ssrc, gate, bounds>>

Peers == Viewers \cup {Publisher}
Forwarding(k) ==
  \/ TrackArrives(k) \/ AddTrack(k) \/ AnnounceTrack(k) \/ ReadEnds(k) \/ Duplicate(k)
  \/ RemoveTrack(k) \/ TrackEnded(k)
Session(p) ==
  \/ RestartICE(p) \/ AcceptAnswer(p) \/ Renew(p) \/ Connected(p) \/ Disconnected(p)
  \/ Leave(p) \/ FailSession(p)

Next ==
  \/ \E k \in Keys : Forwarding(k)
  \/ \E p \in Peers : Session(p)
  \/ \E v \in Viewers : Watch(v) \/ Synchronize(v) \/ PictureLost(v)
  \/ \E r \in Renditions : IntervalEnds(r) \/ FlushKeyFrame(r)

Spec == Init /\ [][Next]_vars

----------------------------------------------------------------------------
Settled ==
  /\ due = {} /\ joining = {} /\ renewing = {} /\ failing = {}
  /\ \A k \in Keys : forward[k] \in {"none", "reading", "done"}

(* When all callbacks and synchronizations are over, a viewer is sent the  *)
(* audio and the selected rendition, as far as the publisher sends them,   *)
(* and no viewer is left whose rendition ended while it was being sent     *)
(* (forwardTrack, synchronizeViewerTracks).                                *)
ViewersServed ==
  Settled => \A v \in Watching :
    /\ senders[v] = trackSnapshot(v)
    /\ choice[v] \in tracks <=> forward[choice[v]] = "reading"
    /\ v \notin stranded

(* Once no answer is due, a viewer has been offered just what it is sent:  *)
(* a change of tracks or an ICE restart that came while one was due is     *)
(* offered as soon as the answer is in (acceptAnswer).                     *)
OfferFollows ==
  \A v \in Watching \ (offered \cup due \cup joining) :
    v \in sections => told[v] = senders[v] /\ v \notin restart

(* A viewer that connected gets a key frame after that, however its        *)
(* request met the arrival of the track and other requests                 *)
(* (requestKeyFrame, flushKeyFrame).                                       *)
KeyFrameAfterConnecting ==
  \A v \in Watching \cap connected :
    choice[v] \in ssrc /\ Publisher \in live => v \in fresh \/ gate[choice[v]].pending

(* No viewer is offered a description without a media section, whose       *)
(* answer would lack ICE credentials (synchronizeViewerTracks).  It fails: *)
(* restartICE does not look.                                               *)
OffersCarryMedia == bare = {}
=============================================================================
