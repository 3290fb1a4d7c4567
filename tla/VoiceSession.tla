---------------------------- MODULE VoiceSession ----------------------------
(***************************************************************************)
(* One voice session of src/internal/voice/session.go from its first offer *)
(* to its end: the offer/answer exchange with changes deferred while an    *)
(* answer is due, the candidates buffered meanwhile, the deadlines of the  *)
(* first exchange (mediahandshake), ICE recovery (webrtcrecovery) and the  *)
(* teardown.                                                               *)
(*                                                                         *)
(* One step is one critical section: of negotiationMu, of the deadline's   *)
(* or the controller's mutex, or one select of a recovery run.  What is    *)
(* sent after an unlock is sent in the same step, since only the client    *)
(* can react to it.  The peer connection (Pion) is external: it changes    *)
(* state by itself and calls back for every change, each time in a new     *)
(* goroutine, so that callbacks overtake each other.                       *)
(***************************************************************************)
EXTENDS Integers, Sequences

CONSTANTS MaxAttempts,    \* Policy.MaxAttempts
          MaxCandidates,  \* MaxPendingICECandidates
          BadCandidates,  \* may Pion refuse a buffered candidate?
          MaxChanges,     \* bound: changes of the connection and of the tracks
          MaxTracks       \* bound: those of them that change the room's tracks

ASSUME SessionAssumption ==
  /\ MaxAttempts \in Nat \ {0} /\ MaxCandidates \in Nat
  /\ MaxChanges \in Nat /\ MaxTracks \in Nat
  /\ BadCandidates \in BOOLEAN

VARIABLES signalling,  \* Pion: "stable" or "have-local-offer"
          remote,      \* Pion: is there a remote description?
          pending,     \* negotiationPending
          restart,     \* iceRestartPending
          buffered,    \* pendingCandidates, counted
          accepting,   \* acceptAnswer after its critical section: "no", "yes", "resync"
          left,        \* candidates it has still to add
          stage,       \* Deadline.stage
          armed,       \* deadline timers running
          fired,       \* deadline timers fired, waiting for the mutex
          expired,     \* has the deadline called expire?
          cancel,      \* Controller.cancel: the run it belongs to, 0 for nil
          runs,        \* the recovery runs so far: where each is
          tries,       \* attempts of each run
          stopped,     \* runs whose cancel channel is closed
          conn,        \* Pion: connection state
          calls,       \* callbacks due, in the order of the changes
          starting,    \* startRecovery after its check of closed: immediate?
          changes, tracks,
          live,        \* is the session in the manager's table?
          ended,      \* session.closed
          closing,     \* removed, close() still to come
          failing,     \* is a failSession under way?
          greeted,     \* history: has the Connected callback run?
          overtaken    \* history: has a later callback run before a Connected one?

negotiation == <<signalling, remote, pending, restart>>
candidates == <<buffered, accepting, left>>
deadline == <<stage, armed, fired, expired>>
recovery == <<cancel, runs, tries, stopped>>
peer == <<conn, calls, starting, changes>>
ending == <<live, ended, closing, failing>>
history == <<greeted, overtaken>>
sessionVars == <<negotiation, candidates, deadline, recovery, peer, tracks, ending, history>>

MaxRuns == MaxChanges
Runs == 1..MaxRuns

(* Join has installed the session, its callbacks and made its first offer. *)
Offered ==
  /\ signalling = "have-local-offer" /\ remote = FALSE
  /\ stage = 1 /\ armed = {1} /\ conn = "new" /\ greeted = FALSE

(* ... or the first exchange is over, the peer connected and its callback  *)
(* has run: a state the session above comes to, from which MaxChanges more *)
(* changes are looked at.                                                  *)
Established ==
  /\ signalling = "stable" /\ remote = TRUE
  /\ stage = 3 /\ armed = {} /\ conn = "connected" /\ greeted = TRUE

SessionInit ==
  /\ Offered \/ Established
  /\ pending = FALSE /\ restart = FALSE
  /\ buffered = 0 /\ accepting = "no" /\ left = 0
  /\ fired = {} /\ expired = FALSE
  /\ cancel = 0 /\ runs = [r \in Runs |-> "none"] /\ tries = [r \in Runs |-> 0] /\ stopped = {}
  /\ calls = <<>> /\ starting = <<>> /\ changes = 0 /\ tracks = 0
  /\ live = TRUE /\ ended = FALSE /\ closing = FALSE /\ failing = FALSE
  /\ overtaken = FALSE

----------------------------------------------------------------------------
(* createOfferLocked and sendOffer: the offer covers all deferred changes. *)
(* The connection may be gone when it is sent, which fails the session.    *)
Offer ==
  /\ signalling' = "have-local-offer"
  /\ pending' = FALSE /\ restart' = FALSE
  /\ failing' \in {failing, TRUE}
  /\ UNCHANGED remote

Unsent == UNCHANGED <<signalling, remote, failing>>

(* synchronizeTracks after a change of the tracks to send, and restartICE. *)
Synchronize ==
  \/ signalling = "stable" /\ Offer
  \/ signalling # "stable" /\ pending' = TRUE /\ Unsent /\ UNCHANGED restart
RestartICE ==
  \/ signalling = "stable" /\ Offer
  \/ signalling # "stable" /\ pending' = TRUE /\ restart' = TRUE /\ Unsent

TracksChange ==
  /\ tracks < MaxTracks /\ changes + tracks < MaxChanges /\ tracks' = tracks + 1
  /\ ~ended /\ Synchronize
  /\ UNCHANGED <<candidates, deadline, recovery, peer, live, ended, closing, history>>

----------------------------------------------------------------------------
(* mediahandshake: Answer moves the deadline to the connection stage, Stop *)
(* finishes it.  A timer already fired is not stopped.                     *)
AnswerDisarms ==
  IF stage = 1
  THEN stage' = 2 /\ armed' = {} /\ UNCHANGED <<fired, expired>>
  ELSE UNCHANGED deadline
Answer ==
  IF stage = 1
  THEN stage' = 2 /\ armed' = {2} /\ UNCHANGED <<fired, expired>>
  ELSE UNCHANGED deadline

Stop == stage' = 3 /\ armed' = {} /\ UNCHANGED <<fired, expired>>

TimerFires(k) ==
  /\ k \in armed /\ armed' = armed \ {k} /\ fired' = fired \cup {k}
  /\ UNCHANGED <<negotiation, candidates, stage, expired, recovery, peer, tracks, ending, history>>

StageUnchecked(k) == stage # 0
StageCurrent(k) == stage = k

TimerRuns(k) ==
  /\ k \in fired /\ fired' = fired \ {k}
  /\ IF StageCurrent(k) THEN stage' = 3 /\ expired' = TRUE /\ failing' = TRUE
     ELSE UNCHANGED <<stage, expired, failing>>
  /\ UNCHANGED <<negotiation, candidates, armed, recovery, peer, tracks, live, ended, closing, history>>

----------------------------------------------------------------------------
(* acceptAnswer: the remote description is set and the buffered candidates *)
(* are taken; a deferred change is noticed, to be offered afterwards.      *)
AnswerUnnoticed == FALSE
ChangeDeferred == pending \/ restart

AcceptAnswer ==
  /\ ~ended /\ accepting = "no" /\ signalling = "have-local-offer"
  /\ signalling' = "stable" /\ remote' = TRUE
  /\ accepting' = IF ChangeDeferred THEN "resync" ELSE "yes"
  /\ left' = buffered /\ buffered' = 0
  /\ Answer
  /\ UNCHANGED <<pending, restart, recovery, peer, tracks, ending, history>>

(* ... each candidate is added, or buffered again when an offer came in    *)
(* between, or refused, which ends acceptAnswer ...                        *)
AddBuffered ==
  /\ accepting # "no" /\ left > 0
  /\ \/ signalling = "stable" /\ ~ended /\ left' = left - 1 /\ UNCHANGED <<buffered, accepting>>
     \/ /\ signalling # "stable" /\ buffered < MaxCandidates /\ ~ended
        /\ buffered' = buffered + 1 /\ left' = left - 1 /\ UNCHANGED accepting
     \/ /\ ended \/ (signalling = "stable" /\ BadCandidates)
        /\ left' = 0 /\ accepting' = "no" /\ UNCHANGED buffered
  /\ UNCHANGED <<negotiation, deadline, recovery, peer, tracks, ending, history>>

(* ... and a deferred change is offered.                                   *)
EndAnswer ==
  /\ accepting # "no" /\ left = 0
  /\ accepting' = "no"
  /\ IF accepting = "resync" /\ ~ended /\ (pending \/ restart)
     THEN Synchronize ELSE UNCHANGED <<negotiation, failing>>
  /\ UNCHANGED <<buffered, left, deadline, recovery, peer, tracks, live, ended, closing, history>>

(* The manager's removal of the session; close() follows.                  *)
RemoveSession == live' = FALSE /\ ended' = TRUE /\ closing' = TRUE

(* addICECandidate before the exchange is over: buffered up to the limit,  *)
(* beyond which the handler leaves the channel.                            *)
AddCandidateUnbounded ==
  /\ ~ended /\ accepting = "no" /\ ~(remote /\ signalling = "stable")
  /\ buffered <= MaxCandidates /\ buffered' = buffered + 1
  /\ UNCHANGED <<negotiation, accepting, left, deadline, recovery, peer, tracks, ending, history>>
AddCandidate ==
  /\ ~ended /\ accepting = "no" /\ ~(remote /\ signalling = "stable")
  /\ \/ buffered < MaxCandidates /\ buffered' = buffered + 1 /\ UNCHANGED <<live, ended, closing>>
     \/ buffered >= MaxCandidates /\ live /\ RemoveSession /\ UNCHANGED buffered
  /\ UNCHANGED <<negotiation, accepting, left, deadline, recovery, peer, tracks, failing, history>>

----------------------------------------------------------------------------
(* webrtcrecovery.  Stop and an immediate Start close the cancel channel   *)
(* of the run under way; a delayed Start lets it be.                       *)
StopRecovery ==
  /\ stopped' = IF cancel = 0 THEN stopped ELSE stopped \cup {cancel}
  /\ cancel' = 0 /\ UNCHANGED <<runs, tries>>

Fresh(r) == runs[r] = "none" /\ \A q \in 1..(r - 1) : runs[q] # "none"

StartLeavesOld(immediate) ==
  \E r \in Runs :
    /\ Fresh(r) /\ cancel' = r
    /\ runs' = [runs EXCEPT ![r] = IF immediate THEN "soon" ELSE "waiting"]
    /\ UNCHANGED <<tries, stopped>>
Start(immediate) ==
  IF cancel # 0 /\ ~immediate THEN UNCHANGED recovery
  ELSE \E r \in Runs :
    /\ Fresh(r) /\ cancel' = r
    /\ stopped' = IF cancel = 0 THEN stopped ELSE stopped \cup {cancel}
    /\ runs' = [runs EXCEPT ![r] = IF immediate THEN "soon" ELSE "waiting"]
    /\ UNCHANGED tries

Go(r, at) == runs' = [runs EXCEPT ![r] = at]

(* wait: the delay ends or the channel is closed.  When both have happened *)
(* select takes either; without a delay only the channel is looked at.     *)
Wait(r) ==
  /\ runs[r] \in {"soon", "waiting"}
  /\ \/ r \in stopped /\ Go(r, "done")
     \/ ~(r \in stopped /\ runs[r] = "soon") /\ Go(r, "checking")
  /\ UNCHANGED <<negotiation, candidates, deadline, cancel, tries, stopped, peer, tracks, ending, history>>

(* The loop's test, and after the last attempt the one before exhausted.   *)
Cancelled(r) == r \in stopped

Check(r) ==
  /\ runs[r] = "checking"
  /\ IF Cancelled(r) THEN Go(r, "done")
     ELSE Go(r, IF tries[r] < MaxAttempts THEN "attempting" ELSE "exhausted")
  /\ UNCHANGED <<negotiation, candidates, deadline, cancel, tries, stopped, peer, tracks, ending, history>>

Attempt(r) ==
  /\ runs[r] = "attempting" /\ Go(r, "waiting")
  /\ tries' = [tries EXCEPT ![r] = @ + 1]
  /\ IF ended THEN UNCHANGED <<negotiation, failing>> ELSE RestartICE
  /\ UNCHANGED <<candidates, deadline, cancel, stopped, peer, tracks, live, ended, closing, history>>

(* exhausted: fails the session unless it is closed or connected again.    *)
ExhaustSilently(r) ==
  /\ runs[r] = "exhausted" /\ Go(r, "clearing")
  /\ UNCHANGED <<negotiation, candidates, deadline, cancel, tries, stopped, peer, tracks, ending, history>>
Exhaust(r) ==
  /\ runs[r] = "exhausted" /\ Go(r, "clearing")
  /\ failing' = (failing \/ (~ended /\ conn # "connected"))
  /\ UNCHANGED <<negotiation, candidates, deadline, cancel, tries, stopped, peer, tracks, live, ended, closing, history>>

Clear(r) ==
  /\ runs[r] = "clearing" /\ Go(r, "done")
  /\ cancel' = IF cancel = r THEN 0 ELSE cancel
  /\ UNCHANGED <<negotiation, candidates, deadline, tries, stopped, peer, tracks, ending, history>>

----------------------------------------------------------------------------
(* Pion: the states a peer connection goes through, without connecting,    *)
(* whose callback does nothing.                                            *)
Follows == [new |-> {"connected", "failed"}, connected |-> {"disconnected", "failed"},
            disconnected |-> {"connected", "failed"}, failed |-> {"connected"},
            closed |-> {}]

PeerChanges ==
  /\ changes + tracks < MaxChanges /\ changes' = changes + 1
  /\ remote
  /\ \E s \in Follows[conn] : conn' = s /\ calls' = Append(calls, s)
  /\ UNCHANGED <<negotiation, candidates, deadline, recovery, starting, tracks, ending, history>>

Without(s, i) == SubSeq(s, 1, i - 1) \o SubSeq(s, i + 1, Len(s))

(* handleConnectionState, of any callback due.                             *)
HandleState ==
  \E i \in DOMAIN calls :
    /\ calls' = Without(calls, i)
    /\ overtaken' = (overtaken \/ \E j \in 1..(i - 1) : calls[j] = "connected")
    /\ \/ /\ calls[i] = "connected" /\ greeted' = TRUE
          /\ Stop /\ StopRecovery /\ UNCHANGED <<starting, failing>>
       \/ /\ calls[i] \in {"disconnected", "failed"}
          /\ starting' = IF ended THEN starting ELSE Append(starting, calls[i] = "failed")
          /\ UNCHANGED <<deadline, recovery, failing, greeted>>
       \/ /\ calls[i] = "closed"
          /\ failing' = (failing \/ ~ended)
          /\ UNCHANGED <<deadline, recovery, starting, greeted>>
    /\ UNCHANGED <<negotiation, candidates, conn, changes, tracks, live, ended, closing>>

(* startRecovery, after it saw the session open.                           *)
StartRecovery ==
  /\ starting # <<>>
  /\ \E i \in DOMAIN starting : Start(starting[i]) /\ starting' = Without(starting, i)
  /\ UNCHANGED <<negotiation, candidates, deadline, conn, calls, changes, tracks, ending, history>>

----------------------------------------------------------------------------
(* failSession removes the session if it is still the manager's, Leave     *)
(* whenever the hub asks; close() comes after either.                      *)
Fail ==
  /\ failing /\ failing' = FALSE
  /\ IF live THEN RemoveSession ELSE UNCHANGED <<live, ended, closing>>
  /\ UNCHANGED <<negotiation, candidates, deadline, recovery, peer, tracks, history>>

LeaveSession ==
  /\ live /\ RemoveSession
  /\ UNCHANGED <<negotiation, candidates, deadline, recovery, peer, tracks, failing, history>>

CloseForgetsPeer ==
  /\ closing /\ closing' = FALSE
  /\ Stop /\ StopRecovery
  /\ UNCHANGED <<negotiation, candidates, peer, tracks, live, ended, failing, history>>
CloseSession ==
  /\ closing /\ closing' = FALSE
  /\ Stop /\ StopRecovery
  /\ conn' = "closed" /\ calls' = Append(calls, "closed")
  /\ UNCHANGED <<negotiation, candidates, starting, changes, tracks, live, ended, failing, history>>

RunStep(r) == Wait(r) \/ Check(r) \/ Attempt(r) \/ Exhaust(r) \/ Clear(r)
TimerStep(k) == TimerFires(k) \/ TimerRuns(k)

SessionNext ==
  \/ TracksChange \/ AcceptAnswer \/ AddBuffered \/ EndAnswer \/ AddCandidate
  \/ \E k \in {1, 2} : TimerStep(k)
  \/ \E r \in Runs : RunStep(r)
  \/ PeerChanges \/ HandleState \/ StartRecovery
  \/ Fail \/ LeaveSession \/ CloseSession

SessionSpec == SessionInit /\ [][SessionNext]_sessionVars

(* Timers fire, and goroutines that started go on.  Nothing is assumed of  *)
(* the client or of the network.                                           *)
FairSessionSpec ==
  /\ SessionSpec
  /\ WF_sessionVars(AddBuffered) /\ WF_sessionVars(EndAnswer)
  /\ \A k \in {1, 2} : WF_sessionVars(TimerFires(k)) /\ WF_sessionVars(TimerRuns(k))
  /\ \A r \in Runs : WF_sessionVars(RunStep(r))
  /\ WF_sessionVars(HandleState) /\ WF_sessionVars(StartRecovery)
  /\ WF_sessionVars(Fail) /\ WF_sessionVars(CloseSession)

----------------------------------------------------------------------------
RunStages == {"none", "soon", "waiting", "checking", "attempting", "exhausted", "clearing", "done"}
States == {"connected", "disconnected", "failed", "closed"}

(* Every field of the session, the deadline and the controller has one of  *)
(* the values the code gives it, and the buffers respect their limits.     *)
TypeOK ==
  /\ signalling \in {"stable", "have-local-offer"} /\ remote \in BOOLEAN
  /\ pending \in BOOLEAN /\ restart \in BOOLEAN
  /\ buffered \in 0..MaxCandidates /\ left \in 0..MaxCandidates
  /\ accepting \in {"no", "yes", "resync"}
  /\ stage \in 0..3 /\ armed \subseteq {1, 2} /\ fired \subseteq {1, 2} /\ expired \in BOOLEAN
  /\ cancel \in 0..MaxRuns /\ runs \in [Runs -> RunStages]
  /\ tries \in [Runs -> 0..MaxAttempts] /\ stopped \subseteq Runs
  /\ conn \in States \cup {"new"} /\ calls \in Seq(States) /\ starting \in Seq(BOOLEAN)
  /\ changes \in 0..MaxChanges /\ tracks \in 0..MaxTracks
  /\ live \in BOOLEAN /\ ended \in BOOLEAN /\ closing \in BOOLEAN /\ failing \in BOOLEAN
  /\ greeted \in BOOLEAN /\ overtaken \in BOOLEAN

(* A change of the tracks or an ICE restart that came while an answer was  *)
(* due is offered when the answer is in: it is never left deferred in an   *)
(* open session with nothing outstanding.                                  *)
DeferredOfferSent ==
  ~ended /\ (pending \/ restart) => signalling # "stable" \/ accepting = "resync"

(* Once the Connected callback has run, the deadline of the first exchange *)
(* does not fail the session any more, even when its timer had fired.      *)
NoExpiryOnceConnected == [][greeted /\ ~expired => ~expired']_sessionVars

(* Only the run whose channel the controller holds goes on: recoveries     *)
(* never compete for the session.                                          *)
OneRecovery(r) ==
  runs[r] \notin {"none", "done"} /\ r \notin stopped => cancel = r

(* The first exchange ends: the session connects or is removed, even when  *)
(* the client never answers.                                               *)
HandshakeEnds == <>(greeted \/ ~live)

(* A session whose connection failed connects again or is removed, unless  *)
(* a Connected callback ran after that of a later change: it stops the     *)
(* recovery that the later one started.                                    *)
RecoveryDecides == (live /\ conn = "failed") ~> (~live \/ conn = "connected" \/ overtaken)

(* docs/streaming.md: sessions whose media path fails "renegotiate fresh   *)
(* ICE credentials with bounded retries and a final grace period".         *)
RecoveryAlwaysDecides == (live /\ conn = "failed") ~> (~live \/ conn = "connected")

(* A removed session comes to rest: no timer, no recovery run and no open  *)
(* peer connection is left behind, also when recovery was starting while   *)
(* the session was being closed.                                           *)
Quiet ==
  /\ armed = {} /\ fired = {} /\ conn = "closed"
  /\ \A r \in Runs : runs[r] \in {"none", "done"}
NothingLeftBehind == ~live ~> []Quiet

(* Timers and recoveries neither compete nor fail a session that has       *)
(* connected.                                                              *)
RecoverySafe == [](\A r \in Runs : OneRecovery(r)) /\ NoExpiryOnceConnected

(* Whatever the client and the network do, a session keeps its buffers in  *)
(* bounds, its first exchange ends, and a removed session comes to rest.   *)
SessionSettles == []TypeOK /\ HandshakeEnds /\ NothingLeftBehind
=============================================================================
