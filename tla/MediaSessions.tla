--------------------------- MODULE MediaSessions ---------------------------
(***************************************************************************)
(* What the voice manager promises the hub: a connection has at most one   *)
(* session, a session is installed where there was none, and a failure is  *)
(* reported once, for a session that was the connection's until then.      *)
(***************************************************************************)
EXTENDS Naturals

CONSTANTS Conns, Sessions
VARIABLES session,   \* the session of each connection, 0 for none
          reported,  \* sessions whose failure the hub has been told of
          used       \* sessions installed so far

avars == <<session, reported, used>>

AInit == session = [c \in Conns |-> 0] /\ reported = {} /\ used = {}

Install(c, s) ==
  /\ session[c] = 0 /\ s \notin used
  /\ session' = [session EXCEPT ![c] = s]
  /\ used' = used \cup {s} /\ UNCHANGED reported

Remove(c) ==
  /\ session[c] # 0
  /\ session' = [session EXCEPT ![c] = 0]
  /\ UNCHANGED <<reported, used>>

Fail(c) ==
  /\ session[c] # 0 /\ session[c] \notin reported
  /\ session' = [session EXCEPT ![c] = 0]
  /\ reported' = reported \cup {session[c]} /\ UNCHANGED used

Shut == session' = [c \in Conns |-> 0] /\ UNCHANGED <<reported, used>>

ANext ==
  \/ \E c \in Conns : Remove(c) \/ Fail(c) \/ \E s \in Sessions : Install(c, s)
  \/ Shut

ASpec == AInit /\ [][ANext]_avars
=============================================================================
