---------------------------- MODULE MCStreamHub ----------------------------
(* Streams in three parts, of which a behaviour runs one while the others  *)
(* rest in an initial state: the catalogue with its rooms and sessions     *)
(* (three connections, two channels), the media of one stream (two         *)
(* viewers), and the choice of renditions (single requests).               *)
EXTENDS StreamHub, TLC

CONSTANTS a, b, d, ch1, ch2, v1, v2

VARIABLES part,
          show, live, choice, tracks, forward, senders, sections, offered, pending, restart, due,
          joining, renewing, failing, connected, ssrc, gate, told, bare, stranded, fresh,
          watches, restarts, reports,
          stage, request, running, selected, codec

MCConns == {a, b, d}
MCChannels == {ch1, ch2}

Alone == [c \in MCConns |-> c]
Twins == [c \in MCConns |-> IF c = b THEN a ELSE c]
Together == [c \in MCConns |-> ch1]

Load(ops, publish, watchers, n) ==
  [ops |-> ops, user |-> Alone, voice |-> Together, modes |-> {"server"}, legacy |-> {},
   publish |-> publish, watch |-> watchers, starts |-> n, failures |-> 0, changes |-> 0]

Requests == {Load({"leave"}, {a}, {b, d}, 3), Load({"leave"}, {a, b}, {d}, 2)}
Failures == {[Load({"leave", "media"}, {a}, {b}, 3) EXCEPT !.failures = 1],
             [Load({"leave", "peer"}, {a, b}, {}, 2) EXCEPT !.failures = 1]}
Moves == {[Load({"leave", "join"}, {a}, {b}, 2) EXCEPT !.changes = 2],
          [Load({"join"}, {a, b, d}, {}, 3) EXCEPT !.changes = 1]}
Revocations == {[Load({"revoke", "remove"}, {a, b}, {d}, 3) EXCEPT !.changes = 2]}
Drops == {[Load({"drop", "reset"}, {a}, {b}, 3) EXCEPT !.changes = 2]}
Peers == {[Load({"leave", "full"}, {a}, {b, d}, 2) EXCEPT !.modes = {"p2p"}]}
Tabs == {[Load({"join", "drop"}, {a, b}, {d}, 2) EXCEPT !.user = Twins, !.voice[b] = "none", !.changes = 2]}
Legacy == {[Load({}, {a, b}, {}, 3) EXCEPT !.legacy = {d}, !.failures = 1],
           [Load({"leave"}, {b}, {}, 2) EXCEPT !.legacy = {b, d}]}
MCWorkloads == Requests \cup Failures \cup Moves \cup Revocations \cup Drops \cup Peers \cup Tabs \cup Legacy

MCViewers == {v1, v2}
Interchangeable == Permutations(MCViewers)
MCRenditions == {"sdr", "hdr"}
Show(keys, w, i, n) == [tracks |-> keys, watches |-> w, restarts |-> i, reports |-> n]
MCShows == {Show({"sdr", "hdr"}, 1, 0, 0), Show({"sdr", "audio"}, 1, 0, 0), Show({"sdr", "audio"}, 0, 1, 0),
            Show({"sdr"}, 2, 0, 1), Show({"sdr"}, 1, 2, 0), Show({"sdr"}, 0, 3, 0)}
Media == INSTANCE StreamTracks WITH Viewers <- MCViewers, Renditions <- MCRenditions, Shows <- MCShows
media == <<show, live, choice, tracks, forward, senders, sections, offered, pending, restart, due,
           joining, renewing, failing, connected, ssrc, gate, told, bare, stranded, fresh,
           watches, restarts, reports>>

Pairs == {<<"vp8", "">>, <<"vp9", "0">>, <<"vp9", "2">>, <<"h264", "baseline">>, <<"h264", "high">>,
          <<"av1", "main">>, <<"av1", "main10">>}
SDR(c) == [id |-> "sdr", codec |-> c, range |-> "sdr", depth |-> TRUE, profile |-> ""]
SomeRenditions ==
  {[id |-> id, codec |-> p[1], profile |-> p[2], range |-> range, depth |-> TRUE] :
     id \in {"sdr", "hdr"}, p \in Pairs, range \in {"sdr", "hdr10", "hlg"}}
Odd == [SDR("vp8") EXCEPT !.depth = FALSE]
Lists == {<<>>} \cup {<<r>> : r \in SomeRenditions \cup {Odd, [Odd EXCEPT !.id = "", !.depth = TRUE]}}
         \cup {<<r, s>> : r \in SomeRenditions, s \in SomeRenditions}
         \cup {<<SDR("vp8"), SDR("vp8"), SDR("vp8")>>}
NoAble == [ranges |-> {}, profiles |-> {}]
MCRequests == {[codec |-> c, list |-> l, mode |-> m, able |-> NoAble] :
                 c \in {"vp8", "vp9", "h264"}, l \in Lists, m \in {"server", "p2p"}}
MCCapabilities == {[ranges |-> r, profiles |-> p] :
                     r \in SUBSET {"hdr10", "hlg"}, p \in SUBSET {<<"vp9", "2">>, <<"av1", "main10">>}}
Policy == INSTANCE StreamRenditions WITH Requests <- MCRequests, Capabilities <- MCCapabilities
policy == <<stage, request, running, selected, codec>>

MCInit ==
  /\ part \in {"hub", "media", "policy"}
  /\ Init /\ Media!Init /\ Policy!Init
  /\ part # "hub" => load = CHOOSE l \in Workloads : TRUE
  /\ part # "media" => /\ show = CHOOSE s \in MCShows : TRUE
                       /\ choice = [v \in MCViewers |-> "sdr"]
  /\ part # "policy" => request = CHOOSE r \in MCRequests : TRUE

MCNext ==
  \/ part = "hub" /\ Next /\ UNCHANGED <<part, media, policy>>
  \/ part = "media" /\ Media!Next /\ UNCHANGED <<part, vars, policy>>
  \/ part = "policy" /\ Policy!Next /\ UNCHANGED <<part, vars, media>>

MCSpec == MCInit /\ [][MCNext]_<<part, vars, media, policy>>

(* Viewers get what they watch: the tracks and offers they are owed, a key *)
(* frame after they connect (forwardTrack, synchronizeViewerTracks,        *)
(* requestKeyFrame), in a rendition they can decode, on which the hub and  *)
(* the media server agree (selectStreamRendition, ValidRenditions).        *)
ViewersServed ==
  /\ part = "media" => Media!ViewersServed /\ Media!OfferFollows /\ Media!KeyFrameAfterConnecting
  /\ part = "policy" => Policy!ViewerCanDecode /\ Policy!LayersAgree
=============================================================================
