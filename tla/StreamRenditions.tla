-------------------------- MODULE StreamRenditions --------------------------
(***************************************************************************)
(* Which renditions a stream may have and which of them a viewer gets: the *)
(* policy both layers share (src/internal/streamcontract/renditions.go),   *)
(* its use by the hub (normalizeStreamRenditions, selectStreamRendition in *)
(* realtime/stream_hub.go), by the media server (StartWithRenditions) and  *)
(* the codecs negotiated for them (stream/manager.go, session.go).         *)
(*                                                                         *)
(* A rendition is its identifier, codec, profile and dynamic range; its    *)
(* bit depth and colours are either those of its range or not ("depth").   *)
(* Identifiers are either well formed or the empty one.                    *)
(***************************************************************************)
EXTENDS Integers, Sequences, FiniteSets

CONSTANTS Requests,     \* stream.start: codec, list of renditions, mode
          Capabilities  \* stream.watch: dynamic ranges, codecs with profiles

VARIABLES stage,     \* how far the request is
          request,
          running,   \* the renditions of the stream
          selected,  \* SelectedRenditionID
          codec      \* the descriptor the publisher's answer takes for it

vars == <<stage, request, running, selected, codec>>

MaxRenditions == 2
Codecs == {"vp8", "vp9", "h264", "av1"}
Entries(list) == {list[i] : i \in DOMAIN list}

validSDRProfile(r) ==
  <<r.codec, r.profile>> \in {<<"vp8", "">>, <<"vp9", "0">>, <<"h264", "baseline">>, <<"av1", "main">>}
validHDRProfile(r) == <<r.codec, r.profile>> \in {<<"vp9", "2">>, <<"av1", "main10">>}

(* streamcontract.ValidRenditions.                                         *)
ValidRenditions(list) ==
  /\ Len(list) \in 1..MaxRenditions
  /\ \A r \in Entries(list) :
       /\ r.id # "" /\ r.depth
       /\ \/ r.range = "sdr" /\ validSDRProfile(r)
          \/ r.range \in {"hdr10", "hlg"} /\ validHDRProfile(r)
  /\ \A i, j \in DOMAIN list : i # j => list[i].id # list[j].id /\ list[i].range # list[j].range
  /\ \E r \in Entries(list) : r.range = "sdr"

(* The rendition of a client that names none.                              *)
legacySDR(c) ==
  [id |-> "sdr", codec |-> c, range |-> "sdr", depth |-> TRUE,
   profile |-> CASE c = "vp9" -> "0" [] c = "h264" -> "baseline" [] c = "av1" -> "main" [] OTHER -> ""]

normalizeStreamRenditions(c, list) == IF list = <<>> THEN <<legacySDR(c)>> ELSE list

(* StartStreamWithRenditions of the hub.  The mutant lets the media server *)
(* find out.                                                               *)
HubTrusts(req) == req.codec \in Codecs /\ (req.mode = "p2p" => Len(req.list) = 1)
HubAccepts(req) ==
  LET list == normalizeStreamRenditions(req.codec, req.list)
  IN /\ req.codec \in Codecs /\ ValidRenditions(list)
     /\ req.mode = "p2p" => Len(list) = 1

(* The registered payload types: VP9 once per profile, H.264 twice.        *)
Descriptor(c, p) == [codec |-> c, profile |-> p]
Descriptors ==
  <<Descriptor("vp8", ""), Descriptor("vp9", "0"), Descriptor("vp9", "2"),
    Descriptor("h264", "42e0"), Descriptor("h264", "4200"), Descriptor("av1", "0")>>

Profiles == [vp8 |-> {""}, vp9 |-> {"0", "2"}, h264 |-> {"baseline"}, av1 |-> {"main", "main10"}]

codecParametersForRendition(r) ==
  {d \in Entries(Descriptors) :
     /\ r.profile \in Profiles[r.codec] /\ d.codec = r.codec
     /\ r.codec = "vp9" => d.profile = r.profile}

(* StartWithRenditions of the media server.                                *)
sdrCodec(list) == {r.codec : r \in {s \in Entries(list) : s.range = "sdr"}}
MediaAccepts(req, list) ==
  /\ ValidRenditions(list) /\ sdrCodec(list) = {req.codec}
  /\ \A r \in Entries(list) : codecParametersForRendition(r) # {}

Init ==
  /\ stage = "requested" /\ request \in Requests
  /\ running = <<>> /\ selected = "" /\ codec = Descriptor("", "")

StartStream ==
  /\ stage = "requested"
  /\ IF HubAccepts(request)
     THEN stage' = "announced" /\ running' = normalizeStreamRenditions(request.codec, request.list)
     ELSE stage' = "refused" /\ UNCHANGED running
  /\ UNCHANGED <<request, selected, codec>>

(* startStream goes on to the media server in server mode; what it refuses *)
(* is taken back.                                                          *)
StartMedia ==
  /\ stage = "announced" /\ request.mode = "server"
  /\ stage' = IF MediaAccepts(request, running) THEN "started" ELSE "undone"
  /\ UNCHANGED <<request, running, selected, codec>>

(* selectStreamRendition: the first HDR rendition the viewer can show and  *)
(* decode, or the first SDR one.  The mutant looks at the range only.      *)
FirstOf(list, set) ==
  LET at == {i \in DOMAIN list : list[i] \in set}
  IN IF at = {} THEN "" ELSE list[CHOOSE i \in at : \A j \in at : i <= j].id
Showable(list, able) == {r \in Entries(list) : r.range \in able.ranges \cap {"hdr10", "hlg"}}
SelectByRange(list, able) ==
  IF Showable(list, able) # {} THEN FirstOf(list, Showable(list, able))
  ELSE FirstOf(list, {r \in Entries(list) : r.range = "sdr"})
selectStreamRendition(list, able) ==
  LET good == {r \in Showable(list, able) : <<r.codec, r.profile>> \in able.profiles}
  IN IF good # {} THEN FirstOf(list, good)
     ELSE FirstOf(list, {r \in Entries(list) : r.range = "sdr"})

WatchStream ==
  /\ stage = "started"
  /\ \E able \in Capabilities :
       selected' = selectStreamRendition(running, able) /\ request' = [request EXCEPT !.able = able]
  /\ stage' = "watching"
  /\ UNCHANGED <<running, codec>>

(* The publisher's answer takes one of the payload types preferred for the *)
(* rendition; forwardTrack compares it with the rendition, and a viewer    *)
(* is offered what is compatible with it.                                  *)
Selected == CHOOSE r \in Entries(running) : r.id = selected

codecMatchesRendition(d, r) == d.codec = r.codec /\ (r.codec = "vp9" => d.profile = r.profile)

Negotiate ==
  /\ stage = "watching"
  /\ codec' \in codecParametersForRendition(Selected)
  /\ stage' = IF codecMatchesRendition(codec', Selected) THEN "forwarded" ELSE "failed"
  /\ UNCHANGED <<request, running, selected>>

relayCodecCompatible(d, e) ==
  d.codec = e.codec /\ (d.codec \in {"vp9", "h264", "av1"} => d.profile = e.profile)
viewerCodecPreferences(d) == {e \in Entries(Descriptors) : relayCodecCompatible(e, d)}

Next == StartStream \/ StartMedia \/ WatchStream \/ Negotiate

Spec == Init /\ [][Next]_vars

----------------------------------------------------------------------------
(* A start the hub has announced is refused by the media server only when  *)
(* the codec of the request is not that of its SDR rendition: both layers  *)
(* apply the same policy to the renditions (StartStreamWithRenditions,     *)
(* StartWithRenditions).                                                   *)
LayersAgree == stage = "undone" => sdrCodec(running) # {request.codec}

(* Every viewer of a running stream gets one of its renditions, an HDR one *)
(* only if it can show and decode it and always if it can, and the media   *)
(* server forwards it in a codec the viewer is offered.                    *)
ViewerCanDecode ==
  /\ stage \in {"watching", "forwarded"} =>
       /\ selected \in {r.id : r \in Entries(running)}
       /\ (Selected.range # "sdr") <=>
            \E r \in Entries(running) : r.range # "sdr" /\ r.range \in request.able.ranges
                                        /\ <<r.codec, r.profile>> \in request.able.profiles
       /\ Selected.range = "sdr" \/ <<Selected.codec, Selected.profile>> \in request.able.profiles
  /\ stage # "failed"
  /\ stage = "forwarded" => Cardinality(viewerCodecPreferences(codec)) = 1
=============================================================================
