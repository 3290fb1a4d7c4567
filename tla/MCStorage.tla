----------------------------- MODULE MCStorage -----------------------------
(* Attachments and recordings, of which a behaviour runs one while the     *)
(* other rests in an initial state: three uploads and a forwarded copy of  *)
(* the first, and two recordings of up to two chunks.                      *)
EXTENDS Storage

CONSTANTS r1, r2

MCIds == 1..4
MCTemps == {7, 9, 10}
MCSize == <<100, 200, 100, 100>>
MCCategory == <<"files", "files", "files", "images">>
MCSource == <<1, 2, 1, 4>>
MCQuotas == {100, 300}

Load(ops, ids, n, kills, pauses, present) ==
  [ops |-> ops, ids |-> ids, requests |-> n, crashes |-> kills,
   interrupts |-> pauses, rows |-> present]

MCLoads ==
  { Load({"upload", "send", "schedule"}, {1}, 3, 1, 1, {}),
    Load({"upload", "copy", "quota"}, {2, 3}, 3, 0, 0, {1}),
    Load({"copy", "revoke", "unsend"}, {1, 3}, 3, 1, 0, {1}),
    Load({"upload", "thumbnail", "revoke"}, {4}, 3, 1, 0, {}),
    Load({"thumbnail", "cleanup", "unsend"}, {4}, 4, 1, 1, {4}),
    Load({"cleanup", "copy"}, {3}, 3, 1, 0, {1}),
    Load({"schedule", "send", "unsend"}, {1, 2}, 5, 0, 1, {1, 2}) }

Recording(ops, recs, n, kills, lost) ==
  [ops |-> ops, recs |-> recs, requests |-> n, crashes |-> kills, losses |-> lost]

MCRecordings ==
  { Recording({"start", "stop"}, {r1, r2}, 4, 0, 0),
    Recording({"start", "stop", "heartbeat"}, {r1}, 3, 1, 1),
    Recording({"start", "stop", "preview", "quota"}, {r1}, 4, 0, 0),
    Recording({"start", "stop", "delete", "preview"}, {r1}, 4, 1, 0),
    Recording({"start", "stop", "expire"}, {r1}, 3, 0, 1),
    Recording({"start", "stop", "delete", "cascade"}, {r1}, 4, 1, 0) }
=============================================================================
