--------------------------- MODULE MCOutgoingQueue ---------------------------
(* Two text channels, lanes of three events, media bursts of two, and the    *)
(* connections below: enough for a full lane to be compacted over two        *)
(* channels, to overflow, and for a burst to be followed by more media.      *)
EXTENDS OutgoingQueue
CONSTANTS c1, c2
Both == {c1, c2}
Client(sync, kinds, channels, revocable, bound) ==
  [messageSync |-> sync, kinds |-> kinds, channels |-> channels,
   revocable |-> revocable, bound |-> bound]
MCClients ==
  { Client(TRUE, {"delta", "unpin"}, {c1, c2}, {}, 2),            \* compaction
    Client(FALSE, {"delta", "unpin", "control"}, {c1}, {}, 3),    \* a legacy client
    Client(TRUE, {"delta", "reactions", "control"}, {c1}, {}, 2), \* reaction revisions
    Client(FALSE, {"read", "presence", "alert", "control"}, {c1}, {}, 2), \* coalescing
    Client(FALSE, {"media", "control"}, {}, {}, 3),               \* the two lanes
    Client(TRUE, {"delta", "snapshot"}, {c1, c2}, {c1}, 2),       \* changing access
    Client(FALSE, {"voice"}, {c1, c2}, {c1}, 3) }                 \* voice events, changing access
=============================================================================
