---------------------------- MODULE MCCommunity ----------------------------
(* Calls of three users, three destinations with two scheduled messages,   *)
(* and one event with two members.                                         *)
EXTENDS Community, TLC

CONSTANTS a, b, c, g

MCUsers     == {a, b, c}
MCGroups    == {g}
MCSessions  == {"s1", "s2"}
MCDevices   == {"d1", "d2"}
MCStrangers == {{a, c}}

Work(kinds, people, convs, sessions, used) ==
    [kinds |-> kinds, people |-> people, open |-> convs, sessions |-> sessions,
     devices |-> used \cup {"none"}, keys |-> IF used = {} THEN <<>> ELSE <<"d1">>]

MCLoads ==
    { Work({"join", "hangup", "leave", "create"}, {a, b}, {{a, b}}, {"s1", "s2"}, {}),
      Work({"join", "hangup", "state", "lapse"}, {a, b}, {{a, b}}, {"s1"}, {}),
      Work({"join", "hangup"}, {a, b}, {{a, b}, g}, {"s1"}, {}),
      Work({"join", "register", "revoke"}, {a, b}, {{a, b}}, {"s1"}, {"d1", "d2"}),
      Work({"join", "block", "privacy", "ban", "create", "leave"}, {a, b, c}, {g}, {"s1"}, {}) }
MCKeys == {<<0, 0>>}
=============================================================================
