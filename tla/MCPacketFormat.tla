-------------------------- MODULE MCPacketFormat ---------------------------
(* Instances of PacketFormat for TLC: every packet with at most two bits   *)
(* set below the four type bits, and some packets of other types.          *)
EXTENDS PacketFormat

MCRawWords ==
    {{60, 61, 63} \cup {a, b} : a, b \in 0 .. 59} \cup {{60, 61, 63}}
        \cup {{61, 63, a} : a \in 0 .. 60}
MCCounters == {{}, {0, 3}, {0, 1, 2, 3}}
============================================================================
