----------------------------- MODULE PacketPipe -----------------------------
(* What a tunnel promises the hosts behind it: every packet that comes out   *)
(* went in, comes out once, and is unchanged.  Packets may get lost and may  *)
(* overtake each other.                                                      *)
EXTENDS Sequences

CONSTANTS Pkts,     \* the packets
          Image(_)  \* the bytes of a packet

VARIABLES in,       \* packets that went in
          out       \* what came out, in order

Init == in = {} /\ out = << >>

Enter == \E p \in Pkts \ in : in' = in \cup {p} /\ out' = out

Leave == \E p \in in :
    /\ \A i \in DOMAIN out : out[i] # Image(p)
    /\ out' = Append(out, Image(p))
    /\ in' = in

Next == Enter \/ Leave

Spec == Init /\ [][Next]_<<in, out>>
=============================================================================
