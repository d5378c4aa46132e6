------------------------------ MODULE MCTunnel ------------------------------
(* Tunnel for TLC.  Sizes are scaled down: what matters is that some packets *)
(* fit in one outer packet, two of them fit together, some need two or three *)
(* outer packets, some end close to the end of one.                          *)
EXTENDS Tunnel, TLC

CONSTANTS p1, p2, p3

ThreePkts == {p1, p2, p3}
\* p1 fits with room to spare, p2 spans two outer packets, or three if it starts
\* late in one, p3 leaves a tail that must be padded.
ThreeLens == (p1 :> 2) @@ (p2 :> 7) @@ (p3 :> 3)

\* Once the receiver was blind the properties promise nothing more, so those
\* states are not explored further.
NotYetBlind == ~blind
=============================================================================
