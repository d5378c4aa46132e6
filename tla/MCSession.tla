----------------------------- MODULE MCSession ------------------------------
(* Session for TLC.                                                          *)
EXTENDS Session

\* No datagram can reach either end any more, and no process can be started.
Apart ==
    /\ ~MayStart
    /\ \/ \E n \in Ends : pc[n] = "off"
       \/ Connected("server") /\ peeraddr # starts["client"]

\* Nobody hears what the ends still send then: a send matters only if it leaves
\* an error to an end that has something to read.  What waits in the sockets is read
\* to the end.
Heard ==
    Apart => \/ seq' = seq \/ pc' # pc
             \/ \E n \in Ends : sock[n] # << >> /\ soerr'[n] /\ ~soerr[n]
=============================================================================
