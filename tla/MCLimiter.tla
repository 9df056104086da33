------------------------------- MODULE MCLimiter -------------------------------
EXTENDS RateLimiter

CONSTANTS first, second, proxy, h1, h2, h3

(* Two connections from host h1, and one from the proxy on h2.             *)
PeerHosts == [p \in Peers |-> IF p = proxy THEN h2 ELSE h1]

(* One connection of h1 comes as it is, the other names somebody else, and *)
(* the proxy names h1.                                                     *)
Sent == {[peer |-> first, forwarded |-> None], [peer |-> second, forwarded |-> h3],
         [peer |-> proxy, forwarded |-> h1]}

(* No list: all are trusted; the proxy is; a host nobody comes from is.    *)
Lists == {{}, {h2}, {h3}}
=============================================================================
