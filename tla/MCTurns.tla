------------------------------- MODULE MCTurns -------------------------------
EXTENDS ChatContext, TLC

CONSTANTS t1, t2, t3, serve, repl, other

(* t1 and t2 are requests of the server, t3 is a line typed in a terminal. *)
HostOf == [t \in Turns |-> IF t = t3 THEN repl ELSE serve]

AllModes     == {-1, 0, 1}
DetailModes  == {-1, 1}
DefaultModes == {0}
=============================================================================
