-------------------------------- MODULE MCGate --------------------------------
EXTENDS TokenGate, TLC

CONSTANTS r1, r2, r3, k1, k2

(* A good token with and without an API key, a bad one, one that lacks a   *)
(* scope, and none.                                                        *)
SomeCredentials ==
  {[key |-> k1,   token |-> "good",   apiKey |-> "none"],
   [key |-> k1,   token |-> "good",   apiKey |-> "right"],
   [key |-> k1,   token |-> "bad",    apiKey |-> "right"],
   [key |-> k1,   token |-> "narrow", apiKey |-> "right"],
   [key |-> None, token |-> "bad",    apiKey |-> "wrong"]}

EveryConfiguration == SUBSET {"oauth", "apiKey"}
=============================================================================
