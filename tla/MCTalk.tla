-------------------------------- MODULE MCTalk --------------------------------
EXTENDS TalkCommand, TLC

CONSTANTS r1, r2, x, long, none
=============================================================================
