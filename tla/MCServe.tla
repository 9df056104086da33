-------------------------------- MODULE MCServe --------------------------------
EXTENDS ServeProcess, TLC

CONSTANTS r1, r2
=============================================================================
