-------------------------------- MODULE MCRun --------------------------------
EXTENDS AgentRun, TLC
=============================================================================
