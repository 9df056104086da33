-------------------------------- MODULE MCMcp --------------------------------
EXTENDS McpSessions, TLC

CONSTANTS c1, c2, c3, a, b
=============================================================================
