------------------------------- MODULE MCPush -------------------------------
\* Two images of different lengths.
EXTENDS Push

ShortAndLong == [short |-> 1, long |-> 2]
ShortLong == {"short", "long"}
=============================================================================
