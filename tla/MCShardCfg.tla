----------------------------- MODULE MCShardCfg -----------------------------
EXTENDS ShardCfg

CONSTANTS a, b, c

Gid3 == 1..3

\* Each group has one server, or two groups claim the same one.
Servers3 == {{a}, {b}, {c}}
=============================================================================
