----------------------------- MODULE MCPlayback -----------------------------
EXTENDS Playback

CONSTANTS u1, u2, s1, s2, i1, i2, v1, v2

AllOps  == {"delete_user", "sync", "delete_server", "toggle_server", "purge", "restart"}
PlayOps == {}

OneHome    == [u \in Users |-> v1]
OwnHomes   == [u \in Users |-> IF u = u1 THEN v1 ELSE v2]
OwnSession == [s \in Sessions |-> IF s = s1 THEN u1 ELSE u2]
=============================================================================
