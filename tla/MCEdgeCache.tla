----------------------------- MODULE MCEdgeCache -----------------------------
(* An instance of EdgeCache for TLC. *)
EXTENDS EdgeCache

CONSTANTS r1, r2, i1, i2

\* All of it; no purge URL; no Redis; no KV store.
MCSetups ==
    {[redis |-> TRUE, kv |-> TRUE, purge |-> TRUE],
     [redis |-> TRUE, kv |-> TRUE, purge |-> FALSE],
     [redis |-> FALSE, kv |-> TRUE, purge |-> TRUE],
     [redis |-> TRUE, kv |-> FALSE, purge |-> TRUE]}

=============================================================================
