-------------------------- MODULE MCCaptureOutbox --------------------------
(* An instance of CaptureOutbox for TLC: the queues of all providers. *)
EXTENDS CaptureOutbox

CONSTANTS e1, e2, f1, f2

MCProviders == {"freepik", "higgsfield", "envato", "heygen", "flow", "elevenlabs", "chatgpt", "kling"}

\* Two queues have batches smaller than they; Envato's may overflow, and
\* gives an event up at its first failure; a usage event may fail twice
\* and find itself queued.
MCLimits ==
    [p \in MCProviders |->
        [batch |-> IF p \in {"freepik", "higgsfield"} THEN 1 ELSE 2,
         limit |-> IF p = "envato" THEN 1 ELSE 2,
         attempts |-> IF p = "envato" THEN 0 ELSE 1,
         failures |-> IF p \in {"freepik", "higgsfield", "kling"} THEN 2 ELSE 1]]

=============================================================================
