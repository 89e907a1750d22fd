----------------------- MODULE MCNotificationOutbox -----------------------
(* An instance of NotificationOutbox for TLC. *)
EXTENDS NotificationOutbox

CONSTANTS a1, b1, b2, p1, p2

=============================================================================
