------------------------------- MODULE MCQueue -------------------------------
(* A small instance of the send queue. *)
EXTENDS NotificationQueue

\* All alerts are for the same user.
OneRecipient == [m \in Messages |-> CHOOSE u \in Users : TRUE]
=============================================================================
