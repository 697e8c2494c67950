--------------------------- MODULE MCMessaging ---------------------------
(* Three messages are enough for one that kills the receiver between two   *)
(* others; the amounts are on either side of the thresholds.               *)
EXTENDS Messaging
==========================================================================
