---------------------------- MODULE MCWorkload ----------------------------
(* One user and the smallest times that keep Timeout, Margin and Lifetime  *)
(* apart; two runs over three rows, the second chunk being incomplete. The *)
(* query leaves out two of the five settled rows: one old, one in JPY.     *)
EXTENDS Workload
===========================================================================
