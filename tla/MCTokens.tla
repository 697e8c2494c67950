---------------------------- MODULE MCTokens ----------------------------
(* Two requests, enough for a race of fetches of which each may win, and  *)
(* generations of signing keys for a rotation within it and one after it. *)
EXTENDS Tokens
=========================================================================
