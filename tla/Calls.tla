---------------------------- MODULE Calls ----------------------------
(* The life of one HTTP call between two services of the platform, as   *)
(* far as its caller's money-moving handlers can tell outcomes apart.   *)
(* gateway-api issues every such call through one httpx client with a   *)
(* 10 s timeout whose transport retries a failed connect only, so a     *)
(* call that reached the callee is never sent a second time.            *)

(*   unsent   the handler has not issued the call                       *)
(*   sent     on the wire, or waiting in the callee                     *)
(*   applied  the callee has done it; the 2xx reply is under way        *)
(*   refused  the callee answered 4xx or 5xx and changed nothing        *)
(*   lost     the connection failed before the callee saw the call      *)
(*   wiped    applied, by an incarnation of the callee whose memory     *)
(*            was lost in a restart since                               *)
CallState == {"unsent", "sent", "applied", "refused", "lost", "wiped"}

\* The callee has executed the call, whatever the caller came to know of it.
Performed == {"applied", "wiped"}

\* httpx raises at once: a connect error, or raise_for_status on a 4xx/5xx.
Failed == {"refused", "lost"}

\* No copy of the call can take effect any more.
Settled(c) == c # "sent"

\* Mutant: the transport retries a call whose reply a restart has cut off.
WipeRetrying(c) == IF c = "applied" THEN "sent" ELSE c

\* What a restart of an in-memory callee makes of the calls it has served.
Wipe(c) == IF c = "applied" THEN "wiped" ELSE c
=======================================================================
