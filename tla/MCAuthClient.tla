---------------------------- MODULE MCAuthClient ----------------------------
(* One user's browser.  One tab is enough for every overlap of requests:   *)
(* it starts twice at once, and what it has sent before a reload is, for   *)
(* the server and the cookie, another tab's.                               *)
EXTENDS AuthClient, TLC

CONSTANTS tab1

MCTab(c) == tab1

AlikeRequests == Permutations(Arrivals)
=============================================================================
