---------------------------- MODULE MCRateLimit ----------------------------
(* RateLimit with satel_task and the httpd task. *)
EXTENDS RateLimit

CONSTANTS satel, httpd, zone_cb, api_auth, api_net

MCKeysOf == [c \in Callers |-> IF c = satel THEN {zone_cb} ELSE {api_auth, api_net}]
=============================================================================
