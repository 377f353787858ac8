--------------------------- MODULE MCRateLimiter ---------------------------
(* Limit 2 for 20, window 2 for a minute, ban 3 for five minutes. *)
EXTENDS RateLimiter
=============================================================================
