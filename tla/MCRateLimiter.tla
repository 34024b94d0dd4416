--------------------------- MODULE MCRateLimiter ---------------------------
(***************************************************************************)
(* Four callers and room for two buckets, two requests a minute of three   *)
(* ticks: a bucket is empty after two requests and full again after three  *)
(* ticks, so the clock runs through several refills.                       *)
(***************************************************************************)
EXTENDS RateLimiter
=============================================================================
