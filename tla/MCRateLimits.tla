----------------------------- MODULE MCRateLimits -----------------------------
(* The limiters and their guard on small instances: clocks long enough for
   three windows or two refills, a guard of a limiter that admits two requests
   in each window of two ticks. *)
EXTENDS RateLimits

TwoPerWindow == [d \in 0..GMaxTime |-> ((d \div 2) + 1) * 2]
=============================================================================
