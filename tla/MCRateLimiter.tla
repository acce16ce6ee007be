--------------------------- MODULE MCRateLimiter ---------------------------
(* One operator, two classes with different limits, a window of two ticks. *)
EXTENDS RateLimiterThreads, TLC

MCLimits == [c \in Classes |-> IF c = "broad" THEN 1 ELSE 2]

Symmetry == Permutations(Threads)
=============================================================================
