---------------------------- MODULE MCThrottler ----------------------------
(* Model-checking instances of Throttler: its keys are interchangeable.    *)
EXTENDS Throttler, TLC

KeySymmetry == Permutations(Keys) \cup Permutations(Queues)
=============================================================================
