------------------------------- MODULE MCApp -------------------------------
(* Instance of App for TLC. *)
EXTENDS App, TLC

\* A pool size of zero, which FromEnv raises, and defaults.
SmallEnv ==
  [languagesFile |-> TRUE, kernelPath |-> TRUE, genericRootfs |-> FALSE,
   strategy |-> "unset", poolSize |-> Number(0),
   bootConcurrency |-> [kind |-> "junk", n |-> 0],
   workerConcurrency |-> Number(2), resultTTL |-> Unset]
=============================================================================
