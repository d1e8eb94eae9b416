---------------------------- MODULE BootContract ----------------------------
(***************************************************************************)
(* What the pools rely on Driver.Boot for: a call ends, with a VM or with  *)
(* an error; it ends with an error once its context is cancelled, and an   *)
(* error leaves no firecracker process behind.  VMPool's actions BootOK    *)
(* and BootFail are this contract; VMBoot implements it.                   *)
(***************************************************************************)
VARIABLES
  result,     \* "none" while Boot runs, then "vm" or "error"
  cancelled,  \* the context Boot was given is cancelled
  process     \* a firecracker process of this call is running

vars == <<result, cancelled, process>>

Init ==
  /\ result = "none"
  /\ cancelled = FALSE
  /\ process = FALSE

Cancel ==
  /\ ~cancelled
  /\ cancelled' = TRUE
  /\ UNCHANGED <<result, process>>

\* The process comes and goes while Boot runs, and may die after it.
Process ==
  /\ process' = ~process
  /\ result = "none" \/ process
  /\ UNCHANGED <<result, cancelled>>

Return ==
  /\ result = "none"
  /\ \/ result' = "vm" /\ ~cancelled /\ UNCHANGED process
     \/ result' = "error" /\ process' = FALSE
  /\ UNCHANGED cancelled

Next == Cancel \/ Process \/ Return

Spec == Init /\ [][Next]_vars /\ WF_vars(Return)
=============================================================================
