-------------------------- MODULE PrewarmedGeneric --------------------------
(***************************************************************************)
(* pool/prewarmed_generic.go: PoolSize VMs off one rootfs serve every      *)
(* language.  Acquire ignores the language it is asked for, so there is    *)
(* one channel and every caller competes for it.                           *)
(***************************************************************************)
EXTENDS VMPool

newPrewarmedGeneric == Init

refill(v) ==
  \/ SemAcquire(v) \/ SemAbandon(v)
  \/ BootOK(v) \/ BootFail(v)
  \/ Send(v) \/ SendAbandon(v)

Acquire(c) ==
  \/ Receive(c) \/ ReceiveNil(c) \/ AcquireCancelled(c)
  \/ CheckClosed(c) \/ Respawn(c)

\* After Close has closed the only channel it returns.
Close ==
  \/ CloseCancel \/ CloseWait \/ CloseWoken
  \/ \E k \in Keys : CloseDrain(k)
  \/ CloseReturn

Next ==
  \/ \E v \in VMs : refill(v)
  \/ \E c \in Callers, k \in Keys : AcquireEnter(c, k)
  \/ \E c \in Callers : Acquire(c) \/ ReleaseOrDiscard(c)
  \/ CancelCallers \/ CloseStore \/ Close

Spec == newPrewarmedGeneric /\ [][Next]_vars
=============================================================================
