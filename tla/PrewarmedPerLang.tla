-------------------------- MODULE PrewarmedPerLang --------------------------
(***************************************************************************)
(* pool/prewarmed_lang.go: a channel of PoolSize booted VMs per language.  *)
(* Acquire blocks until a VM is in the channel of the language asked for.  *)
(***************************************************************************)
EXTENDS VMPool

newPrewarmedPerLang == Init

refill(v) ==
  \/ SemAcquire(v) \/ SemAbandon(v)
  \/ BootOK(v) \/ BootFail(v)
  \/ Send(v) \/ SendAbandon(v)

Acquire(c) ==
  \/ Receive(c) \/ ReceiveNil(c) \/ AcquireCancelled(c)
  \/ CheckClosed(c) \/ Respawn(c)

Close ==
  \/ CloseCancel \/ CloseWait \/ CloseWoken
  \/ \E k \in Keys : CloseDrain(k)
  \/ CloseReturn

Next ==
  \/ \E v \in VMs : refill(v)
  \/ \E c \in Callers, k \in Keys : AcquireEnter(c, k)
  \/ \E c \in Callers : Acquire(c) \/ ReleaseOrDiscard(c)
  \/ CancelCallers \/ CloseStore \/ Close

Spec == newPrewarmedPerLang /\ [][Next]_vars

\* Goroutines that can run do, every Boot returns (its API calls have
\* timeouts), and so does every exchange.  A channel serves its waiting
\* receivers in order.  That a caller calls Acquire, is cancelled, or that
\* somebody calls Close is not forced.
Fairness ==
  /\ \A v \in VMs : WF_vars(refill(v))
  /\ \A c \in Callers : WF_vars(Acquire(c)) /\ WF_vars(ReleaseOrDiscard(c))
  /\ WF_vars(Close)

FairSpec == Spec /\ Fairness
=============================================================================
