--------------------------- MODULE OnDemandSpare ---------------------------
(***************************************************************************)
(* pool/ondemand_spare.go: one spare VM per language in a channel of       *)
(* capacity one.  Acquire takes the spare if it is there and otherwise     *)
(* boots a VM in the caller's goroutine, under the caller's context: that  *)
(* boot shares the semaphore with the refills but the WaitGroup does not   *)
(* count it, so Close does not wait for it.                                *)
(***************************************************************************)
EXTENDS VMPool

newOnDemandSpare == Init

refillSpare(v) ==
  \/ SemAcquire(v) \/ SemAbandon(v)
  \/ BootOK(v) \/ BootFail(v)
  \/ Send(v) \/ SendAbandon(v)

\* select takes its default branch and bootFor queues at the semaphore.
BootForBegin(c) ==
  /\ Alive
  /\ pc[c] = "select"
  /\ chan[want[c]] = <<>>
  /\ ~chanClosed[want[c]]
  /\ Start(want[c], "asked")
  /\ got' = [got EXCEPT ![c] = <<want[c], spawned[want[c]] + 1>>]
  /\ pc' = [pc EXCEPT ![c] = "booting"]
  /\ UNCHANGED <<chan, failures, shutdown, ctxDone, want, calls, panic>>

BootForAcquire(c) ==
  /\ Alive
  /\ pc[c] = "booting"
  /\ stage[got[c]] = "asked"
  /\ Cardinality(Booting) < Slots
  /\ Set(got[c], "callboot")
  /\ UNCHANGED <<spawned, chan, failures, shutdown, callers, panic>>

\* Mutant: the boot is not given up when the caller's context is done.
BootForFailStuck(c) ==
  /\ Alive
  /\ pc[c] = "booting"
  /\ stage[got[c]] = "callboot"
  /\ ~ctxDone
  /\ failures < MaxFailures
  /\ failures' = failures + 1
  /\ Set(got[c], "failed")
  /\ got' = [got EXCEPT ![c] = NoVM]
  /\ pc' = [pc EXCEPT ![c] = "out"]
  /\ UNCHANGED <<spawned, chan, shutdown, ctxDone, want, calls, panic>>

\* The boot is given up or fails: Acquire returns an error.
BootForFail(c) ==
  /\ Alive
  /\ pc[c] = "booting"
  /\ \/ ctxDone /\ UNCHANGED failures
     \/ /\ stage[got[c]] = "callboot"
        /\ ~ctxDone
        /\ failures < MaxFailures
        /\ failures' = failures + 1
  /\ Set(got[c], "failed")
  /\ got' = [got EXCEPT ![c] = NoVM]
  /\ pc' = [pc EXCEPT ![c] = "out"]
  /\ UNCHANGED <<spawned, chan, shutdown, ctxDone, want, calls, panic>>

BootForOK(c) ==
  /\ Alive
  /\ pc[c] = "booting"
  /\ stage[got[c]] = "callboot"
  /\ ~ctxDone
  /\ Set(got[c], "held")
  /\ pc' = [pc EXCEPT ![c] = "use"]
  /\ UNCHANGED <<spawned, chan, failures, shutdown, ctxDone, want, got, calls,
                 panic>>

bootFor(c) == BootForBegin(c) \/ BootForAcquire(c) \/ BootForFail(c) \/ BootForOK(c)

Acquire(c) ==
  \/ Receive(c) \/ ReceiveNil(c) \/ CheckClosed(c) \/ Respawn(c)
  \/ bootFor(c)

Close ==
  \/ CloseCancel \/ CloseWait \/ CloseWoken
  \/ \E k \in Keys : CloseDrain(k)
  \/ CloseReturn

Next ==
  \/ \E v \in VMs : refillSpare(v)
  \/ \E c \in Callers, k \in Keys : AcquireEnter(c, k)
  \/ \E c \in Callers : Acquire(c) \/ ReleaseOrDiscard(c)
  \/ CancelCallers \/ CloseStore \/ Close

Spec == newOnDemandSpare /\ [][Next]_vars
=============================================================================
