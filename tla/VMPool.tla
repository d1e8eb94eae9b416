------------------------------- MODULE VMPool -------------------------------
(***************************************************************************)
(* What the three pool strategies have in common (pool/*.go): channels of  *)
(* booted VMs, refill goroutines counted by a WaitGroup, the semaphore     *)
(* that caps concurrent boots, and Close.  PrewarmedPerLang,               *)
(* PrewarmedGeneric and OnDemandSpare build their constructors, Acquire    *)
(* and Close from these steps.                                             *)
(*                                                                         *)
(* A VM and the goroutine that boots it have one identity, <<k, n>>: the   *)
(* n-th boot for channel k.  A step is one access to state that goroutines *)
(* share: an atomic load or store, a channel operation, WaitGroup.Add,     *)
(* Done and Wait, or the return of Driver.Boot.                            *)
(***************************************************************************)
EXTENDS Integers, Sequences, FiniteSets

CONSTANTS
  Keys,             \* the pool's channels: one per language, or just one
  Size,             \* capacity of a channel and its initial number of refills
  BootConcurrency,  \* DREDD_BOOT_CONCURRENCY
  Callers,          \* goroutines that call Acquire (the workers)
  NoVM,             \* a nil *firecracker.VM
  MaxCalls,         \* bound: calls of Acquire
  MaxFailures       \* bound: boots that fail while their context is live

ASSUME VMPoolAssumption ==
  /\ Size \in Nat \ {0}
  /\ BootConcurrency \in Int
  /\ MaxCalls \in Nat
  /\ MaxFailures \in Nat
  /\ NoVM \notin Keys \X Nat
  /\ IsFiniteSet(Callers)   \* cfg.Workers of them

\* A call of Acquire starts at most one boot.
VMs == Keys \X (1 .. Size + MaxCalls)

Key(v) == v[1]

VARIABLES
  stage,       \* where each boot, and then its VM, is
  spawned,     \* boots started for each channel
  chan,        \* the channels' buffers
  chanClosed,  \* close(ch) has been called
  closed,      \* the pool's atomic flag
  cancelled,   \* the pool's context is cancelled
  closer,      \* where the goroutine that calls Close is
  ctxDone,     \* the callers' context is cancelled
  pc,          \* where each caller is in Execute / Acquire
  want,        \* the channel it takes a VM from
  got,         \* the VM it was given
  calls,       \* how many Acquires have begun
  failures,    \* how many boots have failed while their context was live
  panic        \* the runtime panic that ended the process, "none" before

boots == <<stage, spawned, chan, failures>>
shutdown == <<chanClosed, closed, cancelled, closer>>
callers == <<ctxDone, pc, want, got, calls>>
vars == <<stage, spawned, chan, chanClosed, closed, cancelled, closer, ctxDone,
          pc, want, got, calls, failures, panic>>

\* "queued" waits for the semaphore, "boot" holds a slot of it and "ready"
\* is about to send: these three are goroutines the WaitGroup counts.
\* "asked" and "callboot" are the same for a boot in a caller's goroutine.
Stages == {"unused", "queued", "boot", "ready", "idle", "asked", "callboot",
           "held", "dead", "failed"}
PCs == {"out", "select", "received", "respawn", "booting", "use"}
Panics == {"none", "nil VM", "send on closed channel", "WaitGroup is reused"}

\* A panic in any goroutine ends the process.
Alive == panic = "none"

-----------------------------------------------------------------------------
\* The boot semaphore: a buffered channel, at least one slot.

Slots == IF BootConcurrency < 1 THEN 1 ELSE BootConcurrency

Booting == {v \in VMs : stage[v] \in {"boot", "callboot"}}

\* The goroutines the WaitGroup counts.
Refilling == {v \in VMs : stage[v] \in {"queued", "boot", "ready"}}

Set(v, s) == stage' = [stage EXCEPT ![v] = s]

\* The refill goroutine of v ends with v in stage s: its deferred wg.Done
\* releases Close when no other refill is left.
Done(v, s) ==
  /\ Set(v, s)
  /\ closer' = IF closer = "waiting" /\ Refilling = {v} THEN "woken" ELSE closer
  /\ UNCHANGED <<chanClosed, closed, cancelled>>

-----------------------------------------------------------------------------
\* The refill goroutine.

\* bootSemaphore.acquire: a slot is free.  select may take it even when the
\* context is cancelled.
SemAcquire(v) ==
  /\ Alive
  /\ stage[v] = "queued"
  /\ Cardinality(Booting) < Slots
  /\ Set(v, "boot")
  /\ UNCHANGED <<spawned, chan, failures, shutdown, callers, panic>>

SemAbandon(v) ==
  /\ Alive
  /\ stage[v] = "queued"
  /\ cancelled
  /\ Done(v, "failed")
  /\ UNCHANGED <<spawned, chan, failures, callers, panic>>

\* Driver.Boot returns a VM: each of its API calls needs a live context.
BootOK(v) ==
  /\ Alive
  /\ stage[v] = "boot"
  /\ ~cancelled
  /\ Set(v, "ready")
  /\ UNCHANGED <<spawned, chan, failures, shutdown, callers, panic>>

\* Mutant: a boot the shutdown cancelled keeps its goroutine.
BootFailLiveOnly(v) ==
  /\ Alive
  /\ stage[v] = "boot"
  /\ ~cancelled /\ failures < MaxFailures /\ failures' = failures + 1
  /\ Done(v, "failed")
  /\ UNCHANGED <<spawned, chan, callers, panic>>

\* Driver.Boot returns an error: it is logged and the goroutine ends.
BootFail(v) ==
  /\ Alive
  /\ stage[v] = "boot"
  /\ \/ cancelled /\ UNCHANGED failures
     \/ ~cancelled /\ failures < MaxFailures /\ failures' = failures + 1
  /\ Done(v, "failed")
  /\ UNCHANGED <<spawned, chan, callers, panic>>

\* select sends the VM.
Send(v) ==
  /\ Alive
  /\ stage[v] = "ready"
  /\ IF chanClosed[Key(v)]
       THEN /\ panic' = "send on closed channel"
            /\ UNCHANGED <<stage, chan, shutdown>>
       ELSE /\ Len(chan[Key(v)]) < Size
            /\ chan' = [chan EXCEPT ![Key(v)] = Append(@, v)]
            /\ Done(v, "idle")
            /\ UNCHANGED panic
  /\ UNCHANGED <<spawned, failures, callers>>

\* select sees the cancelled context and kills the VM.
SendAbandon(v) ==
  /\ Alive
  /\ stage[v] = "ready"
  /\ cancelled
  /\ Done(v, "dead")
  /\ UNCHANGED <<spawned, chan, failures, callers, panic>>

-----------------------------------------------------------------------------
\* Acquire, and the Executor around it.

\* closed.Load() at the top of Acquire.
AcquireEnter(c, k) ==
  /\ Alive
  /\ pc[c] = "out"
  /\ calls < MaxCalls
  /\ calls' = calls + 1
  /\ IF closed THEN UNCHANGED <<pc, want>>
               ELSE /\ pc' = [pc EXCEPT ![c] = "select"]
                    /\ want' = [want EXCEPT ![c] = k]
  /\ UNCHANGED <<boots, shutdown, ctxDone, got, panic>>

\* The receive from the channel yields a VM...
Receive(c) ==
  LET k == want[c] IN
  /\ Alive
  /\ pc[c] = "select"
  /\ chan[k] # <<>>
  /\ got' = [got EXCEPT ![c] = Head(chan[k])]
  /\ Set(Head(chan[k]), "held")
  /\ chan' = [chan EXCEPT ![k] = Tail(@)]
  /\ pc' = [pc EXCEPT ![c] = "received"]
  /\ UNCHANGED <<spawned, failures, shutdown, ctxDone, want, calls, panic>>

\* ... or nil, when the channel is closed and drained.
ReceiveNil(c) ==
  /\ Alive
  /\ pc[c] = "select"
  /\ chan[want[c]] = <<>>
  /\ chanClosed[want[c]]
  /\ got' = [got EXCEPT ![c] = NoVM]
  /\ pc' = [pc EXCEPT ![c] = "received"]
  /\ UNCHANGED <<boots, shutdown, ctxDone, want, calls, panic>>

\* select sees that the caller's context is done.
AcquireCancelled(c) ==
  /\ Alive
  /\ pc[c] = "select"
  /\ ctxDone
  /\ pc' = [pc EXCEPT ![c] = "out"]
  /\ UNCHANGED <<boots, shutdown, ctxDone, want, got, calls, panic>>

\* Mutant: Acquire does not replace the VM it takes.
CheckClosedNever(c) ==
  /\ Alive
  /\ pc[c] = "received"
  /\ pc' = [pc EXCEPT ![c] = "use"]
  /\ UNCHANGED <<boots, shutdown, ctxDone, want, got, calls, panic>>

\* The second closed.Load(): whether to replace the VM.
CheckClosed(c) ==
  /\ Alive
  /\ pc[c] = "received"
  /\ pc' = [pc EXCEPT ![c] = IF closed THEN "use" ELSE "respawn"]
  /\ UNCHANGED <<boots, shutdown, ctxDone, want, got, calls, panic>>

\* Mutant: two boots are started for one VM taken.
StartTwice(k, s) ==
  /\ spawned' = [spawned EXCEPT ![k] = @ + 2]
  /\ stage' = [stage EXCEPT ![<<k, spawned[k] + 1>>] = s,
                            ![<<k, spawned[k] + 2>>] = s]

\* The next boot for channel k, which starts in stage s.
Start(k, s) ==
  /\ spawned' = [spawned EXCEPT ![k] = @ + 1]
  /\ Set(<<k, spawned[k] + 1>>, s)

\* wg.Add(1) and go refill.
Respawn(c) ==
  /\ Alive
  /\ pc[c] = "respawn"
  /\ Start(want[c], "queued")
  /\ pc' = [pc EXCEPT ![c] = "use"]
  /\ UNCHANGED <<chan, failures, shutdown, ctxDone, want, got, calls, panic>>

\* Mutant: Release returns the VM to its channel.
ReleaseReuse(c) ==
  /\ Alive
  /\ pc[c] = "use"
  /\ got[c] # NoVM
  /\ Set(got[c], "idle")
  /\ chan' = [chan EXCEPT ![Key(got[c])] = Append(@, got[c])]
  /\ got' = [got EXCEPT ![c] = NoVM]
  /\ pc' = [pc EXCEPT ![c] = "out"]
  /\ UNCHANGED <<spawned, failures, shutdown, ctxDone, want, calls, panic>>

\* Execute talks to the guest and hands the VM back: Release after an answer
\* and Discard after a failure both kill it.  exchange dereferences a nil VM.
ReleaseOrDiscard(c) ==
  /\ Alive
  /\ pc[c] = "use"
  /\ IF got[c] = NoVM
       THEN /\ panic' = "nil VM"
            /\ UNCHANGED <<stage, pc, got>>
       ELSE /\ Set(got[c], "dead")
            /\ got' = [got EXCEPT ![c] = NoVM]
            /\ pc' = [pc EXCEPT ![c] = "out"]
            /\ UNCHANGED panic
  /\ UNCHANGED <<spawned, chan, failures, shutdown, ctxDone, want, calls>>

\* The callers' context is cancelled (the worker was told to stop).
CancelCallers ==
  /\ Alive
  /\ ~ctxDone
  /\ ctxDone' = TRUE
  /\ UNCHANGED <<boots, shutdown, pc, want, got, calls, panic>>

-----------------------------------------------------------------------------
\* Close.

CloseStore ==
  /\ Alive
  /\ closer = "none"
  /\ closed' = TRUE
  /\ closer' = "stored"
  /\ UNCHANGED <<boots, chanClosed, cancelled, callers, panic>>

CloseCancel ==
  /\ Alive
  /\ closer = "stored"
  /\ cancelled' = TRUE
  /\ closer' = "cancelled"
  /\ UNCHANGED <<boots, chanClosed, closed, callers, panic>>

\* Mutant: Close does not wait for the refills.
CloseWaitSkip ==
  /\ Alive
  /\ closer = "cancelled"
  /\ closer' = "drain"
  /\ UNCHANGED <<boots, chanClosed, closed, cancelled, callers, panic>>

\* wg.Wait returns at once when the counter is zero.
CloseWait ==
  /\ Alive
  /\ closer = "cancelled"
  /\ closer' = IF Refilling = {} THEN "drain" ELSE "waiting"
  /\ UNCHANGED <<boots, chanClosed, closed, cancelled, callers, panic>>

\* wg.Wait was released by the last Done: it panics if the counter has been
\* raised again before it looks.
CloseWoken ==
  /\ Alive
  /\ closer = "woken"
  /\ IF Refilling = {} THEN closer' = "drain" /\ UNCHANGED panic
                       ELSE panic' = "WaitGroup is reused" /\ UNCHANGED closer
  /\ UNCHANGED <<boots, chanClosed, closed, cancelled, callers>>

\* Mutant: Close kills every VM of the channel's language.
CloseDrainAll(k) ==
  /\ Alive
  /\ closer = "drain"
  /\ ~chanClosed[k]
  /\ chanClosed' = [chanClosed EXCEPT ![k] = TRUE]
  /\ stage' = [v \in VMs |-> IF Key(v) = k /\ stage[v] \in {"idle", "held"}
                               THEN "dead" ELSE stage[v]]
  /\ chan' = [chan EXCEPT ![k] = <<>>]
  /\ UNCHANGED <<spawned, failures, closed, cancelled, closer, callers, panic>>

\* Mutant: Close closes the channel and forgets what is in it.
CloseDrainOnly(k) ==
  /\ Alive
  /\ closer = "drain"
  /\ ~chanClosed[k]
  /\ chanClosed' = [chanClosed EXCEPT ![k] = TRUE]
  /\ UNCHANGED <<boots, closed, cancelled, closer, callers, panic>>

\* close(ch), and kill what range ch still yields.
CloseDrain(k) ==
  /\ Alive
  /\ closer = "drain"
  /\ ~chanClosed[k]
  /\ chanClosed' = [chanClosed EXCEPT ![k] = TRUE]
  /\ stage' = [v \in VMs |-> IF \E i \in 1..Len(chan[k]) : chan[k][i] = v
                               THEN "dead" ELSE stage[v]]
  /\ chan' = [chan EXCEPT ![k] = <<>>]
  /\ UNCHANGED <<spawned, failures, closed, cancelled, closer, callers, panic>>

CloseReturn ==
  /\ Alive
  /\ closer = "drain"
  /\ \A k \in Keys : chanClosed[k]
  /\ closer' = "done"
  /\ UNCHANGED <<boots, chanClosed, closed, cancelled, callers, panic>>

-----------------------------------------------------------------------------
\* The constructors start Size refills for every channel.
Init ==
  /\ stage = [v \in VMs |-> IF v[2] <= Size THEN "queued" ELSE "unused"]
  /\ spawned = [k \in Keys |-> Size]
  /\ chan = [k \in Keys |-> <<>>]
  /\ chanClosed = [k \in Keys |-> FALSE]
  /\ closed = FALSE
  /\ cancelled = FALSE
  /\ closer = "none"
  /\ ctxDone = FALSE
  /\ pc = [c \in Callers |-> "out"]
  /\ want \in [Callers -> Keys]   \* not read before the first Acquire
  /\ got = [c \in Callers |-> NoVM]
  /\ calls = 0
  /\ failures = 0
  /\ panic = "none"

-----------------------------------------------------------------------------
\* Type invariant.
TypeOK ==
  /\ stage \in [VMs -> Stages]
  /\ spawned \in [Keys -> Size .. Size + calls]
  /\ chan \in [Keys -> Seq(VMs)]
  /\ chanClosed \in [Keys -> BOOLEAN]
  /\ closed \in BOOLEAN /\ cancelled \in BOOLEAN /\ ctxDone \in BOOLEAN
  /\ closer \in {"none", "stored", "cancelled", "waiting", "woken", "drain", "done"}
  /\ pc \in [Callers -> PCs]
  /\ want \in [Callers -> Keys]
  /\ got \in [Callers -> VMs \cup {NoVM}]
  /\ calls \in 0..MaxCalls
  /\ failures \in 0..MaxFailures
  /\ panic \in Panics

InChan(k, v) == \E i \in 1..Len(chan[k]) : chan[k][i] = v

\* A VM has one owner: a place in the channel it was booted for, or one
\* caller that asked for that channel.  In particular Close never kills a VM
\* a caller is using, and no two callers share one.
OneOwner ==
  /\ \A c \in Callers : got[c] # NoVM =>
       stage[got[c]] \in {"held", "asked", "callboot"} /\ Key(got[c]) = want[c]
  /\ \A c, d \in Callers : got[c] = got[d] /\ got[c] # NoVM => c = d
  /\ \A k \in Keys : \A i, j \in 1..Len(chan[k]) :
       /\ stage[chan[k][i]] = "idle" /\ Key(chan[k][i]) = k
       /\ chan[k][i] = chan[k][j] => i = j
  /\ \A v \in VMs : stage[v] = "idle" => InChan(Key(v), v)
  /\ \A v \in VMs : stage[v] = "held" => \E c \in Callers : got[c] = v

\* What channel k has or will have: VMs in it, refills on their way, and
\* callers that have taken a VM and not yet replaced it.
Supply(k) ==
  Len(chan[k]) + Cardinality({v \in Refilling : Key(v) = k})
    + Cardinality({c \in Callers : /\ pc[c] \in {"received", "respawn"}
                                   /\ want[c] = k /\ got[c] # NoVM})

Failed(k) == {v \in VMs : Key(v) = k /\ stage[v] = "failed"}

\* VMs and refills of a channel never exceed its capacity, so a refill never
\* blocks in its send and the memory of the host is bounded, also when an
\* Acquire that raced with Close replaces its VM late.
PoolConserved ==
  \A k \in Keys : Supply(k) <= Size

\* An open pool is short of exactly the VMs whose refill ended in an error
\* (the error is logged and nothing boots another): callers that come and go,
\* are cancelled or fail never cost it one.
OnlyFailuresShrink ==
  ~closed => \A k \in Keys : Supply(k) + Cardinality(Failed(k)) = Size

\* The comment on Close (prewarmed_lang.go:129-133): its order keeps refills
\* from sending on a closed channel, also the refill an Acquire that raced
\* with Close starts late.
NoSendOnClosed == panic # "send on closed channel"

\* Once Close has returned no booted VM is left to the pool: what still runs
\* is with a caller, who will kill it.
NothingLeftIdle ==
  closer = "done" => \A v \in VMs : stage[v] \notin {"idle", "ready"}

\* A VM is single-use: what a caller has held is killed and never pooled again.
SingleUse ==
  [][\A v \in VMs :
       /\ stage[v] = "held" => stage'[v] \in {"held", "dead"}
       /\ stage[v] \in {"dead", "failed"} => stage'[v] = stage[v]]_vars

\* Claim of prewarmed_lang.go:19-21, that the pool keeps Size booted VMs per
\* language: while it is open and no more VMs are taken a channel fills up.
StaysWarm ==
  \A k \in Keys :
    (Len(chan[k]) < Size) ~> (Len(chan[k]) = Size \/ closed \/ panic # "none")

\* Claim of pool.go:20: what Acquire returns without an error is a booted VM.
AcquireGivesVM == \A c \in Callers : pc[c] = "use" => got[c] # NoVM
=============================================================================
