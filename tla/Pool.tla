-------------------------------- MODULE Pool --------------------------------
(***************************************************************************)
(* pool/pool.go: New picks the strategy of the configuration, and from     *)
(* there on Acquire, Release, Discard and Close are that strategy's.  The  *)
(* generic pool has one channel for every language; the capacity of the    *)
(* spare's channels is one, whatever PoolSize is.                          *)
(***************************************************************************)
EXTENDS Integers, Sequences, FiniteSets

CONSTANTS
  Langs,      \* the registry's languages
  Generic,    \* the channel of the generic pool
  PoolSize,   \* DREDD_POOL_SIZE
  BootConcurrency, Callers, NoVM, MaxCalls, MaxFailures

ASSUME PoolAssumption ==
  /\ PoolSize \in Nat \ {0}
  /\ BootConcurrency \in Int
  /\ MaxCalls \in Nat
  /\ MaxFailures \in Nat
  /\ NoVM \notin (Langs \cup {Generic}) \X Nat
  /\ IsFiniteSet(Callers)   \* cfg.Workers of them

VARIABLES
  stage, spawned, chan, chanClosed, closed, cancelled, closer, ctxDone, pc,
  want, got, calls, failures, panic,   \* of VMPool
  strategy                             \* cfg.PoolStrategy

poolVars == <<stage, spawned, chan, chanClosed, closed, cancelled, closer,
              ctxDone, pc, want, got, calls, failures, panic>>
vars == <<poolVars, strategy>>

L == INSTANCE PrewarmedPerLang WITH Keys <- Langs, Size <- PoolSize
G == INSTANCE PrewarmedGeneric WITH Keys <- {Generic}, Size <- PoolSize
S == INSTANCE OnDemandSpare WITH Keys <- Langs, Size <- 1

PerLang == strategy = "prewarmed_per_lang"
OneForAll == strategy = "prewarmed_generic"
Spare == strategy = "ondemand_spare"

New ==
  \/ PerLang /\ L!newPrewarmedPerLang
  \/ OneForAll /\ G!newPrewarmedGeneric
  \/ Spare /\ S!newOnDemandSpare

Refill ==
  \/ PerLang /\ \E v \in L!VMs : L!refill(v)
  \/ OneForAll /\ \E v \in G!VMs : G!refill(v)
  \/ Spare /\ \E v \in S!VMs : S!refillSpare(v)

AcquireEnter(c, l) ==
  \/ PerLang /\ L!AcquireEnter(c, l)
  \/ OneForAll /\ G!AcquireEnter(c, Generic)
  \/ Spare /\ S!AcquireEnter(c, l)

Acquire(c) ==
  \/ PerLang /\ L!Acquire(c)
  \/ OneForAll /\ G!Acquire(c)
  \/ Spare /\ S!Acquire(c)

Close ==
  \/ PerLang /\ L!Close
  \/ OneForAll /\ G!Close
  \/ Spare /\ S!Close

Init == strategy \in {"prewarmed_per_lang", "prewarmed_generic", "ondemand_spare"}
          /\ New

Next ==
  /\ \/ Refill \/ Close
     \/ \E c \in Callers, l \in Langs : AcquireEnter(c, l)
     \/ \E c \in Callers : Acquire(c) \/ S!ReleaseOrDiscard(c)
     \/ S!CancelCallers \/ S!CloseStore
  /\ UNCHANGED strategy

Spec == Init /\ [][Next]_vars

\* Running goroutines run: refills, which are short, one at a time; boots and
\* exchanges end; channels and the semaphore serve those that wait.  Nobody is
\* forced to call Acquire or Close or to be cancelled.
Fairness ==
  /\ WF_poolVars(Refill) /\ WF_poolVars(Close)
  /\ \A c \in Callers :
       WF_poolVars(Acquire(c)) /\ WF_poolVars(S!ReleaseOrDiscard(c))

FairSpec == Spec /\ Fairness

-----------------------------------------------------------------------------
\* OneOwner of VMPool, whatever the strategy: in particular a VM a caller has
\* booted for itself is never drained by Close or taken by another caller.
OneOwner ==
  CASE PerLang -> L!OneOwner [] OneForAll -> G!OneOwner [] Spare -> S!OneOwner

\* PoolConserved of VMPool, whatever the strategy: the callers of the generic
\* pool share one bound, and boots of callers never count as spares.
PoolConserved ==
  CASE PerLang -> L!PoolConserved
    [] OneForAll -> G!PoolConserved
    [] Spare -> S!PoolConserved

\* NoSendOnClosed and NothingLeftIdle of VMPool: no strategy's Close sends on
\* a closed channel or returns with a booted VM left in the pool.
CloseIsClean ==
  /\ panic # "send on closed channel"
  /\ closer = "done" => \A v \in DOMAIN stage : stage[v] \notin {"idle", "ready"}

FailedOf(k) == {v \in DOMAIN stage : v[1] = k /\ stage[v] = "failed"}

\* Acquire returns, unless the process panics: in the prewarmed pools as long
\* as failed boots have not cost its channel every VM, since a caller waits
\* only for other callers and for boots; with a spare always, since a caller
\* boots its own VM and never waits for another.
AcquireReturns ==
  \A c \in Callers :
    (pc[c] \in {"select", "booting"}) ~>
      \/ pc[c] \notin {"select", "booting"}
      \/ ~Spare /\ Cardinality(FailedOf(want[c])) >= PoolSize
      \/ panic # "none"

\* Close returns, unless the process panics.
CloseReturns == closed ~> (closer = "done" \/ panic # "none")
=============================================================================
