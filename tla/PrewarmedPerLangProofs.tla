----------------------- MODULE PrewarmedPerLangProofs -----------------------
(***************************************************************************)
(* The safety of pool/prewarmed_lang.go for any number of languages, VMs   *)
(* and workers: every step is one of VMPoolProofs' PrewarmedStep, whose    *)
(* invariants are OwnInv (ownership and the order of Close) and SupplyInv. *)
(***************************************************************************)
EXTENDS PrewarmedPerLang, VMPoolProofs

LEMMA NextIsPoolStep == ASSUME [Next]_vars PROVE [PrewarmedStep]_vars
BY DEF Next, refill, Acquire, Close, PrewarmedStep, Refill, Call, Closing

LEMMA SpecOwnInv == Spec => []OwnInv
<1>1. newPrewarmedPerLang => OwnInv
  BY InitOwnInv DEF newPrewarmedPerLang
<1>2. OwnInv /\ [Next]_vars => OwnInv'
  BY NextIsPoolStep, StepOwnInv
<1> QED
  BY <1>1, <1>2, PTL DEF Spec

LEMMA SpecSupplyInv == Spec => []SupplyInv
<1>1. newPrewarmedPerLang => SupplyInv
  BY InitSupply DEF newPrewarmedPerLang
<1>2. OwnInv /\ OwnInv' /\ SupplyInv /\ [Next]_vars => SupplyInv'
  BY NextIsPoolStep, StepSupply
<1> QED
  BY <1>1, <1>2, SpecOwnInv, PTL DEF Spec

\* The variables keep their types.  The bound on the number of boots is not
\* obvious: it holds because each call of Acquire replaces at most one VM.
THEOREM TypeCorrect == Spec => []TypeOK
<1>1. OwnInv => TypeOK
  BY DEF OwnInv
<1> QED
  BY <1>1, SpecOwnInv, PTL

\* A booted VM is in one place of its language's channel or with one worker
\* that asked for that language, never both and never with two, whatever
\* Acquire, Release, the refills and Close do at the same time.
THEOREM VMHasOneOwner == Spec => []OneOwner
BY SpecOwnInv, OwnInvOneOwner, PTL

\* The VMs of a channel, the refills on their way to it and the VMs taken
\* and not yet replaced never exceed PoolSize, so no refill blocks in its
\* send, also when an Acquire races with Close.
THEOREM SupplyBounded == Spec => []PoolConserved
<1>1. SupplyInv => PoolConserved
  BY DEF SupplyInv
<1> QED
  BY <1>1, SpecSupplyInv, PTL

\* Until Close is called a language is short of exactly the VMs whose refill
\* failed: no interleaving of Acquire, cancellation and refills loses one.
THEOREM ShrinksByFailures == Spec => []OnlyFailuresShrink
<1>1. SupplyInv => OnlyFailuresShrink
  BY DEF SupplyInv
<1> QED
  BY <1>1, SpecSupplyInv, PTL

\* The order of Close (closed, cancel, wg.Wait, close) keeps every refill,
\* also one that an Acquire starts after the wait, from sending on a closed
\* channel, for any number of languages, VMs and workers.
THEOREM CloseOrder == Spec => []NoSendOnClosed
<1>1. OwnInv => NoSendOnClosed
  BY DEF OwnInv, PInv
<1> QED
  BY <1>1, SpecOwnInv, PTL

\* When Close has returned no VM is idle in a channel or about to be.
THEOREM CloseDrains == Spec => []NothingLeftIdle
<1>1. OwnInv => NothingLeftIdle
  BY PInvNothingLeft DEF OwnInv
<1> QED
  BY <1>1, SpecOwnInv, PTL

\* No step gives a VM that a worker has held, or one that is dead, to anyone
\* again: Release and Discard both kill.
THEOREM VMIsSingleUse == Spec => SingleUse
<1>1. OwnInv /\ [Next]_vars => [UsedOnce]_vars
  <2>1. CASE UNCHANGED vars
    BY <2>1
  <2>2. CASE Next
    <3>1. PrewarmedStep \/ UNCHANGED vars
      BY <2>2, NextIsPoolStep
    <3> QED
      BY <3>1, StepUsedOnce DEF PoolStep
  <2> QED
    BY <2>1, <2>2
<1>2. SingleUse <=> [][UsedOnce]_vars
  BY DEF SingleUse, UsedOnce
<1> QED
  BY <1>1, <1>2, SpecOwnInv, PTL DEF Spec
=============================================================================
