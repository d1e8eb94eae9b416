----------------------------- MODULE PoolProofs -----------------------------
(***************************************************************************)
(* What the pool promises whatever strategy New picked, for any number of  *)
(* languages, VMs and workers.  The steps of each strategy are the steps   *)
(* VMPoolProofs reasons about, with the channels and the capacity that     *)
(* strategy has; its invariant OwnInv and the bound on the supply carry    *)
(* over.                                                                   *)
(***************************************************************************)
EXTENDS Pool, TLAPS

VL == INSTANCE VMPoolProofs WITH Keys <- Langs, Size <- PoolSize
VG == INSTANCE VMPoolProofs WITH Keys <- {Generic}, Size <- PoolSize
VS == INSTANCE VMPoolProofs WITH Keys <- Langs, Size <- 1

-----------------------------------------------------------------------------
\* prewarmed_lang.go: its steps are steps of VMPoolProofs.

LEMMA LAssumption == VL!VMPoolAssumption
BY PoolAssumption DEF VL!VMPoolAssumption, VL!IsFiniteSet, IsFiniteSet

LEMMA LRefill == ASSUME NEW v, L!refill(v) PROVE VL!Refill(v)
BY DEF L!refill, VL!Refill, L!SemAcquire, VL!SemAcquire, L!SemAbandon,
    VL!SemAbandon, L!BootOK, VL!BootOK, L!BootFail, VL!BootFail, L!Send,
    VL!Send, L!SendAbandon, VL!SendAbandon, L!Alive, VL!Alive, L!Set, VL!Set,
    L!shutdown, VL!shutdown, L!callers, VL!callers, L!boots, VL!boots,
    L!Booting, VL!Booting, L!VMs, VL!VMs, L!Slots, VL!Slots, L!Done, VL!Done,
    L!Refilling, VL!Refilling, L!Key, VL!Key, L!Cardinality, VL!Cardinality

LEMMA LAcquire == ASSUME NEW c, L!Acquire(c) PROVE VL!Call(c)
BY DEF L!Acquire, VL!Call, L!Receive, VL!Receive, L!ReceiveNil, VL!ReceiveNil,
    L!AcquireCancelled, VL!AcquireCancelled, L!CheckClosed, VL!CheckClosed,
    L!Respawn, VL!Respawn, L!Start, VL!Start, L!Alive, VL!Alive, L!Set, VL!Set,
    L!shutdown, VL!shutdown, L!callers, VL!callers, L!boots, VL!boots

LEMMA LEnter ==
  ASSUME NEW c, NEW l \in Langs, L!AcquireEnter(c, l) PROVE VL!Call(c)
BY DEF VL!Call, L!AcquireEnter, VL!AcquireEnter, L!Alive, VL!Alive, L!Set,
    VL!Set, L!shutdown, VL!shutdown, L!callers, VL!callers, L!boots, VL!boots

LEMMA LClose == ASSUME L!Close PROVE VL!Closing
BY DEF L!Close, VL!Closing, L!CloseCancel, VL!CloseCancel, L!CloseWait,
    VL!CloseWait, L!CloseWoken, VL!CloseWoken, L!CloseDrain, VL!CloseDrain,
    L!CloseReturn, VL!CloseReturn, L!Refilling, VL!Refilling, L!VMs, VL!VMs,
    L!Alive, VL!Alive, L!Set, VL!Set, L!shutdown, VL!shutdown, L!callers,
    VL!callers, L!boots, VL!boots

LEMMA LRelease == ASSUME NEW c, S!ReleaseOrDiscard(c) PROVE VL!Call(c)
BY DEF VL!Call, S!ReleaseOrDiscard, VL!ReleaseOrDiscard, S!Alive, VL!Alive,
    S!Set, VL!Set, S!shutdown, VL!shutdown, S!callers, VL!callers, S!boots,
    VL!boots

LEMMA LCancel == ASSUME S!CancelCallers PROVE VL!CancelCallers
BY DEF S!CancelCallers, VL!CancelCallers, S!Alive, VL!Alive, S!Set, VL!Set,
    S!shutdown, VL!shutdown, S!callers, VL!callers, S!boots, VL!boots

LEMMA LStore == ASSUME S!CloseStore PROVE VL!Closing
BY DEF VL!Closing, S!CloseStore, VL!CloseStore, S!Alive, VL!Alive, S!Set,
    VL!Set, S!shutdown, VL!shutdown, S!callers, VL!callers, S!boots, VL!boots

LEMMA LStep ==
  ASSUME PerLang, [Next]_vars
  PROVE  [VL!PrewarmedStep]_VL!vars
<1>1. ASSUME Refill PROVE VL!PrewarmedStep
  <2>1. \E v \in L!VMs : L!refill(v)
    BY <1>1 DEF Refill, PerLang, OneForAll, Spare
  <2> QED
    BY <2>1, LRefill DEF VL!PrewarmedStep, L!VMs, VL!VMs
<1>2. ASSUME NEW c \in Callers, NEW l \in Langs, AcquireEnter(c, l) PROVE VL!PrewarmedStep
  <2>1. L!AcquireEnter(c, l)
    BY <1>2 DEF AcquireEnter, PerLang, OneForAll, Spare
  <2> QED
    BY <2>1, LEnter DEF VL!PrewarmedStep
<1>3. ASSUME NEW c \in Callers, Acquire(c) \/ S!ReleaseOrDiscard(c) PROVE VL!PrewarmedStep
  <2>1. L!Acquire(c) \/ S!ReleaseOrDiscard(c)
    BY <1>3 DEF Acquire, PerLang, OneForAll, Spare
  <2> QED
    BY <2>1, LAcquire, LRelease DEF VL!PrewarmedStep
<1>4. ASSUME Close PROVE VL!PrewarmedStep
  <2>1. L!Close
    BY <1>4 DEF Close, PerLang, OneForAll, Spare
  <2> QED
    BY <2>1, LClose DEF VL!PrewarmedStep
<1>5. ASSUME S!CancelCallers \/ S!CloseStore PROVE VL!PrewarmedStep
  BY <1>5, LCancel, LStore DEF VL!PrewarmedStep
<1>6. ASSUME UNCHANGED vars PROVE UNCHANGED VL!vars
  BY <1>6 DEF vars, poolVars, VL!vars
<1> QED
  BY <1>1, <1>2, <1>3, <1>4, <1>5, <1>6 DEF Next

-----------------------------------------------------------------------------
\* prewarmed_generic.go: its steps are steps of VMPoolProofs.

LEMMA GAssumption == VG!VMPoolAssumption
BY PoolAssumption DEF VG!VMPoolAssumption, VG!IsFiniteSet, IsFiniteSet

LEMMA GRefill == ASSUME NEW v, G!refill(v) PROVE VG!Refill(v)
BY DEF G!refill, VG!Refill, G!SemAcquire, VG!SemAcquire, G!SemAbandon,
    VG!SemAbandon, G!BootOK, VG!BootOK, G!BootFail, VG!BootFail, G!Send,
    VG!Send, G!SendAbandon, VG!SendAbandon, G!Alive, VG!Alive, G!Set, VG!Set,
    G!shutdown, VG!shutdown, G!callers, VG!callers, G!boots, VG!boots,
    G!Booting, VG!Booting, G!VMs, VG!VMs, G!Slots, VG!Slots, G!Done, VG!Done,
    G!Refilling, VG!Refilling, G!Key, VG!Key, G!Cardinality, VG!Cardinality

LEMMA GAcquire == ASSUME NEW c, G!Acquire(c) PROVE VG!Call(c)
BY DEF G!Acquire, VG!Call, G!Receive, VG!Receive, G!ReceiveNil, VG!ReceiveNil,
    G!AcquireCancelled, VG!AcquireCancelled, G!CheckClosed, VG!CheckClosed,
    G!Respawn, VG!Respawn, G!Start, VG!Start, G!Alive, VG!Alive, G!Set, VG!Set,
    G!shutdown, VG!shutdown, G!callers, VG!callers, G!boots, VG!boots

LEMMA GEnter ==
  ASSUME NEW c, G!AcquireEnter(c, Generic) PROVE VG!Call(c)
BY DEF VG!Call, G!AcquireEnter, VG!AcquireEnter, G!Alive, VG!Alive, G!Set,
    VG!Set, G!shutdown, VG!shutdown, G!callers, VG!callers, G!boots, VG!boots

LEMMA GClose == ASSUME G!Close PROVE VG!Closing
BY DEF G!Close, VG!Closing, G!CloseCancel, VG!CloseCancel, G!CloseWait,
    VG!CloseWait, G!CloseWoken, VG!CloseWoken, G!CloseDrain, VG!CloseDrain,
    G!CloseReturn, VG!CloseReturn, G!Refilling, VG!Refilling, G!VMs, VG!VMs,
    G!Alive, VG!Alive, G!Set, VG!Set, G!shutdown, VG!shutdown, G!callers,
    VG!callers, G!boots, VG!boots

LEMMA GRelease == ASSUME NEW c, S!ReleaseOrDiscard(c) PROVE VG!Call(c)
BY DEF VG!Call, S!ReleaseOrDiscard, VG!ReleaseOrDiscard, S!Alive, VG!Alive,
    S!Set, VG!Set, S!shutdown, VG!shutdown, S!callers, VG!callers, S!boots,
    VG!boots

LEMMA GCancel == ASSUME S!CancelCallers PROVE VG!CancelCallers
BY DEF S!CancelCallers, VG!CancelCallers, S!Alive, VG!Alive, S!Set, VG!Set,
    S!shutdown, VG!shutdown, S!callers, VG!callers, S!boots, VG!boots

LEMMA GStore == ASSUME S!CloseStore PROVE VG!Closing
BY DEF VG!Closing, S!CloseStore, VG!CloseStore, S!Alive, VG!Alive, S!Set,
    VG!Set, S!shutdown, VG!shutdown, S!callers, VG!callers, S!boots, VG!boots

LEMMA GStep ==
  ASSUME OneForAll, [Next]_vars
  PROVE  [VG!PrewarmedStep]_VG!vars
<1>1. ASSUME Refill PROVE VG!PrewarmedStep
  <2>1. \E v \in G!VMs : G!refill(v)
    BY <1>1 DEF Refill, PerLang, OneForAll, Spare
  <2> QED
    BY <2>1, GRefill DEF VG!PrewarmedStep, G!VMs, VG!VMs
<1>2. ASSUME NEW c \in Callers, NEW l \in Langs, AcquireEnter(c, l) PROVE VG!PrewarmedStep
  <2>1. G!AcquireEnter(c, Generic)
    BY <1>2 DEF AcquireEnter, PerLang, OneForAll, Spare
  <2> QED
    BY <2>1, GEnter DEF VG!PrewarmedStep
<1>3. ASSUME NEW c \in Callers, Acquire(c) \/ S!ReleaseOrDiscard(c) PROVE VG!PrewarmedStep
  <2>1. G!Acquire(c) \/ S!ReleaseOrDiscard(c)
    BY <1>3 DEF Acquire, PerLang, OneForAll, Spare
  <2> QED
    BY <2>1, GAcquire, GRelease DEF VG!PrewarmedStep
<1>4. ASSUME Close PROVE VG!PrewarmedStep
  <2>1. G!Close
    BY <1>4 DEF Close, PerLang, OneForAll, Spare
  <2> QED
    BY <2>1, GClose DEF VG!PrewarmedStep
<1>5. ASSUME S!CancelCallers \/ S!CloseStore PROVE VG!PrewarmedStep
  BY <1>5, GCancel, GStore DEF VG!PrewarmedStep
<1>6. ASSUME UNCHANGED vars PROVE UNCHANGED VG!vars
  BY <1>6 DEF vars, poolVars, VG!vars
<1> QED
  BY <1>1, <1>2, <1>3, <1>4, <1>5, <1>6 DEF Next

-----------------------------------------------------------------------------
\* ondemand_spare.go: its steps are steps of VMPoolProofs.

LEMMA SAssumption == VS!VMPoolAssumption
BY PoolAssumption DEF VS!VMPoolAssumption, VS!IsFiniteSet, IsFiniteSet

LEMMA SRefill == ASSUME NEW v, S!refillSpare(v) PROVE VS!Refill(v)
BY DEF S!refillSpare, VS!Refill, S!SemAcquire, VS!SemAcquire, S!SemAbandon,
    VS!SemAbandon, S!BootOK, VS!BootOK, S!BootFail, VS!BootFail, S!Send,
    VS!Send, S!SendAbandon, VS!SendAbandon, S!Alive, VS!Alive, S!Set, VS!Set,
    S!shutdown, VS!shutdown, S!callers, VS!callers, S!boots, VS!boots,
    S!Booting, VS!Booting, S!VMs, VS!VMs, S!Slots, VS!Slots, S!Done, VS!Done,
    S!Refilling, VS!Refilling, S!Key, VS!Key, S!Cardinality, VS!Cardinality

LEMMA SAcquire == ASSUME NEW c, S!Acquire(c) PROVE VS!Call(c) \/ VS!O!bootFor(c)
BY DEF S!Acquire, VS!Call, S!Receive, VS!Receive, S!ReceiveNil, VS!ReceiveNil,
    S!CheckClosed, VS!CheckClosed, S!Respawn, VS!Respawn, S!Start, VS!Start,
    S!Alive, VS!Alive, S!Set, VS!Set, S!shutdown, VS!shutdown, S!callers,
    VS!callers, S!boots, VS!boots, S!bootFor, VS!O!bootFor, S!BootForBegin,
    VS!O!BootForBegin, S!BootForAcquire, VS!O!BootForAcquire, S!BootForFail,
    VS!O!BootForFail, S!BootForOK, VS!O!BootForOK, VS!O!Start, VS!O!Alive,
    VS!O!Set, VS!O!shutdown, VS!O!callers, VS!O!boots, VS!O!Booting,
    VS!O!Slots, VS!O!Cardinality, VS!O!VMs, S!Booting, VS!Booting, S!Slots,
    VS!Slots, S!Cardinality, VS!Cardinality, S!VMs, VS!VMs

LEMMA SEnter ==
  ASSUME NEW c, NEW l \in Langs, S!AcquireEnter(c, l) PROVE VS!Call(c)
BY DEF VS!Call, S!AcquireEnter, VS!AcquireEnter, S!Alive, VS!Alive, S!Set,
    VS!Set, S!shutdown, VS!shutdown, S!callers, VS!callers, S!boots, VS!boots

LEMMA SClose == ASSUME S!Close PROVE VS!Closing
BY DEF S!Close, VS!Closing, S!CloseCancel, VS!CloseCancel, S!CloseWait,
    VS!CloseWait, S!CloseWoken, VS!CloseWoken, S!CloseDrain, VS!CloseDrain,
    S!CloseReturn, VS!CloseReturn, S!Refilling, VS!Refilling, S!VMs, VS!VMs,
    S!Alive, VS!Alive, S!Set, VS!Set, S!shutdown, VS!shutdown, S!callers,
    VS!callers, S!boots, VS!boots

LEMMA SRelease == ASSUME NEW c, S!ReleaseOrDiscard(c) PROVE VS!Call(c)
BY DEF VS!Call, S!ReleaseOrDiscard, VS!ReleaseOrDiscard, S!Alive, VS!Alive,
    S!Set, VS!Set, S!shutdown, VS!shutdown, S!callers, VS!callers, S!boots,
    VS!boots

LEMMA SCancel == ASSUME S!CancelCallers PROVE VS!CancelCallers
BY DEF S!CancelCallers, VS!CancelCallers, S!Alive, VS!Alive, S!Set, VS!Set,
    S!shutdown, VS!shutdown, S!callers, VS!callers, S!boots, VS!boots

LEMMA SStore == ASSUME S!CloseStore PROVE VS!Closing
BY DEF VS!Closing, S!CloseStore, VS!CloseStore, S!Alive, VS!Alive, S!Set,
    VS!Set, S!shutdown, VS!shutdown, S!callers, VS!callers, S!boots, VS!boots

LEMMA SStep ==
  ASSUME Spare, [Next]_vars
  PROVE  [VS!PoolStep]_VS!vars
<1>1. ASSUME Refill PROVE VS!PoolStep
  <2>1. \E v \in S!VMs : S!refillSpare(v)
    BY <1>1 DEF Refill, PerLang, OneForAll, Spare
  <2> QED
    BY <2>1, SRefill DEF VS!PoolStep, VS!PrewarmedStep, S!VMs, VS!VMs
<1>2. ASSUME NEW c \in Callers, NEW l \in Langs, AcquireEnter(c, l) PROVE VS!PoolStep
  <2>1. S!AcquireEnter(c, l)
    BY <1>2 DEF AcquireEnter, PerLang, OneForAll, Spare
  <2> QED
    BY <2>1, SEnter DEF VS!PoolStep, VS!PrewarmedStep
<1>3. ASSUME NEW c \in Callers, Acquire(c) \/ S!ReleaseOrDiscard(c) PROVE VS!PoolStep
  <2>1. S!Acquire(c) \/ S!ReleaseOrDiscard(c)
    BY <1>3 DEF Acquire, PerLang, OneForAll, Spare
  <2> QED
    BY <2>1, SAcquire, SRelease DEF VS!PoolStep, VS!PrewarmedStep
<1>4. ASSUME Close PROVE VS!PoolStep
  <2>1. S!Close
    BY <1>4 DEF Close, PerLang, OneForAll, Spare
  <2> QED
    BY <2>1, SClose DEF VS!PoolStep, VS!PrewarmedStep
<1>5. ASSUME S!CancelCallers \/ S!CloseStore PROVE VS!PoolStep
  BY <1>5, SCancel, SStore DEF VS!PoolStep, VS!PrewarmedStep
<1>6. ASSUME UNCHANGED vars PROVE UNCHANGED VS!vars
  BY <1>6 DEF vars, poolVars, VS!vars
<1> QED
  BY <1>1, <1>2, <1>3, <1>4, <1>5, <1>6 DEF Next

-----------------------------------------------------------------------------
\* The invariant of the pool New built.
PoolInv ==
  /\ strategy \in {"prewarmed_per_lang", "prewarmed_generic", "ondemand_spare"}
  /\ PerLang => VL!OwnInv /\ VL!PoolConserved
  /\ OneForAll => VG!OwnInv /\ VG!PoolConserved
  /\ Spare => VS!OwnInv /\ VS!PoolConserved

LEMMA InitPoolInv == ASSUME Init PROVE PoolInv
<1>1. ASSUME PerLang PROVE VL!OwnInv /\ VL!PoolConserved
  <2>1. L!newPrewarmedPerLang
    BY <1>1 DEF Init, New, PerLang, OneForAll, Spare
  <2>2. VL!Init
    BY <2>1 DEF L!newPrewarmedPerLang, L!Init, VL!Init, L!VMs, VL!VMs
  <2> QED
    BY <2>2, LAssumption, VL!InitOwnInv, VL!InitSupply DEF VL!SupplyInv
<1>2. ASSUME OneForAll PROVE VG!OwnInv /\ VG!PoolConserved
  <2>1. G!newPrewarmedGeneric
    BY <1>2 DEF Init, New, PerLang, OneForAll, Spare
  <2>2. VG!Init
    BY <2>1 DEF G!newPrewarmedGeneric, G!Init, VG!Init, G!VMs, VG!VMs
  <2> QED
    BY <2>2, GAssumption, VG!InitOwnInv, VG!InitSupply DEF VG!SupplyInv
<1>3. ASSUME Spare PROVE VS!OwnInv /\ VS!PoolConserved
  <2>1. S!newOnDemandSpare
    BY <1>3 DEF Init, New, PerLang, OneForAll, Spare
  <2>2. VS!Init
    BY <2>1 DEF S!newOnDemandSpare, S!Init, VS!Init, S!VMs, VS!VMs
  <2> QED
    BY <2>2, SAssumption, VS!InitOwnInv, VS!InitSupply DEF VS!SupplyInv
<1> QED
  BY <1>1, <1>2, <1>3 DEF PoolInv, Init

LEMMA StepPoolInv == ASSUME PoolInv, [Next]_vars PROVE PoolInv'
<1>0. strategy' = strategy
  BY DEF Next, vars
<1>1. ASSUME PerLang PROVE VL!OwnInv' /\ VL!PoolConserved'
  <2>1. [VL!PoolStep]_VL!vars
    BY <1>1, LStep DEF VL!PoolStep
  <2>2. VL!OwnInv'
    BY <1>1, <2>1, LAssumption, VL!StepOwnInvSpare DEF PoolInv
  <2> QED
    BY <1>1, <2>1, <2>2, LAssumption, VL!StepConserved DEF PoolInv
<1>2. ASSUME OneForAll PROVE VG!OwnInv' /\ VG!PoolConserved'
  <2>1. [VG!PoolStep]_VG!vars
    BY <1>2, GStep DEF VG!PoolStep
  <2>2. VG!OwnInv'
    BY <1>2, <2>1, GAssumption, VG!StepOwnInvSpare DEF PoolInv
  <2> QED
    BY <1>2, <2>1, <2>2, GAssumption, VG!StepConserved DEF PoolInv
<1>3. ASSUME Spare PROVE VS!OwnInv' /\ VS!PoolConserved'
  <2>1. [VS!PoolStep]_VS!vars
    BY <1>3, SStep
  <2>2. VS!OwnInv'
    BY <1>3, <2>1, SAssumption, VS!StepOwnInvSpare DEF PoolInv
  <2> QED
    BY <1>3, <2>1, <2>2, SAssumption, VS!StepConserved DEF PoolInv
<1> QED
  BY <1>0, <1>1, <1>2, <1>3 DEF PoolInv, PerLang, OneForAll, Spare

LEMMA SpecPoolInv == Spec => []PoolInv
<1>1. Init => PoolInv
  BY InitPoolInv
<1>2. PoolInv /\ [Next]_vars => PoolInv'
  BY StepPoolInv
<1> QED
  BY <1>1, <1>2, PTL DEF Spec

\* Whatever strategy New picks, a VM has one owner: a place in its channel or
\* one worker.  In particular neither Close nor another worker gets a VM that
\* an Acquire of the on-demand pool is booting for its caller.
THEOREM EveryPoolOneOwner == Spec => []OneOwner
<1>1. PoolInv => OneOwner
  <2> SUFFICES ASSUME PoolInv PROVE OneOwner
    OBVIOUS
  <2>1. ASSUME PerLang PROVE L!OneOwner
    <3>1. VL!OneOwner
      BY <2>1, LAssumption, VL!OwnInvOneOwner DEF PoolInv
    <3> QED
      BY <3>1 DEF L!OneOwner, VL!OneOwner, L!VMs, VL!VMs, L!Key, VL!Key, L!InChan,
          VL!InChan
  <2>2. ASSUME OneForAll PROVE G!OneOwner
    <3>1. VG!OneOwner
      BY <2>2, GAssumption, VG!OwnInvOneOwner DEF PoolInv
    <3> QED
      BY <3>1 DEF G!OneOwner, VG!OneOwner, G!VMs, VG!VMs, G!Key, VG!Key, G!InChan,
          VG!InChan
  <2>3. ASSUME Spare PROVE S!OneOwner
    <3>1. VS!OneOwner
      BY <2>3, SAssumption, VS!OwnInvOneOwner DEF PoolInv
    <3> QED
      BY <3>1 DEF S!OneOwner, VS!OneOwner, S!VMs, VS!VMs, S!Key, VS!Key, S!InChan,
          VS!InChan
  <2> QED
    BY <2>1, <2>2, <2>3 DEF OneOwner, PoolInv, PerLang, OneForAll, Spare
<1> QED
  BY <1>1, SpecPoolInv, PTL

\* Whatever the strategy, VMs, refills and VMs taken but not replaced stay
\* within the capacity of their channel: PoolSize, or one for the spare.
THEOREM EveryPoolConserved == Spec => []PoolConserved
<1>1. PoolInv => PoolConserved
  <2> SUFFICES ASSUME PoolInv PROVE PoolConserved
    OBVIOUS
  <2>1. ASSUME PerLang PROVE L!PoolConserved
    BY <2>1 DEF PoolInv, L!PoolConserved, VL!PoolConserved, L!Supply, VL!Supply,
        L!Refilling, VL!Refilling, L!VMs, VL!VMs, L!Key, VL!Key, L!Cardinality,
        VL!Cardinality
  <2>2. ASSUME OneForAll PROVE G!PoolConserved
    BY <2>2 DEF PoolInv, G!PoolConserved, VG!PoolConserved, G!Supply, VG!Supply,
        G!Refilling, VG!Refilling, G!VMs, VG!VMs, G!Key, VG!Key, G!Cardinality,
        VG!Cardinality
  <2>3. ASSUME Spare PROVE S!PoolConserved
    BY <2>3 DEF PoolInv, S!PoolConserved, VS!PoolConserved, S!Supply, VS!Supply,
        S!Refilling, VS!Refilling, S!VMs, VS!VMs, S!Key, VS!Key, S!Cardinality,
        VS!Cardinality
  <2> QED
    BY <2>1, <2>2, <2>3 DEF PoolConserved, PoolInv, PerLang, OneForAll, Spare
<1> QED
  BY <1>1, SpecPoolInv, PTL

\* Whatever the strategy, no refill sends on a closed channel, and when Close
\* has returned no VM is idle or about to be: what runs is with a worker.
THEOREM EveryCloseIsClean == Spec => []CloseIsClean
<1>1. PoolInv => CloseIsClean
  <2> SUFFICES ASSUME PoolInv PROVE CloseIsClean
    OBVIOUS
  <2>1. ASSUME PerLang PROVE CloseIsClean
    <3>1. VL!PInv /\ DOMAIN stage = VL!VMs
      BY <2>1 DEF PoolInv, VL!OwnInv, VL!TypeOK
    <3>2. VL!NothingLeftIdle
      BY <3>1, LAssumption, VL!PInvNothingLeft
    <3> QED
      BY <3>1, <3>2 DEF CloseIsClean, VL!NothingLeftIdle, VL!PInv, VL!NoSendOnClosed
  <2>2. ASSUME OneForAll PROVE CloseIsClean
    <3>1. VG!PInv /\ DOMAIN stage = VG!VMs
      BY <2>2 DEF PoolInv, VG!OwnInv, VG!TypeOK
    <3>2. VG!NothingLeftIdle
      BY <3>1, GAssumption, VG!PInvNothingLeft
    <3> QED
      BY <3>1, <3>2 DEF CloseIsClean, VG!NothingLeftIdle, VG!PInv, VG!NoSendOnClosed
  <2>3. ASSUME Spare PROVE CloseIsClean
    <3>1. VS!PInv /\ DOMAIN stage = VS!VMs
      BY <2>3 DEF PoolInv, VS!OwnInv, VS!TypeOK
    <3>2. VS!NothingLeftIdle
      BY <3>1, SAssumption, VS!PInvNothingLeft
    <3> QED
      BY <3>1, <3>2 DEF CloseIsClean, VS!NothingLeftIdle, VS!PInv, VS!NoSendOnClosed
  <2> QED
    BY <2>1, <2>2, <2>3 DEF PoolInv, PerLang, OneForAll, Spare
<1> QED
  BY <1>1, SpecPoolInv, PTL
=============================================================================
