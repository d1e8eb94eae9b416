---------------------------- MODULE VMPoolProofs ----------------------------
(***************************************************************************)
(* The steps the pools are made of, for every number of channels, VMs and  *)
(* callers.  Three invariants, each kept by every step: PInv, from which   *)
(* no refill sends on a closed channel and no idle VM survives Close;      *)
(* OwnInv, which adds who owns a VM and that there is always an unused     *)
(* identity for the next boot; and SupplyInv, which counts what a channel  *)
(* has and will have.  Then the boot in the caller's goroutine, which only *)
(* the on-demand pool has; and LateInv, what may still be booting when     *)
(* Close is past its wait.                                                 *)
(***************************************************************************)
EXTENDS VMPool, SequenceTheorems, FiniteSetTheorems, TLAPS

\* A step of a refill goroutine, of a caller, or of Close.
Refill(v) ==
  \/ SemAcquire(v) \/ SemAbandon(v)
  \/ BootOK(v) \/ BootFail(v)
  \/ Send(v) \/ SendAbandon(v)

Call(c) ==
  \/ \E k \in Keys : AcquireEnter(c, k)
  \/ Receive(c) \/ ReceiveNil(c) \/ AcquireCancelled(c)
  \/ CheckClosed(c) \/ Respawn(c) \/ ReleaseOrDiscard(c)

Closing ==
  \/ CloseStore \/ CloseCancel \/ CloseWait \/ CloseWoken
  \/ \E k \in Keys : CloseDrain(k)
  \/ CloseReturn

\* The steps of both prewarmed pools.
PrewarmedStep ==
  \/ \E v \in VMs : Refill(v)
  \/ \E c \in Callers : Call(c)
  \/ CancelCallers
  \/ Closing

O == INSTANCE OnDemandSpare

\* The steps of all three: with a spare a caller also boots a VM of its own.
PoolStep == PrewarmedStep \/ \E c \in Callers : O!bootFor(c)

-----------------------------------------------------------------------------
\* The types of the variables the argument is about.
PoolTypes ==
  /\ stage \in [VMs -> Stages]
  /\ chan \in [Keys -> Seq(VMs)]
  /\ chanClosed \in [Keys -> BOOLEAN]
  /\ want \in [Callers -> Keys]
  /\ got \in [Callers -> VMs \cup {NoVM}]

\* From CloseCancel on the context is cancelled.
CancelledOK == closer \in {"none", "stored"} \/ cancelled

\* wg.Wait has returned: no refill of that time is left, and one an Acquire
\* starts late cannot boot a VM under the cancelled context.
WaitOK == closer \in {"drain", "done"} => \A v \in VMs : stage[v] # "ready"

\* Channels are closed after wg.Wait, drained as they are closed, and all
\* closed when Close returns.
ClosedOK ==
  \A k \in Keys :
    /\ chanClosed[k] => closer \in {"drain", "done"} /\ chan[k] = <<>>
    /\ closer = "done" => chanClosed[k]

\* An idle VM is in its channel.
IdleOK == \A v \in VMs : stage[v] = "idle" => InChan(Key(v), v)

PInv ==
  /\ PoolTypes /\ CancelledOK /\ WaitOK /\ ClosedOK /\ IdleOK
  /\ NoSendOnClosed

LEMMA KeyType == ASSUME NEW v \in VMs PROVE Key(v) \in Keys
BY DEF VMs, Key

LEMMA InitPInv == ASSUME Init PROVE PInv
<1>1. PoolTypes
  BY EmptySeq DEF Init, PoolTypes, Stages
<1>2. CancelledOK /\ WaitOK /\ ClosedOK /\ IdleOK /\ NoSendOnClosed
  BY DEF Init, CancelledOK, WaitOK, ClosedOK, IdleOK, NoSendOnClosed
<1> QED
  BY <1>1, <1>2 DEF PInv

\* A step that touches none of this.
LEMMA QuietStep ==
  ASSUME PInv,
         UNCHANGED <<stage, chan, chanClosed, cancelled, closer, want, got, panic>>
  PROVE  PInv'
BY DEF PInv, PoolTypes, CancelledOK, WaitOK, ClosedOK, IdleOK, InChan, NoSendOnClosed

\* A refill goroutine.
LEMMA RefillStep ==
  ASSUME PInv, NEW v \in VMs, Refill(v)
  PROVE  PInv'
<1> USE DEF PInv
<1>0. Key(v) \in Keys
  BY KeyType
<1>1. CASE SemAcquire(v)
  BY <1>1 DEF SemAcquire, Set, shutdown, callers, PoolTypes, Stages, CancelledOK,
      WaitOK, ClosedOK, IdleOK, InChan, NoSendOnClosed
<1>2. CASE SemAbandon(v)
  BY <1>2 DEF SemAbandon, Done, Set, callers, PoolTypes, Stages, CancelledOK,
      WaitOK, ClosedOK, IdleOK, InChan, NoSendOnClosed
<1>3. CASE BootOK(v)
  BY <1>3 DEF BootOK, Set, shutdown, callers, PoolTypes, Stages, CancelledOK,
      WaitOK, ClosedOK, IdleOK, InChan, NoSendOnClosed
<1>4. CASE BootFail(v)
  BY <1>4 DEF BootFail, Done, Set, callers, PoolTypes, Stages, CancelledOK,
      WaitOK, ClosedOK, IdleOK, InChan, NoSendOnClosed
<1>5. CASE Send(v)
  <2>0. stage[v] = "ready"
    BY <1>5 DEF Send
  <2>1. ~chanClosed[Key(v)]
    BY <1>0, <2>0 DEF ClosedOK, WaitOK
  <2>2. /\ stage' = [stage EXCEPT ![v] = "idle"]
        /\ chan' = [chan EXCEPT ![Key(v)] = Append(@, v)]
        /\ closer' = closer \/ (closer = "waiting" /\ closer' = "woken")
        /\ UNCHANGED <<chanClosed, closed, cancelled, want, got, panic>>
    BY <1>5, <2>1 DEF Send, Done, Set, callers
  <2>3. chan[Key(v)] \in Seq(VMs)
    BY <1>0 DEF PoolTypes
  <2>4. /\ Append(chan[Key(v)], v) \in Seq(VMs)
        /\ Len(Append(chan[Key(v)], v)) = Len(chan[Key(v)]) + 1
        /\ \A i \in 1..Len(chan[Key(v)]) :
             Append(chan[Key(v)], v)[i] = chan[Key(v)][i]
        /\ Append(chan[Key(v)], v)[Len(chan[Key(v)]) + 1] = v
    BY <2>3, AppendProperties
  <2>5. PoolTypes'
    BY <1>0, <2>2, <2>4 DEF PoolTypes, Stages
  <2>6. CancelledOK' /\ WaitOK' /\ NoSendOnClosed'
    BY <2>2 DEF CancelledOK, WaitOK, NoSendOnClosed, PoolTypes
  <2>7. ClosedOK'
    BY <1>0, <2>1, <2>2 DEF ClosedOK, PoolTypes
  <2>8. ASSUME NEW u \in VMs, stage'[u] = "idle" PROVE InChan(Key(u), u)'
    <3>1. CASE u = v
      <4>1. Len(chan[Key(v)]) + 1 \in 1..Len(chan'[Key(v)])
        BY <1>0, <2>2, <2>3, <2>4, LenProperties DEF PoolTypes
      <4>2. chan'[Key(v)][Len(chan[Key(v)]) + 1] = v
        BY <1>0, <2>2, <2>4 DEF PoolTypes
      <4> QED
        BY <3>1, <4>1, <4>2 DEF InChan
    <3>2. CASE u # v
      <4>1. InChan(Key(u), u)
        BY <2>2, <2>8, <3>2 DEF IdleOK, PoolTypes
      <4>2. PICK i \in 1..Len(chan[Key(u)]) : chan[Key(u)][i] = u
        BY <4>1 DEF InChan
      <4>3. i \in 1..Len(chan'[Key(u)]) /\ chan'[Key(u)][i] = u
        <5>1. CASE Key(u) = Key(v)
          BY <1>0, <2>2, <2>3, <2>4, <4>2, <5>1, LenProperties DEF PoolTypes
        <5>2. CASE Key(u) # Key(v)
          BY <2>2, <4>2, <5>2, KeyType DEF PoolTypes
        <5> QED
          BY <5>1, <5>2
      <4> QED
        BY <4>3 DEF InChan
    <3> QED
      BY <3>1, <3>2
  <2> QED
    BY <2>5, <2>6, <2>7, <2>8 DEF IdleOK
<1>6. CASE SendAbandon(v)
  BY <1>6 DEF SendAbandon, Done, Set, callers, PoolTypes, Stages, CancelledOK,
      WaitOK, ClosedOK, IdleOK, InChan, NoSendOnClosed
<1> QED
  BY <1>1, <1>2, <1>3, <1>4, <1>5, <1>6 DEF Refill

\* A caller.
LEMMA CallStep ==
  ASSUME PInv, NEW c \in Callers, Call(c)
  PROVE  PInv'
<1> USE DEF PInv
<1>1. ASSUME NEW k \in Keys, AcquireEnter(c, k) PROVE PInv'
  <2>1. /\ UNCHANGED <<stage, chan, chanClosed, closed, cancelled, closer, got, panic>>
        /\ want' = want \/ want' = [want EXCEPT ![c] = k]
    BY <1>1 DEF AcquireEnter, boots, shutdown
  <2> QED
    BY <2>1 DEF PoolTypes, CancelledOK, WaitOK, ClosedOK, IdleOK, InChan,
        NoSendOnClosed
<1>2. CASE Receive(c)
  <2> DEFINE k == want[c]
             h == Head(chan[k])
  <2>0. k \in Keys /\ chan[k] \in Seq(VMs) /\ chan[k] # <<>>
    BY <1>2 DEF Receive, PoolTypes
  <2>1. /\ stage' = [stage EXCEPT ![h] = "held"]
        /\ chan' = [chan EXCEPT ![k] = Tail(@)]
        /\ got' = [got EXCEPT ![c] = h]
        /\ UNCHANGED <<chanClosed, closed, cancelled, closer, want, panic>>
    BY <1>2 DEF Receive, Set, shutdown
  <2> HIDE DEF k, h
  <2>2. /\ Len(chan[k]) \in Nat /\ Len(chan[k]) # 0
        /\ h \in VMs /\ h = chan[k][1]
        /\ Tail(chan[k]) \in Seq(VMs)
        /\ Len(Tail(chan[k])) = Len(chan[k]) - 1
        /\ \A i \in 1..Len(Tail(chan[k])) : Tail(chan[k])[i] = chan[k][i + 1]
    BY <2>0, EmptySeq, LenProperties, HeadTailProperties DEF h
  <2>3. PoolTypes'
    BY <2>0, <2>1, <2>2 DEF PoolTypes, Stages
  <2>4. CancelledOK' /\ WaitOK' /\ NoSendOnClosed'
    BY <2>1, <2>2 DEF CancelledOK, WaitOK, NoSendOnClosed, PoolTypes
  <2>5. ClosedOK'
    BY <2>0, <2>1 DEF ClosedOK, PoolTypes
  <2>6. ASSUME NEW u \in VMs, stage'[u] = "idle" PROVE InChan(Key(u), u)'
    <3>1. u # h /\ InChan(Key(u), u) /\ Key(u) \in Keys
      BY <2>1, <2>2, <2>6, KeyType DEF IdleOK, PoolTypes
    <3>2. PICK i \in 1..Len(chan[Key(u)]) : chan[Key(u)][i] = u
      BY <3>1 DEF InChan
    <3>3. CASE Key(u) = k
      <4>1. i # 1
        BY <2>2, <3>1, <3>2, <3>3
      <4>2. /\ i - 1 \in 1..Len(Tail(chan[k]))
            /\ Tail(chan[k])[i - 1] = u
        BY <2>2, <3>2, <3>3, <4>1
      <4>3. chan'[Key(u)] = Tail(chan[k])
        BY <2>0, <2>1, <3>3 DEF PoolTypes
      <4> QED
        BY <4>2, <4>3 DEF InChan
    <3>4. CASE Key(u) # k
      BY <2>1, <3>1, <3>2, <3>4 DEF InChan, PoolTypes
    <3> QED
      BY <3>3, <3>4
  <2> QED
    BY <2>3, <2>4, <2>5, <2>6 DEF IdleOK
<1>3. CASE ReceiveNil(c)
  BY <1>3 DEF ReceiveNil, boots, shutdown, PoolTypes, CancelledOK, WaitOK, ClosedOK,
      IdleOK, InChan, NoSendOnClosed
<1>4. CASE AcquireCancelled(c) \/ CheckClosed(c)
  <2>1. UNCHANGED <<stage, chan, chanClosed, cancelled, closer, want, got, panic>>
    BY <1>4 DEF AcquireCancelled, CheckClosed, boots, shutdown
  <2> QED
    BY <2>1, QuietStep
<1>5. CASE Respawn(c)
  BY <1>5 DEF Respawn, Start, Set, shutdown, PoolTypes, Stages, CancelledOK, WaitOK,
      ClosedOK, IdleOK, InChan, NoSendOnClosed
<1>6. CASE ReleaseOrDiscard(c)
  <2>1. CASE got[c] = NoVM
    BY <1>6, <2>1 DEF ReleaseOrDiscard, shutdown, PoolTypes, CancelledOK, WaitOK,
        ClosedOK, IdleOK, InChan, NoSendOnClosed
  <2>2. CASE got[c] # NoVM
    BY <1>6, <2>2 DEF ReleaseOrDiscard, Set, shutdown, PoolTypes, Stages,
        CancelledOK, WaitOK, ClosedOK, IdleOK, InChan, NoSendOnClosed
  <2> QED
    BY <2>1, <2>2
<1> QED
  BY <1>1, <1>2, <1>3, <1>4, <1>5, <1>6 DEF Call

\* Close.
LEMMA ClosingStep ==
  ASSUME PInv, Closing
  PROVE  PInv'
<1> USE DEF PInv
<1>1. CASE CloseStore \/ CloseCancel
  <2>1. \A k \in Keys : ~chanClosed[k]
    BY <1>1 DEF CloseStore, CloseCancel, ClosedOK
  <2> QED
    BY <1>1, <2>1 DEF CloseStore, CloseCancel, boots, callers, PoolTypes,
        CancelledOK, WaitOK, ClosedOK, IdleOK, InChan, NoSendOnClosed
<1>2. CASE CloseWait \/ CloseWoken
  <2>1. \A k \in Keys : ~chanClosed[k]
    BY <1>2 DEF CloseWait, CloseWoken, ClosedOK
  <2>2. \A v \in VMs : stage[v] = "ready" => Refilling # {}
    BY DEF Refilling
  <2> QED
    BY <1>2, <2>1, <2>2 DEF CloseWait, CloseWoken, boots, callers, PoolTypes,
        CancelledOK, WaitOK, ClosedOK, IdleOK, InChan, NoSendOnClosed
<1>3. ASSUME NEW k \in Keys, CloseDrain(k) PROVE PInv'
  <2>1. /\ closer = "drain"
        /\ chanClosed' = [chanClosed EXCEPT ![k] = TRUE]
        /\ stage' = [v \in VMs |-> IF InChan(k, v) THEN "dead" ELSE stage[v]]
        /\ chan' = [chan EXCEPT ![k] = <<>>]
        /\ UNCHANGED <<closed, cancelled, closer, want, got, panic>>
    BY <1>3 DEF CloseDrain, InChan, callers
  <2>2. PoolTypes'
    BY <2>1, EmptySeq DEF PoolTypes, Stages
  <2>3. CancelledOK' /\ WaitOK' /\ NoSendOnClosed'
    BY <2>1 DEF CancelledOK, WaitOK, NoSendOnClosed
  <2>4. ClosedOK'
    BY <2>1 DEF ClosedOK, PoolTypes
  <2>5. ASSUME NEW u \in VMs, stage'[u] = "idle" PROVE InChan(Key(u), u)'
    <3>1. ~InChan(k, u) /\ InChan(Key(u), u)
      BY <2>1, <2>5 DEF IdleOK
    <3>2. Key(u) # k
      BY <3>1
    <3>3. chan'[Key(u)] = chan[Key(u)]
      BY <2>1, <3>2, KeyType DEF PoolTypes
    <3> QED
      BY <3>1, <3>3 DEF InChan
  <2> QED
    BY <2>2, <2>3, <2>4, <2>5 DEF IdleOK
<1>4. CASE CloseReturn
  BY <1>4 DEF CloseReturn, boots, callers, PoolTypes, CancelledOK, WaitOK, ClosedOK,
      IdleOK, InChan, NoSendOnClosed
<1> QED
  BY <1>1, <1>2, <1>3, <1>4 DEF Closing

\* PInv is inductive: every step of a pool keeps it.
LEMMA StepPInv ==
  ASSUME PInv, [PrewarmedStep]_vars
  PROVE  PInv'
<1>1. CASE \E v \in VMs : Refill(v)
  BY <1>1, RefillStep
<1>2. CASE \E c \in Callers : Call(c)
  BY <1>2, CallStep
<1>3. CASE CancelCallers
  BY <1>3, QuietStep DEF CancelCallers, boots, shutdown
<1>4. CASE Closing
  BY <1>4, ClosingStep
<1>5. CASE UNCHANGED vars
  BY <1>5, QuietStep DEF vars
<1> QED
  BY <1>1, <1>2, <1>3, <1>4, <1>5 DEF PrewarmedStep

\* What PInv says once Close has returned: the channels are empty, so nothing
\* is idle, and nothing is about to be sent.
LEMMA PInvNothingLeft == ASSUME PInv PROVE NothingLeftIdle
<1> SUFFICES ASSUME closer = "done", NEW v \in VMs
             PROVE  stage[v] \notin {"idle", "ready"}
  BY DEF NothingLeftIdle
<1>1. stage[v] # "ready"
  BY DEF PInv, WaitOK
<1>2. chan[Key(v)] = <<>>
  BY KeyType DEF PInv, ClosedOK
<1>3. ~InChan(Key(v), v)
  BY <1>2, EmptySeq DEF InChan
<1> QED
  BY <1>1, <1>3 DEF PInv, IdleOK

-----------------------------------------------------------------------------
(***************************************************************************)
(* Who owns a VM.  Besides OneOwner itself the invariant says how far each *)
(* caller is with the VM it has, which boots have been started, and that a *)
(* call of Acquire starts at most one.                                     *)
(***************************************************************************)

\* The callers that may still start a boot for channel k.
MayStart(k) ==
  {c \in Callers : pc[c] \in {"select", "received", "respawn"} /\ want[c] = k}

BudgetOK ==
  \A k \in Keys : spawned[k] + Cardinality(MayStart(k)) <= Size + calls

\* The boots of a channel are numbered in the order they are started.
NumberedOK == \A v \in VMs : stage[v] = "unused" <=> v[2] > spawned[Key(v)]

\* What a caller has, by how far it is.  Only a closed channel yields nil.
HoldingOK ==
  \A c \in Callers :
    /\ pc[c] \in {"out", "select"} => got[c] = NoVM
    /\ pc[c] \in {"respawn", "booting"} => got[c] # NoVM
    /\ got[c] = NoVM /\ pc[c] = "received" => closed
    /\ got[c] # NoVM =>
         /\ Key(got[c]) = want[c]
         /\ stage[got[c]] \in (IF pc[c] = "booting" THEN {"asked", "callboot"}
                                                   ELSE {"held"})

GotOnce == \A c, d \in Callers : got[c] = got[d] /\ got[c] # NoVM => c = d

ChanOK ==
  \A k \in Keys : \A i, j \in 1..Len(chan[k]) :
    /\ stage[chan[k][i]] = "idle" /\ Key(chan[k][i]) = k
    /\ chan[k][i] = chan[k][j] => i = j

HeldOK == \A v \in VMs : stage[v] = "held" => \E c \in Callers : got[c] = v

\* Close stores the flag before anything else.
FlagOK == closer # "none" \/ cancelled => closed

OwnInv ==
  /\ PInv /\ TypeOK
  /\ BudgetOK /\ NumberedOK /\ HoldingOK /\ GotOnce /\ ChanOK /\ HeldOK /\ FlagOK

LEMMA OwnInvOneOwner == ASSUME OwnInv PROVE OneOwner
<1>1. \A c \in Callers : got[c] # NoVM =>
        stage[got[c]] \in {"held", "asked", "callboot"} /\ Key(got[c]) = want[c]
  BY DEF OwnInv, HoldingOK
<1> QED
  BY <1>1 DEF OwnInv, OneOwner, GotOnce, ChanOK, HeldOK, PInv, IdleOK

LEMMA NoVMIsNoVM == NoVM \notin VMs
BY VMPoolAssumption DEF VMs

LEMMA VMIs == ASSUME NEW k \in Keys, NEW n \in 1 .. Size + MaxCalls
              PROVE  <<k, n>> \in VMs /\ Key(<<k, n>>) = k
BY DEF VMs, Key

\* How the callers that may start a boot change.
LEMMA MayStartFinite ==
  ASSUME NEW k
  PROVE  /\ IsFiniteSet(MayStart(k)) /\ Cardinality(MayStart(k)) \in Nat
         /\ IsFiniteSet(MayStart(k)') /\ Cardinality(MayStart(k)') \in Nat
<1>1. MayStart(k) \in SUBSET Callers /\ MayStart(k)' \in SUBSET Callers
  BY DEF MayStart
<1> QED
  BY <1>1, VMPoolAssumption, FS_Subset, FS_CardinalityType

LEMMA MayStartKept ==
  ASSUME TypeOK, NEW c \in Callers, NEW p, pc' = [pc EXCEPT ![c] = p],
         UNCHANGED want,
         pc[c] \in {"select", "received", "respawn"}
           <=> p \in {"select", "received", "respawn"}
  PROVE  \A k : MayStart(k)' = MayStart(k)
BY DEF TypeOK, MayStart

LEMMA MayStartLeft ==
  ASSUME TypeOK, NEW c \in Callers, NEW p, pc' = [pc EXCEPT ![c] = p],
         UNCHANGED want,
         pc[c] \in {"select", "received", "respawn"},
         p \notin {"select", "received", "respawn"}
  PROVE  \A k : Cardinality(MayStart(k)') =
                  IF k = want[c] THEN Cardinality(MayStart(k)) - 1
                                 ELSE Cardinality(MayStart(k))
<1> SUFFICES ASSUME NEW k
             PROVE  Cardinality(MayStart(k)') =
                      IF k = want[c] THEN Cardinality(MayStart(k)) - 1
                                     ELSE Cardinality(MayStart(k))
  OBVIOUS
<1>1. MayStart(k)' = MayStart(k) \ {c}
  BY DEF TypeOK, MayStart
<1>2. c \in MayStart(k) <=> k = want[c]
  BY DEF MayStart
<1>3. Cardinality(MayStart(k) \ {c}) =
        IF c \in MayStart(k) THEN Cardinality(MayStart(k)) - 1
                             ELSE Cardinality(MayStart(k))
  BY MayStartFinite, FS_RemoveElement
<1> QED
  BY <1>1, <1>2, <1>3

LEMMA MayStartJoined ==
  ASSUME TypeOK, NEW c \in Callers, pc[c] = "out", NEW w \in Keys,
         pc' = [pc EXCEPT ![c] = "select"], want' = [want EXCEPT ![c] = w]
  PROVE  \A k : Cardinality(MayStart(k)') =
                  IF k = w THEN Cardinality(MayStart(k)) + 1
                           ELSE Cardinality(MayStart(k))
<1> SUFFICES ASSUME NEW k
             PROVE  Cardinality(MayStart(k)') =
                      IF k = w THEN Cardinality(MayStart(k)) + 1
                               ELSE Cardinality(MayStart(k))
  OBVIOUS
<1>1. MayStart(k)' = IF k = w THEN MayStart(k) \cup {c} ELSE MayStart(k)
  BY DEF TypeOK, MayStart
<1>2. c \notin MayStart(k)
  BY DEF MayStart
<1>3. Cardinality(MayStart(k) \cup {c}) = Cardinality(MayStart(k)) + 1
  BY <1>2, MayStartFinite, FS_AddElement
<1> QED
  BY <1>1, <1>3

\* The next boot of a channel has not been used: there is room for it.
LEMMA NextBoot ==
  ASSUME OwnInv, NEW c \in Callers, pc[c] \in {"select", "received", "respawn"}
  PROVE  LET n == <<want[c], spawned[want[c]] + 1>>
         IN  /\ spawned[want[c]] + 1 <= Size + calls
             /\ n \in VMs /\ Key(n) = want[c] /\ stage[n] = "unused"
<1> DEFINE k == want[c]
<1>1. k \in Keys /\ spawned[k] \in Nat /\ calls \in Nat /\ calls <= MaxCalls
  BY VMPoolAssumption DEF OwnInv, TypeOK
<1>2. c \in MayStart(k)
  BY DEF MayStart
<1>3. Cardinality(MayStart(k)) # 0
  BY <1>2, MayStartFinite, FS_EmptySet
<1>4. spawned[k] + Cardinality(MayStart(k)) <= Size + calls
  BY <1>1 DEF OwnInv, BudgetOK
<1>5. spawned[k] + 1 <= Size + calls /\ spawned[k] + 1 \in 1 .. Size + MaxCalls
  BY <1>1, <1>3, <1>4, MayStartFinite, VMPoolAssumption
<1>6. <<k, spawned[k] + 1>> \in VMs /\ Key(<<k, spawned[k] + 1>>) = k
  BY <1>1, <1>5, VMIs
<1>7. stage[<<k, spawned[k] + 1>>] = "unused"
  BY <1>1, <1>6 DEF OwnInv, NumberedOK
<1> QED
  BY <1>5, <1>6, <1>7

LEMMA InitOwnInv == ASSUME Init PROVE OwnInv
<1>1. \A k \in Keys : Cardinality(MayStart(k)) = 0
  <2>1. \A k \in Keys : MayStart(k) = {}
    BY DEF Init, MayStart
  <2> QED
    BY <2>1, FS_EmptySet
<1>2. BudgetOK
  BY <1>1, VMPoolAssumption DEF Init, BudgetOK
<1>3. TypeOK
  <2>1. /\ Size \in Size .. Size + 0 /\ 0 \in 0 .. MaxCalls /\ 0 \in 0 .. MaxFailures
        /\ <<>> \in Seq(VMs)
    BY VMPoolAssumption, EmptySeq
  <2> QED
    BY <2>1 DEF Init, TypeOK, Stages, PCs, Panics
<1>4. NumberedOK
  <2> SUFFICES ASSUME NEW v \in VMs
               PROVE  stage[v] = "unused" <=> v[2] > spawned[Key(v)]
    BY DEF NumberedOK
  <2>1. v[2] \in Nat /\ Key(v) \in Keys
    BY VMPoolAssumption DEF VMs, Key
  <2> QED
    BY <2>1, VMPoolAssumption DEF Init
<1>5. HoldingOK /\ GotOnce /\ HeldOK /\ FlagOK
  BY DEF Init, HoldingOK, GotOnce, HeldOK, FlagOK
<1>6. ChanOK
  BY EmptySeq DEF Init, ChanOK
<1> QED
  BY <1>2, <1>3, <1>4, <1>5, <1>6, InitPInv DEF OwnInv

\* A step that changes none of the variables ownership is about.
LEMMA QuietOwn ==
  ASSUME OwnInv, PInv', TypeOK', FlagOK', closed => closed',
         UNCHANGED <<stage, spawned, chan, pc, want, got, calls>>
  PROVE  OwnInv'
<1>1. BudgetOK'
  BY DEF OwnInv, BudgetOK, MayStart
<1>2. NumberedOK' /\ HoldingOK' /\ GotOnce' /\ ChanOK' /\ HeldOK'
  BY DEF OwnInv, NumberedOK, HoldingOK, GotOnce, ChanOK, HeldOK
<1> QED
  BY <1>1, <1>2 DEF OwnInv

\* A boot the WaitGroup counts goes on, or ends without a VM.
LEMMA RefillMoves ==
  ASSUME OwnInv, PInv', TypeOK', FlagOK', NEW v \in VMs,
         stage[v] \in {"queued", "boot", "ready"},
         NEW s \in {"boot", "ready", "failed", "dead"},
         stage' = [stage EXCEPT ![v] = s],
         UNCHANGED <<spawned, chan, closed, pc, want, got, calls>>
  PROVE  OwnInv'
<1> USE DEF OwnInv, TypeOK
<1>1. BudgetOK'
  BY DEF BudgetOK, MayStart
<1>2. NumberedOK' /\ HeldOK'
  BY DEF NumberedOK, HeldOK
<1>3. HoldingOK' /\ GotOnce'
  BY NoVMIsNoVM DEF HoldingOK, GotOnce
<1>4. ChanOK'
  <2>1. \A k \in Keys : \A i \in 1..Len(chan[k]) : chan[k][i] \in VMs /\ chan[k][i] # v
    BY ElementOfSeq DEF ChanOK
  <2>2. \A u \in VMs : u # v => stage'[u] = stage[u]
    OBVIOUS
  <2>3. ChanOK /\ chan' = chan
    OBVIOUS
  <2> HIDE DEF OwnInv, TypeOK
  <2> QED
    BY <2>1, <2>2, <2>3 DEF ChanOK
<1> QED
  BY <1>1, <1>2, <1>3, <1>4

LEMMA RefillOwn ==
  ASSUME OwnInv, PInv', NEW v \in VMs, Refill(v)
  PROVE  OwnInv'
<1>1. CASE SemAcquire(v)
  <2>1. TypeOK' /\ FlagOK'
    BY <1>1 DEF SemAcquire, Set, shutdown, callers, OwnInv, TypeOK, Stages, FlagOK
  <2> QED
    BY <1>1, <2>1, RefillMoves DEF SemAcquire, Set, shutdown, callers
<1>2. CASE SemAbandon(v) \/ SendAbandon(v)
  <2>1. TypeOK' /\ FlagOK'
    BY <1>2 DEF SemAbandon, SendAbandon, Done, Set, callers, OwnInv, TypeOK, Stages,
        FlagOK
  <2> QED
    BY <1>2, <2>1, RefillMoves DEF SemAbandon, SendAbandon, Done, Set, callers
<1>3. CASE BootOK(v)
  <2>1. TypeOK' /\ FlagOK'
    BY <1>3 DEF BootOK, Set, shutdown, callers, OwnInv, TypeOK, Stages, FlagOK
  <2> QED
    BY <1>3, <2>1, RefillMoves DEF BootOK, Set, shutdown, callers
<1>4. CASE BootFail(v)
  <2>1. TypeOK' /\ FlagOK'
    BY <1>4, VMPoolAssumption DEF BootFail, Done, Set, callers, OwnInv, TypeOK,
        Stages, FlagOK
  <2> QED
    BY <1>4, <2>1, RefillMoves DEF BootFail, Done, Set, callers
<1>5. CASE Send(v)
  <2> DEFINE k == Key(v)
  <2>0. k \in Keys /\ stage[v] = "ready"
    BY <1>5, KeyType DEF Send
  <2>1. ~chanClosed[k]
    BY <2>0 DEF OwnInv, PInv, ClosedOK, WaitOK
  <2>2. /\ stage' = [stage EXCEPT ![v] = "idle"]
        /\ chan' = [chan EXCEPT ![k] = Append(@, v)]
        /\ closer' = closer \/ (closer = "waiting" /\ closer' = "woken")
        /\ UNCHANGED <<chanClosed, closed, cancelled, ctxDone, pc, want, got, calls,
                       spawned, failures, panic>>
    BY <1>5, <2>1 DEF Send, Done, Set, callers
  <2> HIDE DEF k
  <2>3. chan[k] \in Seq(VMs)
    BY <2>0 DEF OwnInv, TypeOK
  <2>4. /\ Len(chan[k]) \in Nat
        /\ Append(chan[k], v) \in Seq(VMs)
        /\ Len(Append(chan[k], v)) = Len(chan[k]) + 1
        /\ \A i \in 1..Len(chan[k]) : Append(chan[k], v)[i] = chan[k][i]
        /\ Append(chan[k], v)[Len(chan[k]) + 1] = v
    BY <2>3, AppendProperties, LenProperties
  <2>5. TypeOK' /\ FlagOK'
    BY <2>0, <2>2, <2>4 DEF OwnInv, TypeOK, Stages, FlagOK
  <2>6. BudgetOK' /\ NumberedOK' /\ HeldOK'
    BY <2>0, <2>2 DEF OwnInv, TypeOK, BudgetOK, MayStart, NumberedOK, HeldOK
  <2>7. HoldingOK' /\ GotOnce'
    BY <2>0, <2>2, NoVMIsNoVM DEF OwnInv, TypeOK, HoldingOK, GotOnce
  <2>8. \A l \in Keys : \A i \in 1..Len(chan[l]) : chan[l][i] \in VMs /\ chan[l][i] # v
    BY <2>0, ElementOfSeq DEF OwnInv, TypeOK, ChanOK
  <2>9. ChanOK'
    <3> SUFFICES ASSUME NEW l \in Keys, NEW i \in 1..Len(chan'[l]),
                        NEW j \in 1..Len(chan'[l])
                 PROVE  /\ stage'[chan'[l][i]] = "idle" /\ Key(chan'[l][i]) = l
                        /\ chan'[l][i] = chan'[l][j] => i = j
      BY DEF ChanOK
    <3>1. CASE l # k
      BY <2>2, <2>8, <3>1 DEF OwnInv, TypeOK, ChanOK
    <3>2. CASE l = k
      <4>1. chan'[l] = Append(chan[k], v)
        BY <2>0, <2>2, <3>2 DEF OwnInv, TypeOK
      <4>2. \A m \in 1..Len(chan'[l]) :
              m \in 1..Len(chan[k]) \/ m = Len(chan[k]) + 1
        BY <2>4, <4>1
      <4>3. \A m \in 1..Len(chan[k]) :
              /\ stage'[chan'[l][m]] = "idle" /\ Key(chan'[l][m]) = l
              /\ chan'[l][m] # v /\ chan'[l][m] = chan[k][m]
        BY <2>0, <2>2, <2>4, <2>8, <3>2, <4>1 DEF OwnInv, TypeOK, ChanOK
      <4>4. chan'[l][Len(chan[k]) + 1] = v /\ stage'[v] = "idle" /\ Key(v) = l
        BY <2>2, <2>4, <3>2, <4>1 DEF OwnInv, TypeOK, k
      <4> QED
        BY <2>0, <4>2, <4>3, <4>4 DEF OwnInv, ChanOK
    <3> QED
      BY <3>1, <3>2
  <2> QED
    BY <2>5, <2>6, <2>7, <2>9 DEF OwnInv
<1> QED
  BY <1>1, <1>2, <1>3, <1>4, <1>5 DEF Refill

\* A caller.
LEMMA EnterOwn ==
  ASSUME OwnInv, PInv', NEW c \in Callers, NEW k \in Keys, AcquireEnter(c, k)
  PROVE  OwnInv'
<1>1. /\ pc[c] = "out" /\ got[c] = NoVM
      /\ calls < MaxCalls /\ calls' = calls + 1
      /\ UNCHANGED <<stage, spawned, chan, failures, chanClosed, closed, cancelled,
                     closer, ctxDone, got, panic>>
  BY DEF AcquireEnter, boots, shutdown, OwnInv, HoldingOK
<1>2. \/ UNCHANGED <<pc, want>>
      \/ /\ pc' = [pc EXCEPT ![c] = "select"]
         /\ want' = [want EXCEPT ![c] = k]
  BY DEF AcquireEnter
<1>3. TypeOK'
  <2>1. \A m \in Keys : spawned[m] \in Size .. Size + calls'
    BY <1>1, VMPoolAssumption DEF OwnInv, TypeOK
  <2>2. spawned \in [Keys -> Size .. Size + calls'] /\ calls' \in 0..MaxCalls
    BY <1>1, <2>1, VMPoolAssumption DEF OwnInv, TypeOK
  <2> QED
    BY <1>1, <1>2, <2>2 DEF OwnInv, TypeOK, PCs
<1>4. BudgetOK'
  <2> SUFFICES ASSUME NEW m \in Keys
               PROVE  spawned[m] + Cardinality(MayStart(m)') <= Size + calls'
    BY <1>1 DEF BudgetOK
  <2>1. Cardinality(MayStart(m)') <= Cardinality(MayStart(m)) + 1
    <3>1. CASE UNCHANGED <<pc, want>>
      <4>1. MayStart(m)' = MayStart(m)
        BY <3>1 DEF MayStart
      <4> QED
        BY <4>1, MayStartFinite
    <3>2. CASE pc' = [pc EXCEPT ![c] = "select"] /\ want' = [want EXCEPT ![c] = k]
      <4>1. Cardinality(MayStart(m)') =
              IF m = k THEN Cardinality(MayStart(m)) + 1 ELSE Cardinality(MayStart(m))
        BY <1>1, <3>2, MayStartJoined DEF OwnInv
      <4> QED
        BY <4>1, MayStartFinite
    <3> QED
      BY <1>2, <3>1, <3>2
  <2>2. spawned[m] + Cardinality(MayStart(m)) <= Size + calls
    BY DEF OwnInv, BudgetOK
  <2>3. spawned[m] \in Int /\ calls \in Int /\ Size \in Int
    BY VMPoolAssumption DEF OwnInv, TypeOK
  <2> QED
    BY <1>1, <2>1, <2>2, <2>3, MayStartFinite
<1>5. NumberedOK' /\ GotOnce' /\ ChanOK' /\ HeldOK' /\ FlagOK'
  BY <1>1 DEF OwnInv, NumberedOK, GotOnce, ChanOK, HeldOK, FlagOK
<1>6. HoldingOK'
  BY <1>1, <1>2 DEF OwnInv, TypeOK, HoldingOK
<1> QED
  BY <1>3, <1>4, <1>5, <1>6 DEF OwnInv

LEMMA ReceiveOwn ==
  ASSUME OwnInv, PInv', NEW c \in Callers, Receive(c)
  PROVE  OwnInv'
<1> DEFINE k == want[c]
           h == Head(chan[k])
<1>0. k \in Keys /\ chan[k] \in Seq(VMs) /\ chan[k] # <<>> /\ got[c] = NoVM
  BY DEF Receive, OwnInv, TypeOK, HoldingOK
<1>1. /\ pc[c] = "select" /\ pc' = [pc EXCEPT ![c] = "received"]
      /\ stage' = [stage EXCEPT ![h] = "held"]
      /\ chan' = [chan EXCEPT ![k] = Tail(@)]
      /\ got' = [got EXCEPT ![c] = h]
      /\ UNCHANGED <<spawned, failures, chanClosed, closed, cancelled, closer,
                     ctxDone, want, calls, panic>>
  BY DEF Receive, Set, shutdown
<1> HIDE DEF k, h
<1>2. /\ Len(chan[k]) \in Nat /\ Len(chan[k]) # 0
      /\ h \in VMs /\ h = chan[k][1]
      /\ Tail(chan[k]) \in Seq(VMs)
      /\ Len(Tail(chan[k])) = Len(chan[k]) - 1
      /\ \A i \in 1..Len(Tail(chan[k])) : Tail(chan[k])[i] = chan[k][i + 1]
  BY <1>0, EmptySeq, LenProperties, HeadTailProperties DEF h
<1>3. /\ stage[h] = "idle" /\ Key(h) = k
      /\ \A i \in 1..Len(chan[k]) : chan[k][i] = h => i = 1
  BY <1>0, <1>2 DEF OwnInv, ChanOK
<1>4. TypeOK'
  BY <1>0, <1>1, <1>2 DEF OwnInv, TypeOK, Stages, PCs
<1>5. BudgetOK'
  BY <1>1, MayStartKept DEF OwnInv, BudgetOK
<1>6. NumberedOK' /\ FlagOK'
  BY <1>1, <1>2, <1>3 DEF OwnInv, TypeOK, NumberedOK, FlagOK
<1>7. \A d \in Callers : got[d] # h
  BY <1>2, <1>3, NoVMIsNoVM DEF OwnInv, HoldingOK
<1>8. HoldingOK'
  <2>1. \A d \in Callers : d # c =>
          /\ pc'[d] = pc[d] /\ want'[d] = want[d] /\ got'[d] = got[d]
          /\ stage'[got[d]] = stage[got[d]] \/ got[d] = NoVM
    BY <1>1, <1>2, <1>7 DEF OwnInv, TypeOK
  <2>2. pc'[c] = "received" /\ got'[c] = h /\ stage'[h] = "held" /\ want'[c] = k
        /\ h # NoVM /\ closed' = closed
    BY <1>1, <1>2, NoVMIsNoVM DEF OwnInv, TypeOK, k
  <2>3. HoldingOK
    BY DEF OwnInv
  <2> QED
    BY <1>3, <2>1, <2>2, <2>3 DEF HoldingOK
<1>9. GotOnce' /\ HeldOK'
  <2>1. GotOnce'
    BY <1>1, <1>7 DEF OwnInv, TypeOK, GotOnce
  <2>2. ASSUME NEW v \in VMs, stage'[v] = "held" PROVE \E d \in Callers : got'[d] = v
    <3>1. CASE v = h
      BY <1>1, <3>1 DEF OwnInv, TypeOK
    <3>2. CASE v # h
      <4>1. PICK d \in Callers : got[d] = v
        BY <1>1, <1>2, <2>2, <3>2 DEF OwnInv, TypeOK, HeldOK
      <4>2. d # c
        BY <1>0, <4>1, NoVMIsNoVM
      <4> QED
        BY <1>1, <4>1, <4>2 DEF OwnInv, TypeOK
    <3> QED
      BY <3>1, <3>2
  <2> QED
    BY <2>1, <2>2 DEF HeldOK
<1>10. ChanOK'
  <2> SUFFICES ASSUME NEW l \in Keys, NEW i \in 1..Len(chan'[l]),
                      NEW j \in 1..Len(chan'[l])
               PROVE  /\ stage'[chan'[l][i]] = "idle" /\ Key(chan'[l][i]) = l
                      /\ chan'[l][i] = chan'[l][j] => i = j
    BY DEF ChanOK
  <2>1. CASE l # k
    <3>1. chan'[l] = chan[l] /\ chan[l] \in Seq(VMs)
      BY <1>1, <2>1 DEF OwnInv, TypeOK
    <3>2. /\ stage[chan[l][i]] = "idle" /\ Key(chan[l][i]) = l
          /\ chan[l][i] = chan[l][j] => i = j
      BY <3>1 DEF OwnInv, ChanOK
    <3>3. chan[l][i] \in VMs /\ chan[l][i] # h
      BY <1>3, <2>1, <3>1, <3>2, ElementOfSeq
    <3> QED
      BY <1>1, <3>1, <3>2, <3>3 DEF OwnInv, TypeOK
  <2>2. CASE l = k
    <3>1. chan'[l] = Tail(chan[k])
      BY <1>0, <1>1, <2>2 DEF OwnInv, TypeOK
    <3>2. /\ i + 1 \in 2..Len(chan[k]) /\ chan'[l][i] = chan[k][i + 1]
          /\ j + 1 \in 2..Len(chan[k]) /\ chan'[l][j] = chan[k][j + 1]
      BY <1>2, <3>1
    <3>3. /\ stage[chan[k][i + 1]] = "idle" /\ Key(chan[k][i + 1]) = k
          /\ chan[k][i + 1] = chan[k][j + 1] => i + 1 = j + 1
      BY <1>0, <3>2 DEF OwnInv, ChanOK
    <3>4. chan[k][i + 1] \in VMs /\ chan[k][i + 1] # h
      BY <1>0, <1>3, <3>2, ElementOfSeq
    <3> QED
      BY <1>1, <2>2, <3>2, <3>3, <3>4 DEF OwnInv, TypeOK
  <2> QED
    BY <2>1, <2>2
<1> QED
  BY <1>4, <1>5, <1>6, <1>8, <1>9, <1>10 DEF OwnInv

LEMMA ReceiveNilOwn ==
  ASSUME OwnInv, PInv', NEW c \in Callers, ReceiveNil(c)
  PROVE  OwnInv'
<1>1. /\ pc[c] = "select" /\ pc' = [pc EXCEPT ![c] = "received"]
      /\ got' = [got EXCEPT ![c] = NoVM] /\ got[c] = NoVM
      /\ UNCHANGED <<stage, spawned, chan, failures, chanClosed, closed, cancelled,
                     closer, ctxDone, want, calls, panic>>
  BY DEF ReceiveNil, boots, shutdown, OwnInv, HoldingOK
<1>2. got' = got
  BY <1>1 DEF OwnInv, TypeOK
<1>3. closed
  BY DEF ReceiveNil, OwnInv, TypeOK, PInv, ClosedOK, FlagOK
<1>4. TypeOK' /\ FlagOK'
  BY <1>1, <1>2 DEF OwnInv, TypeOK, PCs, FlagOK
<1>5. BudgetOK'
  BY <1>1, MayStartKept DEF OwnInv, BudgetOK
<1>6. NumberedOK' /\ GotOnce' /\ ChanOK' /\ HeldOK'
  BY <1>1, <1>2 DEF OwnInv, NumberedOK, GotOnce, ChanOK, HeldOK
<1>7. HoldingOK'
  BY <1>1, <1>2, <1>3 DEF OwnInv, TypeOK, HoldingOK
<1> QED
  BY <1>4, <1>5, <1>6, <1>7 DEF OwnInv

\* A caller leaves the select, or goes on with what it has.
LEMMA PcOwn ==
  ASSUME OwnInv, PInv', NEW c \in Callers, AcquireCancelled(c) \/ CheckClosed(c)
  PROVE  OwnInv'
<1>1. /\ UNCHANGED <<stage, spawned, chan, failures, chanClosed, closed, cancelled,
                     closer, ctxDone, want, got, calls, panic>>
      /\ \/ pc[c] = "select" /\ pc' = [pc EXCEPT ![c] = "out"]
         \/ pc[c] = "received" /\ closed /\ pc' = [pc EXCEPT ![c] = "use"]
         \/ pc[c] = "received" /\ ~closed /\ pc' = [pc EXCEPT ![c] = "respawn"]
  BY DEF AcquireCancelled, CheckClosed, boots, shutdown
<1>2. TypeOK' /\ FlagOK'
  BY <1>1 DEF OwnInv, TypeOK, PCs, FlagOK
<1>3. BudgetOK'
  <2> SUFFICES ASSUME NEW k \in Keys
               PROVE  spawned[k] + Cardinality(MayStart(k)') <= Size + calls
    BY <1>1 DEF BudgetOK
  <2>1. Cardinality(MayStart(k)') <= Cardinality(MayStart(k))
    <3>1. MayStart(k)' \in SUBSET MayStart(k)
      BY <1>1 DEF OwnInv, TypeOK, MayStart
    <3> QED
      BY <3>1, MayStartFinite, FS_Subset
  <2>2. spawned[k] + Cardinality(MayStart(k)) <= Size + calls
    BY DEF OwnInv, BudgetOK
  <2>3. spawned[k] \in Int /\ calls \in Int /\ Size \in Int
    BY VMPoolAssumption DEF OwnInv, TypeOK
  <2> QED
    BY <2>1, <2>2, <2>3, MayStartFinite
<1>4. NumberedOK' /\ GotOnce' /\ ChanOK' /\ HeldOK'
  BY <1>1 DEF OwnInv, NumberedOK, GotOnce, ChanOK, HeldOK
<1>5. HoldingOK'
  BY <1>1 DEF OwnInv, TypeOK, HoldingOK
<1> QED
  BY <1>2, <1>3, <1>4, <1>5 DEF OwnInv

\* Starting the next boot of the channel a caller asked for, as a refill or
\* for the caller itself, leaves every other VM where it is.
LEMMA StartOwn ==
  ASSUME OwnInv, NEW c \in Callers, NEW s \in {"queued", "asked"}, NEW p \in PCs,
         pc[c] \in {"select", "respawn"}, p \notin {"select", "received", "respawn"},
         pc' = [pc EXCEPT ![c] = p],
         spawned' = [spawned EXCEPT ![want[c]] = @ + 1],
         stage' = [stage EXCEPT ![<<want[c], spawned[want[c]] + 1>>] = s],
         UNCHANGED <<chan, want, calls>>
  PROVE  /\ stage' \in [VMs -> Stages] /\ spawned' \in [Keys -> Size .. Size + calls]
         /\ BudgetOK' /\ NumberedOK' /\ ChanOK'
<1> DEFINE k == want[c]
           n == <<k, spawned[k] + 1>>
<1>1. k \in Keys /\ spawned[k] \in Nat /\ calls \in Nat
  BY VMPoolAssumption DEF OwnInv, TypeOK
<1>2. n \in VMs /\ Key(n) = k /\ stage[n] = "unused" /\ spawned[k] + 1 <= Size + calls
  BY NextBoot
<1>3. stage' \in [VMs -> Stages]
  BY DEF OwnInv, TypeOK, Stages
<1>4. spawned' \in [Keys -> Size .. Size + calls]
  BY <1>1, <1>2, VMPoolAssumption DEF OwnInv, TypeOK
<1>5. BudgetOK'
  <2> SUFFICES ASSUME NEW l \in Keys
               PROVE  spawned'[l] + Cardinality(MayStart(l)') <= Size + calls
    BY DEF BudgetOK
  <2>1. Cardinality(MayStart(l)') = IF l = k THEN Cardinality(MayStart(l)) - 1
                                             ELSE Cardinality(MayStart(l))
    BY MayStartLeft DEF OwnInv
  <2>2. spawned'[l] = IF l = k THEN spawned[l] + 1 ELSE spawned[l]
    BY DEF OwnInv, TypeOK
  <2>3. spawned[l] + Cardinality(MayStart(l)) <= Size + calls
    BY DEF OwnInv, BudgetOK
  <2>4. spawned[l] \in Int
    BY VMPoolAssumption DEF OwnInv, TypeOK
  <2> QED
    BY <1>1, <2>1, <2>2, <2>3, <2>4, MayStartFinite, VMPoolAssumption
<1>6. NumberedOK'
  <2> SUFFICES ASSUME NEW v \in VMs
               PROVE  stage'[v] = "unused" <=> v[2] > spawned'[Key(v)]
    BY DEF NumberedOK
  <2>0. v[2] \in Nat /\ Key(v) \in Keys /\ v = <<Key(v), v[2]>>
        /\ spawned[Key(v)] \in Nat
    BY VMPoolAssumption DEF VMs, Key, OwnInv, TypeOK
  <2>1. stage[v] = "unused" <=> v[2] > spawned[Key(v)]
    BY DEF OwnInv, NumberedOK
  <2>2. stage'[v] = IF v = n THEN s ELSE stage[v]
    BY <1>2 DEF OwnInv, TypeOK
  <2>3. spawned'[Key(v)] = IF Key(v) = k THEN spawned[k] + 1 ELSE spawned[Key(v)]
    BY <2>0 DEF OwnInv, TypeOK
  <2>4. CASE v = n
    BY <1>1, <1>2, <2>2, <2>3, <2>4
  <2>5. CASE v # n /\ Key(v) = k
    <3>1. v[2] # spawned[k] + 1
      BY <2>0, <2>5
    <3> QED
      BY <2>0, <2>1, <2>2, <2>3, <2>5, <3>1
  <2>6. CASE v # n /\ Key(v) # k
    BY <2>1, <2>2, <2>3, <2>6
  <2> QED
    BY <2>4, <2>5, <2>6
<1>7. ChanOK'
  <2>1. \A l \in Keys : \A i \in 1..Len(chan[l]) : chan[l][i] \in VMs /\ chan[l][i] # n
    BY <1>2, ElementOfSeq DEF OwnInv, TypeOK, ChanOK
  <2>2. \A u \in VMs : u # n => stage'[u] = stage[u]
    BY DEF OwnInv, TypeOK
  <2>3. ChanOK
    BY DEF OwnInv
  <2> QED
    BY <2>1, <2>2, <2>3 DEF ChanOK
<1> QED
  BY <1>3, <1>4, <1>5, <1>6, <1>7

LEMMA RespawnOwn ==
  ASSUME OwnInv, PInv', NEW c \in Callers, Respawn(c)
  PROVE  OwnInv'
<1> DEFINE n == <<want[c], spawned[want[c]] + 1>>
<1>1. /\ pc[c] = "respawn" /\ pc' = [pc EXCEPT ![c] = "use"]
      /\ spawned' = [spawned EXCEPT ![want[c]] = @ + 1]
      /\ stage' = [stage EXCEPT ![n] = "queued"]
      /\ UNCHANGED <<chan, failures, chanClosed, closed, cancelled, closer, ctxDone,
                     want, got, calls, panic>>
  BY DEF Respawn, Start, Set, shutdown
<1>2. n \in VMs /\ stage[n] = "unused"
  BY <1>1, NextBoot
<1> HIDE DEF n
<1>3. /\ stage' \in [VMs -> Stages] /\ spawned' \in [Keys -> Size .. Size + calls]
      /\ BudgetOK' /\ NumberedOK' /\ ChanOK'
  <2>1. "use" \in PCs
    BY DEF PCs
  <2> QED
    BY <1>1, <2>1, StartOwn DEF n
<1>4. TypeOK' /\ FlagOK'
  BY <1>1, <1>3 DEF OwnInv, TypeOK, PCs, FlagOK
<1>5. HoldingOK'
  <2>1. \A d \in Callers : got[d] # NoVM => got[d] \in VMs /\ got[d] # n
    BY <1>2, ZenonT(40) DEF OwnInv, TypeOK, HoldingOK
  <2>2. \A u \in VMs : u # n => stage'[u] = stage[u]
    BY <1>1 DEF OwnInv, TypeOK
  <2>3. HoldingOK /\ pc \in [Callers -> PCs]
    BY DEF OwnInv, TypeOK
  <2> QED
    BY <1>1, <2>1, <2>2, <2>3 DEF HoldingOK
<1>6. GotOnce' /\ HeldOK'
  BY <1>1, <1>2 DEF OwnInv, TypeOK, GotOnce, HeldOK
<1> QED
  BY <1>3, <1>4, <1>5, <1>6 DEF OwnInv

\* A caller gives up what it has: the VM it kills, or the boot that failed.
LEMMA DropOwn ==
  ASSUME OwnInv, PInv', NEW c \in Callers, pc[c] \in {"use", "booting"},
         got[c] # NoVM, NEW s \in {"dead", "failed"},
         stage' = [stage EXCEPT ![got[c]] = s],
         got' = [got EXCEPT ![c] = NoVM], pc' = [pc EXCEPT ![c] = "out"],
         failures' \in 0..MaxFailures,
         UNCHANGED <<spawned, chan, chanClosed, closed, cancelled, closer, ctxDone,
                     want, calls, panic>>
  PROVE  OwnInv'
<1> DEFINE v == got[c]
<1>1. v \in VMs /\ stage[v] \in {"held", "asked", "callboot"}
  BY DEF OwnInv, TypeOK, HoldingOK
<1>2. TypeOK' /\ FlagOK'
  BY DEF OwnInv, TypeOK, Stages, PCs, FlagOK
<1>3. BudgetOK'
  BY MayStartKept DEF OwnInv, BudgetOK
<1>4. NumberedOK'
  BY <1>1 DEF OwnInv, TypeOK, NumberedOK
<1>5. \A d \in Callers : d # c => got[d] # v
  BY DEF OwnInv, GotOnce
<1>6. HoldingOK' /\ GotOnce'
  BY <1>1, <1>5 DEF OwnInv, TypeOK, HoldingOK, GotOnce
<1>7. ChanOK'
  <2>1. \A l \in Keys : \A i \in 1..Len(chan[l]) : chan[l][i] \in VMs /\ chan[l][i] # v
    BY <1>1, ElementOfSeq DEF OwnInv, TypeOK, ChanOK
  <2>2. \A u \in VMs : u # v => stage'[u] = stage[u]
    BY DEF OwnInv, TypeOK
  <2>3. ChanOK
    BY DEF OwnInv
  <2> QED
    BY <2>1, <2>2, <2>3 DEF ChanOK
<1>8. HeldOK'
  <2> SUFFICES ASSUME NEW u \in VMs, stage'[u] = "held"
               PROVE  \E d \in Callers : got'[d] = u
    BY DEF HeldOK
  <2>1. u # v /\ stage[u] = "held"
    BY <1>1 DEF OwnInv, TypeOK
  <2>2. PICK d \in Callers : got[d] = u
    BY <2>1 DEF OwnInv, HeldOK
  <2> QED
    BY <2>1, <2>2 DEF OwnInv, TypeOK
<1> QED
  BY <1>2, <1>3, <1>4, <1>6, <1>7, <1>8 DEF OwnInv

LEMMA ReleaseOwn ==
  ASSUME OwnInv, PInv', NEW c \in Callers, ReleaseOrDiscard(c)
  PROVE  OwnInv'
<1>1. CASE got[c] = NoVM
  <2>1. /\ panic' = "nil VM"
        /\ UNCHANGED <<stage, spawned, chan, failures, chanClosed, closed, cancelled,
                       closer, ctxDone, pc, want, got, calls>>
    BY <1>1 DEF ReleaseOrDiscard, shutdown
  <2>2. TypeOK' /\ FlagOK'
    BY <2>1 DEF OwnInv, TypeOK, Panics, FlagOK
  <2> QED
    BY <2>1, <2>2, QuietOwn
<1>2. CASE got[c] # NoVM
  BY <1>2, DropOwn DEF ReleaseOrDiscard, Set, shutdown, OwnInv, TypeOK
<1> QED
  BY <1>1, <1>2

LEMMA CallOwn ==
  ASSUME OwnInv, PInv', NEW c \in Callers, Call(c)
  PROVE  OwnInv'
BY EnterOwn, ReceiveOwn, ReceiveNilOwn, PcOwn, RespawnOwn, ReleaseOwn DEF Call

LEMMA ClosingOwn ==
  ASSUME OwnInv, PInv', Closing
  PROVE  OwnInv'
<1>1. CASE CloseStore \/ CloseCancel \/ CloseWait \/ CloseWoken \/ CloseReturn
  <2>1. /\ UNCHANGED <<stage, spawned, chan, failures, chanClosed, ctxDone, pc, want,
                       got, calls>>
        /\ closed' = TRUE \/ closed' = closed
    BY <1>1 DEF CloseStore, CloseCancel, CloseWait, CloseWoken, CloseReturn, boots,
        callers
  <2>2. TypeOK' /\ FlagOK'
    <3>1. CASE CloseStore
      BY <3>1 DEF CloseStore, boots, callers, OwnInv, TypeOK, FlagOK
    <3>2. CASE CloseCancel
      BY <3>2 DEF CloseCancel, boots, callers, OwnInv, TypeOK, FlagOK
    <3>3. CASE CloseWait \/ CloseWoken \/ CloseReturn
      BY <3>3, ZenonT(40) DEF CloseWait, CloseWoken, CloseReturn, boots, callers, OwnInv, TypeOK,
          FlagOK, Panics
    <3> QED
      BY <1>1, <3>1, <3>2, <3>3
  <2> QED
    BY <2>1, <2>2, QuietOwn
<1>2. ASSUME NEW k \in Keys, CloseDrain(k) PROVE OwnInv'
  <2>1. /\ stage' = [v \in VMs |-> IF InChan(k, v) THEN "dead" ELSE stage[v]]
        /\ chanClosed' = [chanClosed EXCEPT ![k] = TRUE]
        /\ chan' = [chan EXCEPT ![k] = <<>>]
        /\ UNCHANGED <<spawned, failures, closed, cancelled, closer, ctxDone, pc, want,
                       got, calls, panic>>
    BY <1>2 DEF CloseDrain, InChan, callers
  <2>2. \A v \in VMs : InChan(k, v) => stage[v] = "idle" /\ Key(v) = k
    BY DEF InChan, OwnInv, ChanOK
  <2>3. \A v \in VMs : stage'[v] = stage[v] \/ (stage[v] = "idle" /\ stage'[v] = "dead"
                                                /\ Key(v) = k)
    BY <2>1, <2>2
  <2>4. TypeOK' /\ FlagOK'
    BY <2>1, EmptySeq DEF OwnInv, TypeOK, Stages, FlagOK
  <2>5. BudgetOK' /\ NumberedOK'
    BY <2>1, <2>3 DEF OwnInv, BudgetOK, MayStart, NumberedOK
  <2>6. HoldingOK' /\ GotOnce' /\ HeldOK'
    <3>1. \A c \in Callers : got[c] # NoVM => got[c] \in VMs
      BY DEF OwnInv, TypeOK
    <3>2. HoldingOK'
      BY <2>1, <2>3, <3>1 DEF OwnInv, HoldingOK
    <3> QED
      BY <2>1, <2>3, <3>2 DEF OwnInv, GotOnce, HeldOK
  <2>7. ChanOK'
    <3> SUFFICES ASSUME NEW l \in Keys, NEW i \in 1..Len(chan'[l]),
                        NEW j \in 1..Len(chan'[l])
                 PROVE  /\ stage'[chan'[l][i]] = "idle" /\ Key(chan'[l][i]) = l
                        /\ chan'[l][i] = chan'[l][j] => i = j
      BY DEF ChanOK
    <3>1. l # k
      BY <2>1, EmptySeq DEF OwnInv, TypeOK
    <3>2. chan'[l] = chan[l] /\ chan[l] \in Seq(VMs)
      BY <2>1, <3>1 DEF OwnInv, TypeOK
    <3>3. chan[l][i] \in VMs
      BY <3>2, ElementOfSeq
    <3> QED
      BY <2>3, <3>1, <3>2, <3>3 DEF OwnInv, ChanOK
  <2> QED
    BY <2>4, <2>5, <2>6, <2>7 DEF OwnInv
<1> QED
  BY <1>1, <1>2 DEF Closing

\* OwnInv is inductive for the prewarmed pools.
LEMMA StepOwnInv ==
  ASSUME OwnInv, [PrewarmedStep]_vars
  PROVE  OwnInv'
<1>0. PInv'
  BY StepPInv DEF OwnInv
<1>1. CASE \E v \in VMs : Refill(v)
  BY <1>0, <1>1, RefillOwn
<1>2. CASE \E c \in Callers : Call(c)
  BY <1>0, <1>2, CallOwn
<1>3. CASE CancelCallers
  <2>1. TypeOK' /\ FlagOK'
    BY <1>3 DEF CancelCallers, boots, shutdown, OwnInv, TypeOK, FlagOK
  <2> QED
    BY <1>0, <1>3, <2>1, QuietOwn DEF CancelCallers, boots, shutdown
<1>4. CASE Closing
  BY <1>0, <1>4, ClosingOwn
<1>5. CASE UNCHANGED vars
  <2>1. TypeOK' /\ FlagOK'
    BY <1>5 DEF vars, OwnInv, TypeOK, FlagOK
  <2> QED
    BY <1>0, <1>5, <2>1, QuietOwn DEF vars
<1> QED
  BY <1>1, <1>2, <1>3, <1>4, <1>5 DEF PrewarmedStep

-----------------------------------------------------------------------------
(***************************************************************************)
(* What the pool is worth: every VM that leaves a channel is replaced      *)
(* once, unless the pool is closed or a boot fails.                        *)
(***************************************************************************)

RefillOf(k) == {v \in Refilling : Key(v) = k}

\* The callers that have taken a VM of channel k and not replaced it yet.
Taken(k) == {c \in Callers : /\ pc[c] \in {"received", "respawn"}
                             /\ want[c] = k /\ got[c] # NoVM}

LEMMA SupplyIs ==
  ASSUME NEW k
  PROVE  /\ Supply(k) = Len(chan[k]) + Cardinality(RefillOf(k)) + Cardinality(Taken(k))
         /\ Supply(k)' = Len(chan'[k]) + Cardinality(RefillOf(k)')
                           + Cardinality(Taken(k)')
BY DEF Supply, RefillOf, Taken

LEMMA SupplyFinite ==
  ASSUME NEW k \in Keys
  PROVE  /\ IsFiniteSet(RefillOf(k)) /\ Cardinality(RefillOf(k)) \in Nat
         /\ IsFiniteSet(RefillOf(k)') /\ Cardinality(RefillOf(k)') \in Nat
         /\ IsFiniteSet(Failed(k)) /\ Cardinality(Failed(k)) \in Nat
         /\ IsFiniteSet(Failed(k)') /\ Cardinality(Failed(k)') \in Nat
         /\ IsFiniteSet(Taken(k)) /\ Cardinality(Taken(k)) \in Nat
         /\ IsFiniteSet(Taken(k)') /\ Cardinality(Taken(k)') \in Nat
<1> DEFINE All == {k} \X (1 .. Size + MaxCalls)
<1>1. IsFiniteSet(All)
  <2>1. Size + MaxCalls \in Int /\ 1 \in Int
    BY VMPoolAssumption
  <2>2. IsFiniteSet({k}) /\ IsFiniteSet(1 .. Size + MaxCalls)
    BY <2>1, FS_Singleton, FS_Interval
  <2> QED
    BY <2>2, FS_Product
<1>2. /\ RefillOf(k) \in SUBSET All /\ RefillOf(k)' \in SUBSET All
      /\ Failed(k) \in SUBSET All /\ Failed(k)' \in SUBSET All
  BY DEF RefillOf, Refilling, Failed, VMs, Key
<1>3. Taken(k) \in SUBSET Callers /\ Taken(k)' \in SUBSET Callers
  BY DEF Taken
<1> HIDE DEF All
<1>4. \A S \in SUBSET All : IsFiniteSet(S) /\ Cardinality(S) \in Nat
  BY <1>1, FS_Subset, FS_CardinalityType
<1>5. \A S \in SUBSET Callers : IsFiniteSet(S) /\ Cardinality(S) \in Nat
  BY VMPoolAssumption, FS_Subset, FS_CardinalityType
<1> QED
  BY <1>2, <1>3, <1>4, <1>5

\* The refills and the failures of a channel when one VM changes its stage.
LEMMA StageCounts ==
  ASSUME TypeOK, NEW v \in VMs, NEW s \in Stages, stage' = [stage EXCEPT ![v] = s],
         NEW k \in Keys
  PROVE  LET R == {"queued", "boot", "ready"} IN
         /\ Key(v) # k => /\ Cardinality(RefillOf(k)') = Cardinality(RefillOf(k))
                          /\ Cardinality(Failed(k)') = Cardinality(Failed(k))
         /\ Key(v) = k =>
              /\ stage[v] \in R /\ s \notin R =>
                   Cardinality(RefillOf(k)') = Cardinality(RefillOf(k)) - 1
              /\ stage[v] \notin R /\ s \in R =>
                   Cardinality(RefillOf(k)') = Cardinality(RefillOf(k)) + 1
              /\ stage[v] \in R <=> s \in R =>
                   Cardinality(RefillOf(k)') = Cardinality(RefillOf(k))
              /\ stage[v] # "failed" /\ s = "failed" =>
                   Cardinality(Failed(k)') = Cardinality(Failed(k)) + 1
              /\ stage[v] # "failed" /\ s # "failed" =>
                   Cardinality(Failed(k)') = Cardinality(Failed(k))
<1> DEFINE R == {"queued", "boot", "ready"}
<1>0. \A u \in VMs : stage'[u] = IF u = v THEN s ELSE stage[u]
  BY DEF TypeOK
<1>1. CASE Key(v) # k
  BY <1>0, <1>1 DEF RefillOf, Refilling, Failed
<1>2. CASE Key(v) = k
  <2>1. v \in RefillOf(k) <=> stage[v] \in R
    BY <1>2 DEF RefillOf, Refilling
  <2>2. v \in Failed(k) <=> stage[v] = "failed"
    BY <1>2 DEF Failed
  <2>3. RefillOf(k)' = IF s \in R THEN RefillOf(k) \cup {v} ELSE RefillOf(k) \ {v}
    BY <1>0, <1>2 DEF RefillOf, Refilling
  <2>4. Failed(k)' = IF s = "failed" THEN Failed(k) \cup {v} ELSE Failed(k) \ {v}
    BY <1>0, <1>2 DEF Failed
  <2>5. /\ Cardinality(RefillOf(k) \cup {v}) = IF v \in RefillOf(k)
             THEN Cardinality(RefillOf(k)) ELSE Cardinality(RefillOf(k)) + 1
        /\ Cardinality(RefillOf(k) \ {v}) = IF v \in RefillOf(k)
             THEN Cardinality(RefillOf(k)) - 1 ELSE Cardinality(RefillOf(k))
        /\ Cardinality(Failed(k) \cup {v}) = IF v \in Failed(k)
             THEN Cardinality(Failed(k)) ELSE Cardinality(Failed(k)) + 1
        /\ Cardinality(Failed(k) \ {v}) = IF v \in Failed(k)
             THEN Cardinality(Failed(k)) - 1 ELSE Cardinality(Failed(k))
    BY SupplyFinite, FS_AddElement, FS_RemoveElement
  <2> QED
    BY <1>2, <2>1, <2>2, <2>3, <2>4, <2>5
<1> QED
  BY <1>1, <1>2

LEMMA RefillKept ==
  ASSUME TypeOK, NEW v \in VMs, NEW s \in Stages, stage' = [stage EXCEPT ![v] = s],
         NEW k \in Keys,
         stage[v] \in {"queued", "boot", "ready"} <=> s \in {"queued", "boot", "ready"}
  PROVE  Cardinality(RefillOf(k)') = Cardinality(RefillOf(k))
BY StageCounts

LEMMA RefillOut ==
  ASSUME TypeOK, NEW v \in VMs, NEW s \in Stages, stage' = [stage EXCEPT ![v] = s],
         NEW k \in Keys,
         stage[v] \notin {"queued", "boot", "ready"}, s \notin {"queued", "boot", "ready"}
  PROVE  Cardinality(RefillOf(k)') = Cardinality(RefillOf(k))
BY StageCounts

LEMMA RefillLeft ==
  ASSUME TypeOK, NEW v \in VMs, NEW s \in Stages, stage' = [stage EXCEPT ![v] = s],
         NEW k \in Keys,
         stage[v] \in {"queued", "boot", "ready"}, s \notin {"queued", "boot", "ready"}
  PROVE  Cardinality(RefillOf(k)') = IF Key(v) = k THEN Cardinality(RefillOf(k)) - 1
                                                   ELSE Cardinality(RefillOf(k))
BY StageCounts

LEMMA RefillJoined ==
  ASSUME TypeOK, NEW v \in VMs, NEW s \in Stages, stage' = [stage EXCEPT ![v] = s],
         NEW k \in Keys,
         stage[v] \notin {"queued", "boot", "ready"}, s \in {"queued", "boot", "ready"}
  PROVE  Cardinality(RefillOf(k)') = IF Key(v) = k THEN Cardinality(RefillOf(k)) + 1
                                                   ELSE Cardinality(RefillOf(k))
BY StageCounts

LEMMA FailedCounts ==
  ASSUME TypeOK, NEW v \in VMs, NEW s \in Stages, stage' = [stage EXCEPT ![v] = s],
         NEW k \in Keys, stage[v] # "failed"
  PROVE  Cardinality(Failed(k)') = IF Key(v) = k /\ s = "failed"
                                     THEN Cardinality(Failed(k)) + 1
                                     ELSE Cardinality(Failed(k))
BY StageCounts

LEMMA RefillNone ==
  ASSUME TypeOK, NEW v \in VMs, NEW s \in Stages, stage' = [stage EXCEPT ![v] = s],
         NEW k \in Keys,
         stage[v] \notin {"queued", "boot", "ready", "failed"},
         s \notin {"queued", "boot", "ready", "failed"}
  PROVE  /\ Cardinality(RefillOf(k)') = Cardinality(RefillOf(k))
         /\ Cardinality(Failed(k)') = Cardinality(Failed(k))
BY RefillKept, FailedCounts

\* The callers that owe channel k a refill when caller c joins or leaves them.
LEMMA TakenCounts ==
  ASSUME NEW k \in Keys, NEW c \in Callers,
         \A d \in Callers \ {c} : d \in Taken(k)' <=> d \in Taken(k)
  PROVE  Cardinality(Taken(k)') =
           Cardinality(Taken(k))
             + (IF c \in Taken(k)' THEN 1 ELSE 0) - (IF c \in Taken(k) THEN 1 ELSE 0)
<1>1. Taken(k)' = IF c \in Taken(k)' THEN Taken(k) \cup {c} ELSE Taken(k) \ {c}
  <2>1. Taken(k) \subseteq Callers /\ Taken(k)' \subseteq Callers
    BY DEF Taken
  <2> QED
    BY <2>1
<1>2. /\ Cardinality(Taken(k) \cup {c}) = IF c \in Taken(k)
           THEN Cardinality(Taken(k)) ELSE Cardinality(Taken(k)) + 1
      /\ Cardinality(Taken(k) \ {c}) = IF c \in Taken(k)
           THEN Cardinality(Taken(k)) - 1 ELSE Cardinality(Taken(k))
  BY SupplyFinite, FS_AddElement, FS_RemoveElement, ZenonT(40)
<1>3. CASE c \in Taken(k)'
  <2>1. Cardinality(Taken(k)') = Cardinality(Taken(k) \cup {c})
    BY <1>1, <1>3
  <2> QED
    BY <1>2, <1>3, <2>1, SupplyFinite
<1>4. CASE c \notin Taken(k)'
  <2>1. Cardinality(Taken(k)') = Cardinality(Taken(k) \ {c})
    BY <1>1, <1>4
  <2> QED
    BY <1>2, <1>4, <2>1, SupplyFinite
<1> QED
  BY <1>3, <1>4

\* A step never adds to the supply of channel k, and while the pool is open
\* takes from it only by a boot that fails.
Flow(k) ==
  /\ Supply(k)' <= Supply(k)
  /\ closed' \/ Supply(k)' + Cardinality(Failed(k)')
                  = Supply(k) + Cardinality(Failed(k))

LEMMA SupplyTypes ==
  ASSUME TypeOK, TypeOK', NEW k \in Keys
  PROVE  Len(chan[k]) \in Nat /\ Len(chan'[k]) \in Nat
BY LenProperties DEF TypeOK

LEMMA FlowKept ==
  ASSUME TypeOK, TypeOK', NEW k \in Keys, Len(chan'[k]) = Len(chan[k]),
         Cardinality(RefillOf(k)') = Cardinality(RefillOf(k)),
         Cardinality(Taken(k)') = Cardinality(Taken(k)),
         Cardinality(Failed(k)') = Cardinality(Failed(k))
  PROVE  Flow(k)
BY SupplyIs, SupplyFinite, SupplyTypes DEF Flow

LEMMA RefillFlow ==
  ASSUME OwnInv, OwnInv', NEW v \in VMs, Refill(v), NEW k \in Keys
  PROVE  Flow(k)
<1>0. TypeOK /\ TypeOK'
  BY DEF OwnInv
<1>s. /\ Supply(k) = Len(chan[k]) + Cardinality(RefillOf(k)) + Cardinality(Taken(k))
      /\ Supply(k)' = Len(chan'[k]) + Cardinality(RefillOf(k)') + Cardinality(Taken(k)')
      /\ Len(chan[k]) \in Nat /\ Len(chan'[k]) \in Nat
      /\ Cardinality(RefillOf(k)) \in Nat /\ Cardinality(RefillOf(k)') \in Nat
      /\ Cardinality(Taken(k)) \in Nat /\ Cardinality(Taken(k)') \in Nat
      /\ Cardinality(Failed(k)) \in Nat /\ Cardinality(Failed(k)') \in Nat
      /\ Supply(k) \in Int /\ Supply(k)' \in Int
  BY <1>0, SupplyIs, SupplyFinite, SupplyTypes, SMTT(30)
<1>1. Taken(k)' = Taken(k)
  BY DEF Refill, SemAcquire, SemAbandon, BootOK, BootFail, Send, SendAbandon, callers,
      Taken
<1>2. CASE SemAcquire(v) \/ BootOK(v)
  <2>1. PICK s \in {"boot", "ready"} :
          /\ stage[v] \in {"queued", "boot"} /\ chan' = chan
          /\ stage' = [stage EXCEPT ![v] = s]
    BY <1>2 DEF SemAcquire, BootOK, Set
  <2>2. s \in Stages
    BY DEF Stages
  <2>3. /\ Cardinality(RefillOf(k)') = Cardinality(RefillOf(k))
        /\ Cardinality(Failed(k)') = Cardinality(Failed(k))
    BY <1>0, <2>1, <2>2, RefillKept, FailedCounts
  <2> QED
    BY <1>0, <1>1, <2>1, <2>3, FlowKept
<1>3. CASE SemAbandon(v) \/ SendAbandon(v)
  <2>1. closed'
    BY <1>3 DEF SemAbandon, SendAbandon, Done, OwnInv, FlagOK
  <2>2. PICK s \in {"failed", "dead"} :
          /\ stage[v] \in {"queued", "ready"} /\ chan' = chan
          /\ stage' = [stage EXCEPT ![v] = s]
    BY <1>3 DEF SemAbandon, SendAbandon, Done, Set
  <2>3. s \in Stages
    BY DEF Stages
  <2>4. Cardinality(RefillOf(k)') = IF Key(v) = k THEN Cardinality(RefillOf(k)) - 1
                                                  ELSE Cardinality(RefillOf(k))
    BY <1>0, <2>2, <2>3, RefillLeft
  <2> QED
    BY <1>0, <1>1, <2>1, <2>2, <2>4, <1>s, SMTT(30) DEF Flow
<1>4. CASE BootFail(v)
  <2>1. /\ stage[v] = "boot" /\ chan' = chan
        /\ stage' = [stage EXCEPT ![v] = "failed"]
    BY <1>4 DEF BootFail, Done, Set
  <2>2. "failed" \in Stages
    BY DEF Stages
  <2>3. Cardinality(RefillOf(k)') = IF Key(v) = k THEN Cardinality(RefillOf(k)) - 1
                                                  ELSE Cardinality(RefillOf(k))
    BY <1>0, <2>1, <2>2, RefillLeft
  <2>4. Cardinality(Failed(k)') = IF Key(v) = k THEN Cardinality(Failed(k)) + 1
                                                ELSE Cardinality(Failed(k))
    BY <1>0, <2>1, <2>2, FailedCounts
  <2>5. /\ Supply(k)' <= Supply(k)
        /\ Supply(k)' + Cardinality(Failed(k)') = Supply(k) + Cardinality(Failed(k))
    <3>1. CASE Key(v) = k
      <4>1. /\ Cardinality(RefillOf(k)') = Cardinality(RefillOf(k)) - 1
            /\ Cardinality(Failed(k)') = Cardinality(Failed(k)) + 1
            /\ Cardinality(Taken(k)') = Cardinality(Taken(k))
            /\ Len(chan'[k]) = Len(chan[k])
        BY <1>1, <2>1, <2>3, <2>4, <3>1
      <4>2. Supply(k)' = Supply(k) - 1
        BY <1>s, <4>1, SMTT(30)
      <4>3. Supply(k) \in Int /\ Cardinality(Failed(k)) \in Nat
        BY <1>s
      <4>4. Cardinality(Failed(k)') = Cardinality(Failed(k)) + 1
        BY <4>1
      <4> QED
        BY <4>2, <4>3, <4>4
    <3>2. CASE Key(v) # k
      BY <1>0, <1>1, <2>1, <2>3, <2>4, <1>s, <3>2
    <3> QED
      BY <3>1, <3>2
  <2> QED
    BY <2>5 DEF Flow
<1>5. CASE Send(v)
  <2>0. Key(v) \in Keys /\ stage[v] = "ready"
    BY <1>5, KeyType DEF Send
  <2>1. ~chanClosed[Key(v)]
    BY <2>0 DEF OwnInv, PInv, ClosedOK, WaitOK
  <2>2. /\ stage' = [stage EXCEPT ![v] = "idle"]
        /\ chan' = [chan EXCEPT ![Key(v)] = Append(@, v)]
    BY <1>5, <2>1 DEF Send, Done, Set
  <2>3. "idle" \in Stages
    BY DEF Stages
  <2>4. /\ Cardinality(RefillOf(k)') =
             IF Key(v) = k THEN Cardinality(RefillOf(k)) - 1
                           ELSE Cardinality(RefillOf(k))
        /\ Cardinality(Failed(k)') = Cardinality(Failed(k))
    BY <1>0, <2>0, <2>2, <2>3, RefillLeft, FailedCounts
  <2>5. chan[Key(v)] \in Seq(VMs)
    BY <2>0 DEF OwnInv, TypeOK
  <2>6. Len(chan'[k]) = IF Key(v) = k THEN Len(chan[k]) + 1 ELSE Len(chan[k])
    BY <1>0, <2>2, <2>5, AppendProperties DEF TypeOK
  <2> QED
    BY <1>0, <1>1, <2>4, <2>6, <1>s DEF Flow
<1> QED
  BY <1>2, <1>3, <1>4, <1>5 DEF Refill

LEMMA CallFlow ==
  ASSUME OwnInv, OwnInv', NEW c \in Callers, Call(c), NEW k \in Keys
  PROVE  Flow(k)
<1>0. TypeOK /\ TypeOK'
  BY DEF OwnInv
<1>s. /\ Supply(k) = Len(chan[k]) + Cardinality(RefillOf(k)) + Cardinality(Taken(k))
      /\ Supply(k)' = Len(chan'[k]) + Cardinality(RefillOf(k)') + Cardinality(Taken(k)')
      /\ Len(chan[k]) \in Nat /\ Len(chan'[k]) \in Nat
      /\ Cardinality(RefillOf(k)) \in Nat /\ Cardinality(RefillOf(k)') \in Nat
      /\ Cardinality(Taken(k)) \in Nat /\ Cardinality(Taken(k)') \in Nat
      /\ Cardinality(Failed(k)) \in Nat /\ Cardinality(Failed(k)') \in Nat
      /\ Supply(k) \in Int /\ Supply(k)' \in Int
  BY <1>0, SupplyIs, SupplyFinite, SupplyTypes, SMTT(30)
<1>1. \A d \in Callers \ {c} : d \in Taken(k)' <=> d \in Taken(k)
  BY <1>0, ZenonT(40) DEF TypeOK, Taken, Call, AcquireEnter, Receive, ReceiveNil, AcquireCancelled,
      CheckClosed, Respawn, ReleaseOrDiscard
<1>2. Cardinality(Taken(k)') =
        Cardinality(Taken(k))
          + (IF c \in Taken(k)' THEN 1 ELSE 0) - (IF c \in Taken(k) THEN 1 ELSE 0)
  BY <1>1, TakenCounts
<1>3. CASE (\E l \in Keys : AcquireEnter(c, l)) \/ ReceiveNil(c) \/ AcquireCancelled(c)
  <2>1. UNCHANGED <<stage, chan>>
    BY <1>3 DEF AcquireEnter, ReceiveNil, AcquireCancelled, boots
  <2>2. RefillOf(k)' = RefillOf(k) /\ Failed(k)' = Failed(k)
    BY <2>1 DEF RefillOf, Refilling, Failed
  <2>3. c \notin Taken(k) /\ c \notin Taken(k)'
    BY <1>0, <1>3 DEF Taken, TypeOK, AcquireEnter, ReceiveNil, AcquireCancelled
  <2> QED
    BY <1>0, <1>2, <1>s, <2>1, <2>2, <2>3, FlowKept
<1>4. CASE Receive(c)
  <2> DEFINE w == want[c]
             h == Head(chan[w])
  <2>1. /\ stage' = [stage EXCEPT ![h] = "held"]
        /\ chan' = [chan EXCEPT ![w] = Tail(@)]
        /\ pc[c] = "select" /\ pc' = [pc EXCEPT ![c] = "received"]
        /\ got' = [got EXCEPT ![c] = h] /\ want' = want
    BY <1>4 DEF Receive, Set
  <2>2. w \in Keys /\ chan[w] \in Seq(VMs) /\ chan[w] # <<>>
    BY <1>4 DEF Receive, OwnInv, TypeOK
  <2> HIDE DEF w, h
  <2>3. /\ Len(chan[w]) \in Nat /\ Len(chan[w]) # 0
        /\ h \in VMs /\ h = chan[w][1] /\ Len(Tail(chan[w])) = Len(chan[w]) - 1
    BY <2>2, EmptySeq, LenProperties, HeadTailProperties DEF h
  <2>4. stage[h] = "idle" /\ "held" \in Stages
    BY <2>2, <2>3 DEF OwnInv, ChanOK, Stages
  <2>5. /\ Cardinality(RefillOf(k)') = Cardinality(RefillOf(k))
        /\ Cardinality(Failed(k)') = Cardinality(Failed(k))
    BY <1>0, <2>1, <2>3, <2>4, RefillNone
  <2>6. c \notin Taken(k) /\ (c \in Taken(k)' <=> k = w)
    BY <1>0, <2>1, <2>3, NoVMIsNoVM DEF Taken, TypeOK, w
  <2>7. Len(chan'[k]) = IF k = w THEN Len(chan[k]) - 1 ELSE Len(chan[k])
    BY <1>0, <2>1, <2>3 DEF TypeOK
  <2>8. /\ Supply(k)' <= Supply(k)
        /\ Supply(k)' + Cardinality(Failed(k)') = Supply(k) + Cardinality(Failed(k))
    <3>1. CASE k = w
      BY <1>0, <1>2, <2>5, <2>6, <2>7, <1>s, <3>1
    <3>2. CASE k # w
      BY <1>0, <1>2, <2>5, <2>6, <2>7, <1>s, <3>2
    <3> QED
      BY <3>1, <3>2
  <2> QED
    BY <2>8 DEF Flow
<1>5. CASE CheckClosed(c)
  <2>1. UNCHANGED <<stage, chan, want, got, closed>>
        /\ pc[c] = "received"
        /\ \/ closed /\ pc' = [pc EXCEPT ![c] = "use"]
           \/ ~closed /\ pc' = [pc EXCEPT ![c] = "respawn"]
    BY <1>5 DEF CheckClosed, boots, shutdown
  <2>2. RefillOf(k)' = RefillOf(k) /\ Failed(k)' = Failed(k)
    BY <2>1 DEF RefillOf, Refilling, Failed
  <2>3. (c \in Taken(k)' => c \in Taken(k)) /\ (closed' \/ (c \in Taken(k)' <=> c \in Taken(k)))
    BY <1>0, <2>1 DEF Taken, TypeOK
  <2> QED
    BY <1>0, <1>2, <2>1, <2>2, <2>3, <1>s, SMTT(30) DEF Flow
<1>6. CASE Respawn(c)
  <2> DEFINE n == <<want[c], spawned[want[c]] + 1>>
  <2>1. /\ pc[c] = "respawn" /\ pc' = [pc EXCEPT ![c] = "use"]
        /\ stage' = [stage EXCEPT ![n] = "queued"] /\ chan' = chan
    BY <1>6 DEF Respawn, Start, Set
  <2>2. n \in VMs /\ Key(n) = want[c] /\ stage[n] = "unused"
    BY <2>1, NextBoot
  <2> HIDE DEF n
  <2>3. "queued" \in Stages
    BY DEF Stages
  <2>4. /\ Cardinality(RefillOf(k)') =
             IF k = want[c] THEN Cardinality(RefillOf(k)) + 1 ELSE Cardinality(RefillOf(k))
        /\ Cardinality(Failed(k)') = Cardinality(Failed(k))
    BY <1>0, <2>1, <2>2, <2>3, RefillJoined, FailedCounts
  <2>5. c \notin Taken(k)' /\ (c \in Taken(k) <=> k = want[c])
    BY <1>0, <2>1 DEF Taken, TypeOK, OwnInv, HoldingOK
  <2>6. /\ Supply(k)' <= Supply(k)
        /\ Supply(k)' + Cardinality(Failed(k)') = Supply(k) + Cardinality(Failed(k))
    <3>1. CASE k = want[c]
      <4>1. /\ Cardinality(RefillOf(k)') = Cardinality(RefillOf(k)) + 1
            /\ Cardinality(Failed(k)') = Cardinality(Failed(k))
            /\ Cardinality(Taken(k)') = Cardinality(Taken(k)) - 1
            /\ Len(chan'[k]) = Len(chan[k])
        BY <1>2, <1>s, <2>1, <2>4, <2>5, <3>1
      <4> QED
        BY <1>s, <4>1, SMTT(30)
    <3>2. CASE k # want[c]
      BY <1>0, <1>2, <2>1, <2>4, <2>5, <1>s, <3>2
    <3> QED
      BY <3>1, <3>2
  <2> QED
    BY <2>6 DEF Flow
<1>7. CASE ReleaseOrDiscard(c)
  <2>1. c \notin Taken(k) /\ c \notin Taken(k)' /\ chan' = chan
    BY <1>0, <1>7 DEF Taken, TypeOK, ReleaseOrDiscard
  <2>2. /\ Cardinality(RefillOf(k)') = Cardinality(RefillOf(k))
        /\ Cardinality(Failed(k)') = Cardinality(Failed(k))
    <3>1. CASE got[c] = NoVM
      <4>1. stage' = stage
        BY <1>7, <3>1 DEF ReleaseOrDiscard
      <4> QED
        BY <4>1 DEF RefillOf, Refilling, Failed
    <3>2. CASE got[c] # NoVM
      <4>1. stage' = [stage EXCEPT ![got[c]] = "dead"]
        BY <1>7, <3>2 DEF ReleaseOrDiscard, Set
      <4>2. got[c] \in VMs /\ stage[got[c]] = "held" /\ "dead" \in Stages
        BY <1>7, <3>2 DEF ReleaseOrDiscard, OwnInv, TypeOK, HoldingOK, Stages
      <4> QED
        BY <1>0, <4>1, <4>2, RefillNone
    <3> QED
      BY <3>1, <3>2
  <2> QED
    BY <1>0, <1>2, <1>s, <2>1, <2>2, FlowKept
<1> QED
  BY <1>3, <1>4, <1>5, <1>6, <1>7 DEF Call

LEMMA ClosingFlow ==
  ASSUME OwnInv, OwnInv', Closing, NEW k \in Keys
  PROVE  Flow(k)
<1>0. TypeOK /\ TypeOK'
  BY DEF OwnInv
<1>1. CASE CloseStore \/ CloseCancel \/ CloseWait \/ CloseWoken \/ CloseReturn
  <2>1. UNCHANGED <<stage, chan, pc, want, got>>
    BY <1>1 DEF CloseStore, CloseCancel, CloseWait, CloseWoken, CloseReturn, boots,
        callers
  <2>2. RefillOf(k)' = RefillOf(k) /\ Failed(k)' = Failed(k) /\ Taken(k)' = Taken(k)
    BY <2>1 DEF RefillOf, Refilling, Failed, Taken
  <2> QED
    BY <1>0, <2>1, <2>2, FlowKept
<1>2. ASSUME NEW l \in Keys, CloseDrain(l) PROVE Flow(k)
  <2>1. /\ stage' = [v \in VMs |-> IF InChan(l, v) THEN "dead" ELSE stage[v]]
        /\ chan' = [chan EXCEPT ![l] = <<>>] /\ closer = "drain"
        /\ UNCHANGED <<closed, pc, want, got>>
    BY <1>2 DEF CloseDrain, InChan, callers
  <2>2. closed'
    BY <2>1 DEF OwnInv, FlagOK
  <2>3. \A v \in VMs : InChan(l, v) => stage[v] = "idle"
    BY DEF InChan, OwnInv, ChanOK
  <2>4. RefillOf(k)' = RefillOf(k) /\ Taken(k)' = Taken(k)
    BY <2>1, <2>3 DEF RefillOf, Refilling, Taken
  <2>5. Len(chan'[k]) <= Len(chan[k])
    BY <1>0, <2>1, EmptySeq, SupplyTypes DEF TypeOK
  <2>6. Supply(k)' <= Supply(k)
    <3>1. /\ Supply(k) = Len(chan[k]) + Cardinality(RefillOf(k)) + Cardinality(Taken(k))
          /\ Supply(k)' = Len(chan'[k]) + Cardinality(RefillOf(k)) + Cardinality(Taken(k))
      BY <2>4, SupplyIs
    <3>2. /\ Len(chan[k]) \in Nat /\ Len(chan'[k]) \in Nat
          /\ Cardinality(RefillOf(k)) \in Nat /\ Cardinality(Taken(k)) \in Nat
      BY <1>0, SupplyFinite, SupplyTypes
    <3> QED
      BY <2>5, <3>1, <3>2
  <2> QED
    BY <2>2, <2>6 DEF Flow
<1> QED
  BY <1>1, <1>2 DEF Closing

SupplyInv == PoolConserved /\ OnlyFailuresShrink

LEMMA InitSupply == ASSUME Init PROVE SupplyInv
<1> SUFFICES ASSUME NEW k \in Keys
             PROVE  Supply(k) = Size /\ Supply(k) + Cardinality(Failed(k)) = Size
  BY VMPoolAssumption DEF SupplyInv, PoolConserved, OnlyFailuresShrink
<1>1. Taken(k) = {} /\ Failed(k) = {} /\ chan[k] = <<>>
  BY DEF Init, Taken, Failed
<1>2. Cardinality(Taken(k)) = 0 /\ Cardinality(Failed(k)) = 0 /\ Len(chan[k]) = 0
  BY <1>1, FS_EmptySet, EmptySeq
<1>3. RefillOf(k) = {k} \X (1 .. Size)
  <2>1. \A v \in VMs : v \in RefillOf(k) <=> v[1] = k /\ v[2] <= Size
    BY DEF Init, RefillOf, Refilling, Key
  <2>2. RefillOf(k) \subseteq VMs /\ {k} \X (1 .. Size) \subseteq VMs
    BY VMPoolAssumption DEF RefillOf, Refilling, VMs
  <2>3. \A v \in VMs : v \in {k} \X (1 .. Size) <=> v[1] = k /\ v[2] <= Size
    BY VMPoolAssumption DEF VMs
  <2> QED
    BY <2>1, <2>2, <2>3
<1>4. Cardinality(RefillOf(k)) = Size
  <2>1. Size \in Int /\ 1 \in Int /\ ~(1 > Size) /\ Size - 1 + 1 = Size /\ 1 * Size = Size
    BY VMPoolAssumption
  <2>2. IsFiniteSet({k}) /\ Cardinality({k}) = 1
        /\ IsFiniteSet(1 .. Size) /\ Cardinality(1 .. Size) = Size
    BY <2>1, FS_Singleton, FS_Interval
  <2>3. Cardinality({k} \X (1 .. Size)) = Cardinality({k}) * Cardinality(1 .. Size)
    BY <2>2, FS_Product
  <2> QED
    BY <1>3, <2>1, <2>2, <2>3
<1> QED
  BY <1>2, <1>4, SupplyIs, VMPoolAssumption

\* What the pool is worth is kept by every step of a prewarmed pool.
LEMMA StepSupply ==
  ASSUME OwnInv, OwnInv', SupplyInv, [PrewarmedStep]_vars
  PROVE  SupplyInv'
<1>0. TypeOK /\ TypeOK'
  BY DEF OwnInv
<1>1. ASSUME NEW k \in Keys PROVE Flow(k)
  <2>1. CASE UNCHANGED <<stage, chan, pc, want, got>>
    <3>1. RefillOf(k)' = RefillOf(k) /\ Failed(k)' = Failed(k) /\ Taken(k)' = Taken(k)
      BY <2>1 DEF RefillOf, Refilling, Failed, Taken
    <3> QED
      BY <1>0, <2>1, <3>1, FlowKept
  <2>2. CancelCallers \/ UNCHANGED vars => UNCHANGED <<stage, chan, pc, want, got>>
    BY DEF CancelCallers, boots, vars
  <2> QED
    BY <2>1, <2>2, RefillFlow, CallFlow, ClosingFlow DEF PrewarmedStep
<1>2. closed => closed'
  BY DEF PrewarmedStep, Refill, Call, Closing, SemAcquire, SemAbandon, BootOK, BootFail,
      Send, SendAbandon, Done, AcquireEnter, Receive, ReceiveNil, AcquireCancelled,
      CheckClosed, Respawn, ReleaseOrDiscard, CancelCallers, CloseStore, CloseCancel,
      CloseWait, CloseWoken, CloseDrain, CloseReturn, shutdown, vars
<1>3. \A k \in Keys : /\ Supply(k) \in Int /\ Supply(k)' \in Int
                      /\ Cardinality(Failed(k)) \in Int /\ Cardinality(Failed(k)') \in Int
  BY <1>0, SupplyIs, SupplyFinite, SupplyTypes, SMTT(30)
<1>4. PoolConserved'
  BY <1>1, <1>3, VMPoolAssumption DEF Flow, SupplyInv, PoolConserved
<1>5. OnlyFailuresShrink'
  BY <1>1, <1>2, <1>3 DEF Flow, SupplyInv, OnlyFailuresShrink
<1> QED
  BY <1>4, <1>5 DEF SupplyInv

-----------------------------------------------------------------------------
\* A step of a prewarmed pool kills what a caller held, and touches no VM
\* that is dead or never came up.
UsedOnce ==
  \A v \in VMs :
    /\ stage[v] = "held" => stage'[v] \in {"held", "dead"}
    /\ stage[v] \in {"dead", "failed"} => stage'[v] = stage[v]

LEMMA StageUsedOnce ==
  ASSUME TypeOK, NEW v \in VMs, NEW s, stage' = [stage EXCEPT ![v] = s],
         stage[v] \notin {"dead", "failed"},
         stage[v] = "held" => s \in {"held", "dead"}
  PROVE  UsedOnce
BY DEF TypeOK, UsedOnce

LEMMA StepUsedOnce ==
  ASSUME OwnInv, PoolStep
  PROVE  UsedOnce
<1>0. TypeOK
  BY DEF OwnInv
<1>1. CASE UNCHANGED stage
  BY <1>1 DEF UsedOnce
<1>2. ASSUME NEW v \in VMs, Refill(v) PROVE UsedOnce
  <2>1. CASE UNCHANGED stage
    BY <2>1 DEF UsedOnce
  <2>2. CASE ~UNCHANGED stage
    <3>1. /\ stage[v] \in {"queued", "boot", "ready"}
          /\ \E s : stage' = [stage EXCEPT ![v] = s]
      BY <1>2, <2>2 DEF Refill, SemAcquire, SemAbandon, BootOK, BootFail, Send,
          SendAbandon, Done, Set
    <3> QED
      BY <1>0, <3>1, StageUsedOnce
  <2> QED
    BY <2>1, <2>2
<1>3. ASSUME NEW c \in Callers, Call(c) PROVE UsedOnce
  <2>1. CASE Receive(c)
    <3>0. want[c] \in Keys /\ chan[want[c]] \in Seq(VMs) /\ chan[want[c]] # <<>>
      BY <2>1 DEF Receive, OwnInv, TypeOK
    <3>1. /\ 1 \in 1..Len(chan[want[c]]) /\ Head(chan[want[c]]) = chan[want[c]][1]
          /\ Head(chan[want[c]]) \in VMs
      BY <3>0, EmptySeq, LenProperties, HeadTailProperties
    <3>2. stage[Head(chan[want[c]])] = "idle"
      BY <3>0, <3>1 DEF OwnInv, ChanOK
    <3> QED
      BY <1>0, <2>1, <3>1, <3>2, StageUsedOnce DEF Receive, Set
  <2>2. CASE Respawn(c)
    BY <1>0, <2>2, NextBoot, StageUsedOnce DEF Respawn, Start, Set
  <2>3. CASE ReleaseOrDiscard(c) /\ got[c] # NoVM
    <3>1. got[c] \in VMs /\ stage[got[c]] = "held"
      BY <2>3 DEF ReleaseOrDiscard, OwnInv, TypeOK, HoldingOK
    <3> QED
      BY <1>0, <2>3, <3>1, StageUsedOnce DEF ReleaseOrDiscard, Set
  <2>4. CASE ReleaseOrDiscard(c) /\ got[c] = NoVM
    BY <1>1, <2>4 DEF ReleaseOrDiscard
  <2>5. CASE \/ \E k \in Keys : AcquireEnter(c, k)
             \/ ReceiveNil(c) \/ AcquireCancelled(c) \/ CheckClosed(c)
    BY <1>1, <2>5 DEF AcquireEnter, ReceiveNil, AcquireCancelled, CheckClosed, boots
  <2> QED
    BY <1>3, <2>1, <2>2, <2>3, <2>4, <2>5 DEF Call
<1>4. CASE CancelCallers
  BY <1>1, <1>4 DEF CancelCallers, boots
<1>5. CASE Closing
  <2>1. ASSUME NEW k \in Keys, CloseDrain(k) PROVE UsedOnce
    <3>1. stage' = [v \in VMs |-> IF InChan(k, v) THEN "dead" ELSE stage[v]]
      BY <2>1 DEF CloseDrain, InChan
    <3>2. \A v \in VMs : InChan(k, v) => stage[v] = "idle"
      BY DEF InChan, OwnInv, ChanOK
    <3> QED
      BY <3>1, <3>2 DEF UsedOnce
  <2>2. CASE CloseStore \/ CloseCancel \/ CloseWait \/ CloseWoken \/ CloseReturn
    BY <1>1, <2>2 DEF CloseStore, CloseCancel, CloseWait, CloseWoken, CloseReturn, boots
  <2> QED
    BY <1>5, <2>1, <2>2 DEF Closing
<1>6. ASSUME NEW c \in Callers, O!bootFor(c) PROVE UsedOnce
  <2>1. CASE O!BootForBegin(c)
    BY <1>0, <2>1, NextBoot, StageUsedOnce DEF O!BootForBegin, O!Start, O!Set
  <2>2. CASE O!BootForAcquire(c) \/ O!BootForFail(c) \/ O!BootForOK(c)
    <3>1. /\ got[c] \in VMs /\ stage[got[c]] \in {"asked", "callboot"}
          /\ \E s : stage' = [stage EXCEPT ![got[c]] = s]
      BY <2>2 DEF O!BootForAcquire, O!BootForFail, O!BootForOK, O!Set, OwnInv, TypeOK,
          HoldingOK
    <3> QED
      BY <1>0, <3>1, StageUsedOnce
  <2> QED
    BY <1>6, <2>1, <2>2 DEF O!bootFor
<1> QED
  BY <1>2, <1>3, <1>4, <1>5, <1>6 DEF PoolStep, PrewarmedStep

-----------------------------------------------------------------------------
(***************************************************************************)
(* With a spare a caller boots a VM of its own: Close does not wait for    *)
(* that boot, and nothing above is disturbed by it.                        *)
(***************************************************************************)

LEMMA BeginOwn ==
  ASSUME OwnInv, NEW c \in Callers, O!BootForBegin(c)
  PROVE  OwnInv'
<1> DEFINE n == <<want[c], spawned[want[c]] + 1>>
<1>1. /\ pc[c] = "select" /\ pc' = [pc EXCEPT ![c] = "booting"]
      /\ spawned' = [spawned EXCEPT ![want[c]] = @ + 1]
      /\ stage' = [stage EXCEPT ![n] = "asked"]
      /\ got' = [got EXCEPT ![c] = n]
      /\ UNCHANGED <<chan, failures, chanClosed, closed, cancelled, closer, ctxDone,
                     want, calls, panic>>
  BY DEF O!BootForBegin, O!Start, O!Set, O!shutdown
<1>2. n \in VMs /\ Key(n) = want[c] /\ stage[n] = "unused" /\ n # NoVM
  BY <1>1, NextBoot, NoVMIsNoVM
<1> HIDE DEF n
<1>3. /\ stage' \in [VMs -> Stages] /\ spawned' \in [Keys -> Size .. Size + calls]
      /\ BudgetOK' /\ NumberedOK' /\ ChanOK'
  <2>1. "booting" \in PCs
    BY DEF PCs
  <2> QED
    BY <1>1, <2>1, StartOwn DEF n
<1>4. TypeOK' /\ FlagOK'
  BY <1>1, <1>2, <1>3 DEF OwnInv, TypeOK, PCs, FlagOK
<1>5. \A d \in Callers : got[d] # n /\ (got[d] # NoVM => got[d] \in VMs)
  BY <1>2 DEF OwnInv, TypeOK, HoldingOK
<1>6. \A u \in VMs : stage'[u] = IF u = n THEN "asked" ELSE stage[u]
  BY <1>1 DEF OwnInv, TypeOK
<1>7. HoldingOK'
  <2>1. HoldingOK /\ pc \in [Callers -> PCs] /\ got \in [Callers -> VMs \cup {NoVM}]
    BY DEF OwnInv, TypeOK
  <2> QED
    BY <1>1, <1>2, <1>5, <1>6, <2>1 DEF HoldingOK
<1>8. GotOnce'
  BY <1>1, <1>5 DEF OwnInv, TypeOK, GotOnce
<1>9. HeldOK'
  <2> SUFFICES ASSUME NEW u \in VMs, stage'[u] = "held"
               PROVE  \E d \in Callers : got'[d] = u
    BY DEF HeldOK
  <2>1. PICK d \in Callers : got[d] = u
    BY <1>6 DEF OwnInv, HeldOK
  <2>2. d # c
    BY <1>1, <2>1, NoVMIsNoVM DEF OwnInv, HoldingOK
  <2> QED
    BY <1>1, <2>1, <2>2 DEF OwnInv, TypeOK
<1>10. PInv'
  <2>1. PoolTypes'
    BY <1>4 DEF TypeOK, PoolTypes
  <2>2. CancelledOK' /\ ClosedOK' /\ NoSendOnClosed'
    BY <1>1 DEF OwnInv, PInv, CancelledOK, ClosedOK, NoSendOnClosed
  <2>3. WaitOK' /\ IdleOK'
    BY <1>1, <1>6 DEF OwnInv, PInv, WaitOK, IdleOK, InChan
  <2> QED
    BY <2>1, <2>2, <2>3 DEF PInv
<1> QED
  BY <1>3, <1>4, <1>7, <1>8, <1>9, <1>10 DEF OwnInv

\* The VM of caller c goes on, in the caller's hands.
LEMMA OwnBootMoves ==
  ASSUME OwnInv, NEW c \in Callers, pc[c] = "booting",
         NEW s \in {"callboot", "held"},
         NEW p \in {"booting", "use"}, p = "booting" <=> s = "callboot",
         stage' = [stage EXCEPT ![got[c]] = s], pc' = [pc EXCEPT ![c] = p],
         UNCHANGED <<spawned, chan, failures, chanClosed, closed, cancelled, closer,
                     ctxDone, want, got, calls, panic>>
  PROVE  OwnInv'
<1> DEFINE v == got[c]
<1>1. v \in VMs /\ stage[v] \in {"asked", "callboot"} /\ v # NoVM
  BY DEF OwnInv, TypeOK, HoldingOK
<1> HIDE DEF v
<1>2. \A u \in VMs : stage'[u] = IF u = v THEN s ELSE stage[u]
  BY DEF OwnInv, TypeOK, v
<1>3. TypeOK' /\ FlagOK'
  BY DEF OwnInv, TypeOK, Stages, PCs, FlagOK
<1>4. BudgetOK'
  BY MayStartKept DEF OwnInv, BudgetOK
<1>5. NumberedOK' /\ GotOnce'
  BY <1>1, <1>2 DEF OwnInv, NumberedOK, GotOnce
<1>6. HoldingOK'
  <2>1. \A d \in Callers : d # c => got[d] # v /\ (got[d] # NoVM => got[d] \in VMs)
    BY <1>1 DEF OwnInv, TypeOK, GotOnce, v
  <2>2. HoldingOK /\ pc \in [Callers -> PCs]
    BY DEF OwnInv, TypeOK
  <2>3. got[c] = v /\ stage'[v] = s /\ pc'[c] = p
    BY <1>1, <1>2, <2>2 DEF v
  <2>4. ASSUME NEW d \in Callers, d # c
        PROVE  /\ pc'[d] = pc[d] /\ got'[d] = got[d] /\ want'[d] = want[d]
               /\ got[d] # NoVM => stage'[got[d]] = stage[got[d]]
    BY <1>2, <2>1, <2>2, <2>4
  <2> QED
    BY <1>1, <2>2, <2>3, <2>4 DEF HoldingOK
<1>7. ChanOK'
  <2>1. \A l \in Keys : \A i \in 1..Len(chan[l]) : chan[l][i] \in VMs /\ chan[l][i] # v
    BY <1>1, ElementOfSeq DEF OwnInv, TypeOK, ChanOK
  <2>2. ChanOK
    BY DEF OwnInv
  <2> QED
    BY <1>2, <2>1, <2>2 DEF ChanOK
<1>8. HeldOK'
  BY <1>2 DEF OwnInv, HeldOK, v
<1>9. PInv'
  <2>1. PoolTypes'
    BY <1>3 DEF TypeOK, PoolTypes
  <2>2. CancelledOK' /\ ClosedOK' /\ NoSendOnClosed'
    BY DEF OwnInv, PInv, CancelledOK, ClosedOK, NoSendOnClosed
  <2>3. WaitOK' /\ IdleOK'
    BY <1>2 DEF OwnInv, PInv, WaitOK, IdleOK, InChan
  <2> QED
    BY <2>1, <2>2, <2>3 DEF PInv
<1> QED
  BY <1>3, <1>4, <1>5, <1>6, <1>7, <1>8, <1>9 DEF OwnInv

LEMMA OwnBootOwn ==
  ASSUME OwnInv, NEW c \in Callers, O!bootFor(c)
  PROVE  OwnInv'
<1>1. CASE O!BootForBegin(c)
  BY <1>1, BeginOwn
<1>2. CASE O!BootForAcquire(c)
  <2>1. pc' = [pc EXCEPT ![c] = "booting"]
    BY <1>2 DEF O!BootForAcquire, O!callers, OwnInv, TypeOK
  <2> QED
    BY <1>2, <2>1, OwnBootMoves DEF O!BootForAcquire, O!Set, O!shutdown, O!callers
<1>3. CASE O!BootForOK(c)
  BY <1>3, OwnBootMoves DEF O!BootForOK, O!Set, O!shutdown
<1>4. CASE O!BootForFail(c)
  <2>1. /\ pc[c] = "booting" /\ got[c] # NoVM /\ got[c] \in VMs
        /\ stage' = [stage EXCEPT ![got[c]] = "failed"]
        /\ got' = [got EXCEPT ![c] = NoVM] /\ pc' = [pc EXCEPT ![c] = "out"]
        /\ UNCHANGED <<spawned, chan, chanClosed, closed, cancelled, closer, ctxDone,
                       want, calls, panic>>
    BY <1>4 DEF O!BootForFail, O!Set, O!shutdown, OwnInv, TypeOK, HoldingOK
  <2>2. failures' \in 0..MaxFailures
    BY <1>4, VMPoolAssumption DEF O!BootForFail, OwnInv, TypeOK
  <2>3. PInv'
    BY <2>1 DEF OwnInv, PInv, PoolTypes, Stages, CancelledOK, WaitOK, ClosedOK, IdleOK,
        InChan, NoSendOnClosed
  <2> QED
    BY <2>1, <2>2, <2>3, DropOwn
<1> QED
  BY <1>1, <1>2, <1>3, <1>4 DEF O!bootFor

LEMMA StepOwnInvSpare ==
  ASSUME OwnInv, [PoolStep]_vars
  PROVE  OwnInv'
BY StepOwnInv, OwnBootOwn DEF PoolStep

\* The boot of a caller is never part of the supply.
LEMMA OwnBootSupply ==
  ASSUME OwnInv, OwnInv', NEW c \in Callers, O!bootFor(c), NEW k \in Keys
  PROVE  Supply(k)' = Supply(k)
<1>0. TypeOK /\ TypeOK'
  BY DEF OwnInv
<1>1. \A d \in Callers \ {c} : d \in Taken(k)' <=> d \in Taken(k)
  BY <1>0 DEF TypeOK, Taken, O!bootFor, O!BootForBegin, O!BootForAcquire, O!BootForOK,
      O!BootForFail, O!callers
<1>2. c \notin Taken(k) /\ c \notin Taken(k)' /\ chan' = chan
  BY <1>0 DEF TypeOK, Taken, O!bootFor, O!BootForBegin, O!BootForAcquire, O!BootForOK,
      O!BootForFail, O!callers
<1>3. Cardinality(Taken(k)') = Cardinality(Taken(k))
  <2>1. Taken(k) \subseteq Callers /\ Taken(k)' \subseteq Callers
    BY DEF Taken
  <2>2. Taken(k)' = Taken(k)
    BY <1>1, <1>2, <2>1
  <2> QED
    BY <2>2
<1>4. Cardinality(RefillOf(k)') = Cardinality(RefillOf(k))
  <2>1. CASE O!BootForBegin(c)
    <3> DEFINE n == <<want[c], spawned[want[c]] + 1>>
    <3>1. pc[c] = "select" /\ stage' = [stage EXCEPT ![n] = "asked"]
      BY <2>1 DEF O!BootForBegin, O!Start, O!Set
    <3>2. n \in VMs /\ stage[n] = "unused" /\ "asked" \in Stages
      BY <3>1, NextBoot DEF Stages
    <3> QED
      BY <1>0, <3>1, <3>2, RefillOut
  <2>2. CASE O!BootForAcquire(c) \/ O!BootForOK(c) \/ O!BootForFail(c)
    <3>1. PICK s \in {"callboot", "held", "failed"} :
            stage' = [stage EXCEPT ![got[c]] = s]
      BY <2>2 DEF O!BootForAcquire, O!BootForOK, O!BootForFail, O!Set
    <3>2. /\ got[c] \in VMs /\ stage[got[c]] \in {"asked", "callboot"}
          /\ s \in Stages
      BY <2>2 DEF O!BootForAcquire, O!BootForOK, O!BootForFail, OwnInv, TypeOK,
          HoldingOK, Stages
    <3> QED
      BY <1>0, <3>1, <3>2, RefillOut
  <2> QED
    BY <2>1, <2>2 DEF O!bootFor
<1> QED
  BY <1>2, <1>3, <1>4, SupplyIs

LEMMA StepConserved ==
  ASSUME OwnInv, OwnInv', PoolConserved, [PoolStep]_vars
  PROVE  PoolConserved'
<1>0. TypeOK /\ TypeOK'
  BY DEF OwnInv
<1>1. ASSUME NEW k \in Keys PROVE Supply(k)' <= Supply(k)
  <2>0. Supply(k) \in Int /\ Supply(k)' \in Int
    BY <1>0, SupplyIs, SupplyFinite, SupplyTypes, SMTT(30)
  <2>1. CASE UNCHANGED <<stage, chan, pc, want, got>>
    <3>1. RefillOf(k)' = RefillOf(k) /\ Taken(k)' = Taken(k)
      BY <2>1 DEF RefillOf, Refilling, Taken
    <3> QED
      BY <2>0, <2>1, <3>1, SupplyIs
  <2>2. CancelCallers \/ UNCHANGED vars => UNCHANGED <<stage, chan, pc, want, got>>
    BY DEF CancelCallers, boots, vars
  <2>3. CASE (\E v \in VMs : Refill(v)) \/ (\E c \in Callers : Call(c)) \/ Closing
    BY <2>3, RefillFlow, CallFlow, ClosingFlow DEF Flow
  <2>4. CASE \E c \in Callers : O!bootFor(c)
    BY <2>0, <2>4, OwnBootSupply
  <2> QED
    BY <2>1, <2>2, <2>3, <2>4 DEF PoolStep, PrewarmedStep
<1>2. \A k \in Keys : Supply(k) \in Int /\ Supply(k)' \in Int
  BY <1>0, SupplyIs, SupplyFinite, SupplyTypes, SMTT(30)
<1> QED
  BY <1>1, <1>2, VMPoolAssumption DEF PoolConserved

-----------------------------------------------------------------------------
(***************************************************************************)
(* What is booting when Close is past wg.Wait: only refills of callers     *)
(* that had looked at closed before Close, one for each.                   *)
(***************************************************************************)

\* Callers that are about to start a refill.
Late == {c \in Callers : pc[c] = "respawn"}

PastWait == closer \in {"woken", "drain", "done"}

LateInv ==
  /\ calls = 0 => \A c \in Callers : pc[c] = "out"
  /\ \A v \in VMs : stage[v] \notin {"asked", "callboot"}
  /\ PastWait => /\ IsFiniteSet(Refilling)
                 /\ Cardinality(Refilling) + Cardinality(Late) <= Cardinality(Callers)
                 /\ calls = 0 => Refilling = {}

LEMMA LateSize ==
  /\ IsFiniteSet(Late) /\ Cardinality(Late) \in Nat /\ Cardinality(Callers) \in Nat
  /\ Cardinality(Late) <= Cardinality(Callers)
<1>1. Late \in SUBSET Callers
  BY DEF Late
<1>2. IsFiniteSet(Late) /\ Cardinality(Late) <= Cardinality(Callers)
  BY <1>1, FS_Subset, VMPoolAssumption
<1> QED
  BY <1>2, FS_CardinalityType, VMPoolAssumption

LEMMA LateSizePrime ==
  /\ IsFiniteSet(Late') /\ Cardinality(Late') \in Nat /\ Cardinality(Callers) \in Nat
  /\ Cardinality(Late') <= Cardinality(Callers)
<1>1. Late' \in SUBSET Callers
  BY DEF Late
<1>2. IsFiniteSet(Late') /\ Cardinality(Late') <= Cardinality(Callers)
  BY <1>1, FS_Subset, VMPoolAssumption
<1> QED
  BY <1>2, FS_CardinalityType, VMPoolAssumption

\* Refills end and callers give up.
LEMMA FewerLate ==
  ASSUME LateInv, Refilling' \subseteq Refilling, Late' \subseteq Late,
         PastWait, calls' = 0 => calls = 0
  PROVE  /\ IsFiniteSet(Refilling')
         /\ Cardinality(Refilling') + Cardinality(Late') <= Cardinality(Callers)
         /\ calls' = 0 => Refilling' = {}
<1>1. IsFiniteSet(Refilling) /\ IsFiniteSet(Late)
  BY LateSize DEF LateInv
<1>2. /\ IsFiniteSet(Refilling') /\ Cardinality(Refilling') <= Cardinality(Refilling)
      /\ Cardinality(Late') <= Cardinality(Late)
  BY <1>1, FS_Subset
<1>3. /\ Cardinality(Refilling') \in Nat /\ Cardinality(Refilling) \in Nat
      /\ Cardinality(Late') \in Nat /\ Cardinality(Late) \in Nat
      /\ Cardinality(Callers) \in Nat
  BY <1>1, <1>2, LateSize, LateSizePrime, FS_CardinalityType
<1>4. Cardinality(Refilling) + Cardinality(Late) <= Cardinality(Callers)
  BY DEF LateInv
<1>5. Cardinality(Refilling') + Cardinality(Late') <= Cardinality(Callers)
  BY <1>2, <1>3, <1>4
<1> QED
  BY <1>2, <1>5 DEF LateInv

\* wg.Wait is released: nothing is booting.
LEMMA NoneLate ==
  ASSUME Refilling' = {}
  PROVE  /\ IsFiniteSet(Refilling')
         /\ Cardinality(Refilling') + Cardinality(Late') <= Cardinality(Callers)
         /\ calls' = 0 => Refilling' = {}
<1>1. IsFiniteSet({}) /\ Cardinality({}) = 0
  BY FS_EmptySet
<1> QED
  BY <1>1, LateSizePrime

LEMMA InitLate == ASSUME Init PROVE LateInv
BY DEF Init, LateInv, PastWait

LEMMA RefillLate ==
  ASSUME OwnInv, LateInv, NEW v \in VMs, Refill(v)
  PROVE  LateInv'
<1>0. stage \in [VMs -> Stages]
  BY DEF OwnInv, TypeOK
<1>1. UNCHANGED <<pc, calls>> /\ Late' = Late
  BY DEF Refill, SemAcquire, SemAbandon, BootOK, BootFail, Send, SendAbandon, callers,
         Late
<1>2. \/ UNCHANGED <<stage, closer>>
      \/ /\ stage[v] = "queued" /\ stage' = [stage EXCEPT ![v] = "boot"]
         /\ UNCHANGED closer
      \/ /\ stage[v] = "boot" /\ stage' = [stage EXCEPT ![v] = "ready"]
         /\ UNCHANGED closer
      \/ /\ stage[v] \in {"queued", "boot", "ready"}
         /\ \E s \in {"failed", "idle", "dead"} : stage' = [stage EXCEPT ![v] = s]
         /\ closer' = IF closer = "waiting" /\ Refilling = {v} THEN "woken" ELSE closer
  BY DEF Refill, SemAcquire, SemAbandon, BootOK, BootFail, Send, SendAbandon, Done, Set,
         shutdown
<1>3. Refilling' \subseteq Refilling
  BY <1>0, <1>2 DEF Refilling
<1>4. \A u \in VMs : stage'[u] \notin {"asked", "callboot"}
  BY <1>0, <1>2 DEF LateInv
<1>5. CASE PastWait
  BY <1>1, <1>3, <1>4, <1>5, FewerLate DEF LateInv
<1>6. CASE ~PastWait /\ PastWait'
  <2>1. Refilling = {v} /\ stage'[v] \in {"failed", "idle", "dead"}
    BY <1>0, <1>2, <1>6 DEF PastWait
  <2>2. Refilling' = {}
    BY <1>3, <2>1 DEF Refilling
  <2> QED
    BY <1>1, <1>4, <2>2, NoneLate DEF LateInv
<1>7. CASE ~PastWait'
  BY <1>1, <1>4, <1>7 DEF LateInv
<1> QED
  BY <1>5, <1>6, <1>7

LEMMA RespawnLate ==
  ASSUME OwnInv, LateInv, NEW c \in Callers, Respawn(c)
  PROVE  LateInv'
<1> DEFINE n == <<want[c], spawned[want[c]] + 1>>
<1>1. /\ pc[c] = "respawn" /\ pc' = [pc EXCEPT ![c] = "use"]
      /\ stage' = [stage EXCEPT ![n] = "queued"]
      /\ UNCHANGED <<closer, calls>>
  BY DEF Respawn, Start, Set, shutdown
<1>2. n \in VMs /\ stage[n] = "unused"
  BY <1>1, NextBoot
<1>3. calls # 0
  BY <1>1 DEF LateInv
<1>4. stage \in [VMs -> Stages] /\ pc \in [Callers -> PCs]
  BY DEF OwnInv, TypeOK
<1> HIDE DEF n
<1>5. \A u \in VMs : stage'[u] \notin {"asked", "callboot"}
  BY <1>1, <1>2, <1>4 DEF LateInv
<1>6. Refilling' = Refilling \cup {n} /\ n \notin Refilling
  BY <1>1, <1>2, <1>4 DEF Refilling
<1>7. Late' = Late \ {c} /\ c \in Late
  BY <1>1, <1>4 DEF Late
<1>8. ASSUME PastWait
      PROVE  /\ IsFiniteSet(Refilling')
             /\ Cardinality(Refilling') + Cardinality(Late') <= Cardinality(Callers)
  <2>1. /\ IsFiniteSet(Refilling)
        /\ Cardinality(Refilling) + Cardinality(Late) <= Cardinality(Callers)
    BY <1>8 DEF LateInv
  <2>2. IsFiniteSet(Refilling') /\ Cardinality(Refilling') = Cardinality(Refilling) + 1
    BY <1>6, <2>1, FS_AddElement
  <2>3. Cardinality(Late') = Cardinality(Late) - 1
    BY <1>7, LateSize, FS_RemoveElement
  <2>4. Cardinality(Refilling) \in Nat
    BY <2>1, FS_CardinalityType
  <2> QED
    BY <2>1, <2>2, <2>3, <2>4, LateSize
<1> QED
  BY <1>1, <1>3, <1>5, <1>8 DEF LateInv, PastWait

LEMMA CallLate ==
  ASSUME OwnInv, LateInv, NEW c \in Callers, Call(c)
  PROVE  LateInv'
<1>0. /\ stage \in [VMs -> Stages] /\ pc \in [Callers -> PCs] /\ calls \in Nat
      /\ PastWait => closed
  BY VMPoolAssumption DEF OwnInv, TypeOK, FlagOK, PastWait
<1>1. CASE Respawn(c)
  BY <1>1, RespawnLate
<1>2. CASE ~Respawn(c)
  <2>1. UNCHANGED closer
    BY <1>2 DEF Call, AcquireEnter, Receive, ReceiveNil, AcquireCancelled, CheckClosed,
         ReleaseOrDiscard, shutdown
  <2>2. calls' = 0 => calls = 0 /\ \A d \in Callers : pc'[d] = "out"
    <3>1. ASSUME NEW k \in Keys, AcquireEnter(c, k) PROVE calls' # 0
      BY <1>0, <3>1 DEF AcquireEnter
    <3>2. CASE Receive(c) \/ ReceiveNil(c) \/ AcquireCancelled(c) \/ CheckClosed(c)
               \/ ReleaseOrDiscard(c)
      BY <1>0, <3>2 DEF Receive, ReceiveNil, AcquireCancelled, CheckClosed,
           ReleaseOrDiscard, LateInv
    <3> QED
      BY <1>2, <3>1, <3>2 DEF Call
  <2>3. /\ Refilling' \subseteq Refilling
        /\ \A u \in VMs : stage'[u] \notin {"asked", "callboot"}
    <3>1. CASE UNCHANGED stage
      BY <3>1 DEF Refilling, LateInv
    <3>2. CASE ~UNCHANGED stage
      <4>1. \E u, s : s \in {"held", "dead"} /\ stage' = [stage EXCEPT ![u] = s]
        BY <1>2, <3>2 DEF Call, AcquireEnter, Receive, ReceiveNil, AcquireCancelled,
             CheckClosed, ReleaseOrDiscard, Set, boots
      <4> QED
        BY <1>0, <4>1 DEF Refilling, LateInv
    <3> QED
      BY <3>1, <3>2
  <2>4. PastWait => Late' \subseteq Late
    BY <1>0, <1>2 DEF Call, AcquireEnter, Receive, ReceiveNil, AcquireCancelled,
         CheckClosed, ReleaseOrDiscard, Late
  <2>5. CASE PastWait
    BY <2>2, <2>3, <2>4, <2>5, FewerLate DEF LateInv
  <2>6. CASE ~PastWait
    BY <2>1, <2>2, <2>3, <2>6 DEF LateInv, PastWait
  <2> QED
    BY <2>5, <2>6
<1> QED
  BY <1>1, <1>2

LEMMA ClosingLate ==
  ASSUME OwnInv, LateInv, Closing
  PROVE  LateInv'
<1>0. stage \in [VMs -> Stages]
  BY DEF OwnInv, TypeOK
<1>1. UNCHANGED <<pc, calls>> /\ Late' = Late
  BY DEF Closing, CloseStore, CloseCancel, CloseWait, CloseWoken, CloseDrain, CloseReturn,
         callers, Late
<1>2. /\ Refilling' \subseteq Refilling
      /\ \A u \in VMs : stage'[u] \notin {"asked", "callboot"}
  <2>1. CASE UNCHANGED stage
    BY <2>1 DEF Refilling, LateInv
  <2>2. ASSUME NEW k \in Keys, CloseDrain(k)
        PROVE  \A u \in VMs : stage'[u] \in {stage[u], "dead"}
    BY <2>2 DEF CloseDrain
  <2>3. UNCHANGED stage \/ \E k \in Keys : CloseDrain(k)
    BY DEF Closing, CloseStore, CloseCancel, CloseWait, CloseWoken, CloseReturn, boots
  <2> QED
    BY <2>1, <2>2, <2>3 DEF Refilling, LateInv
<1>3. CASE PastWait
  BY <1>1, <1>2, <1>3, FewerLate DEF LateInv
<1>4. CASE ~PastWait /\ PastWait'
  <2>1. Refilling = {}
    BY <1>4 DEF Closing, CloseStore, CloseCancel, CloseWait, CloseWoken, CloseDrain,
         CloseReturn, PastWait
  <2> QED
    BY <1>1, <1>2, <2>1, NoneLate DEF LateInv
<1>5. CASE ~PastWait'
  BY <1>1, <1>2, <1>5 DEF LateInv
<1> QED
  BY <1>3, <1>4, <1>5

LEMMA StepLate ==
  ASSUME OwnInv, LateInv, [PrewarmedStep]_vars
  PROVE  LateInv'
<1>1. CASE CancelCallers \/ UNCHANGED vars
  BY <1>1 DEF CancelCallers, vars, boots, shutdown, LateInv, PastWait, Refilling, Late
<1> QED
  BY <1>1, RefillLate, CallLate, ClosingLate DEF PrewarmedStep
=============================================================================
