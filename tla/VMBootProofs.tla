---------------------------- MODULE VMBootProofs ----------------------------
(***************************************************************************)
(* Boot for every number of polls: what firecracker has been told is a     *)
(* prefix of the configuration and follows the step Boot is at, and the    *)
(* process and the directory follow it too.  From that the order of the    *)
(* configuration, the cleaning up after an error, and the safety part of   *)
(* BootContract.                                                           *)
(***************************************************************************)
EXTENDS VMBoot, SequenceTheorems, TLAPS

\* Boot has returned the VM when it is past its last call, and only then.
StepOK == result = "vm" <=> step = 11

\* Firecracker has been told the calls from "/machine-config" on, in order,
\* and one for each call made; a failed one may have reached it.
ToldOK ==
  /\ Len(applied) <= 6
  /\ \A i \in 1..Len(applied) : applied[i] = Steps[i + 4]
  /\ result # "error" => Len(applied) = IF step <= 5 THEN 0 ELSE step - 5

\* Start creates the process; before it there is none, after it there was one.
ProcessOK ==
  /\ result # "error" => (fc = "none" <=> step <= 3)
  /\ released => result = "vm"

BInv == TypeOK /\ StepOK /\ ToldOK /\ ProcessOK /\ CleanFailure

LEMMA StepsAre ==
  /\ Len(Steps) = 10
  /\ Steps[1] = "vmWorkDir" /\ Steps[2] = "MkdirAll" /\ Steps[3] = "Start"
  /\ Steps[4] = "waitForSocket" /\ Steps[5] = "/machine-config"
  /\ Steps[6] = "/boot-source" /\ Steps[7] = "cloneFile" /\ Steps[8] = "/drives/rootfs"
  /\ Steps[9] = "/vsock" /\ Steps[10] = "/actions"
BY DEF Steps

LEMMA OnlyOnce ==
  ASSUME NEW n \in 1..6
  PROVE  /\ Steps[n + 4] = "/drives/rootfs" => n = 4
         /\ Steps[n + 4] = "/actions" => n = 6
<1>1. n = 1 \/ n = 2 \/ n = 3 \/ n = 4 \/ n = 5 \/ n = 6
  OBVIOUS
<1>2. CASE n = 1
  BY <1>2, StepsAre
<1>3. CASE n = 2
  BY <1>3, StepsAre
<1>4. CASE n = 3
  BY <1>4, StepsAre
<1>5. CASE n = 4
  BY <1>5, StepsAre
<1>6. CASE n = 5
  BY <1>6, StepsAre
<1>7. CASE n = 6
  BY <1>7, StepsAre
<1> QED
  BY <1>1, <1>2, <1>3, <1>4, <1>5, <1>6, <1>7

\* Where Boot is when it is in one of these calls.
LEMMA WhereIs ==
  ASSUME BInv, result = "none"
  PROVE  /\ step \in 1..10
         /\ here \in {"vmWorkDir", "MkdirAll"} => step \in 1..2
         /\ here = "Start" => step = 3
         /\ here = "waitForSocket" => step = 4
         /\ here \in Puts => step \in 5..10
         /\ here = "cloneFile" => step = 7
         /\ step \in 5..10 => here \in Puts \cup {"cloneFile"}
<1>1. step \in 1..10
  BY StepsAre DEF BInv, TypeOK, StepOK
<1>2. \/ step = 1 \/ step = 2 \/ step = 3 \/ step = 4 \/ step = 5
      \/ step = 6 \/ step = 7 \/ step = 8 \/ step = 9 \/ step = 10
  BY <1>1
<1> QED
  BY <1>1, <1>2, StepsAre DEF here, Puts

\* One more call has been made at firecracker.
LEMMA ToldOneMore ==
  ASSUME BInv, result = "none", step \in 5..10, applied' = Append(applied, here)
  PROVE  /\ applied' \in Seq(Puts \cup {"cloneFile"})
         /\ Len(applied') = step - 4
         /\ \A i \in 1..Len(applied') : applied'[i] = Steps[i + 4]
<1>1. applied \in Seq(Puts \cup {"cloneFile"}) /\ Len(applied) = step - 5
  BY DEF BInv, TypeOK, ToldOK
<1>2. here \in Puts \cup {"cloneFile"}
  BY WhereIs
<1>3. /\ applied' \in Seq(Puts \cup {"cloneFile"})
      /\ Len(applied') = Len(applied) + 1
      /\ \A i \in 1..Len(applied) : applied'[i] = applied[i]
      /\ applied'[Len(applied) + 1] = here
  BY <1>1, <1>2, AppendProperties
<1>4. \A i \in 1..Len(applied) : applied[i] = Steps[i + 4]
  BY DEF BInv, ToldOK
<1>5. here = Steps[Len(applied) + 1 + 4]
  BY <1>1 DEF here
<1> QED
  BY <1>1, <1>3, <1>4, <1>5

LEMMA InitBInv == ASSUME Init PROVE BInv
<1>1. <<>> \in Seq(Puts \cup {"cloneFile"}) /\ Len(<<>>) = 0
  BY EmptySeq
<1>2. TypeOK
  <2>1. 1 \in 1 .. Len(Steps) + 1 /\ 0 \in 0 .. MaxPolls
    BY StepsAre, VMBootAssumption
  <2> QED
    BY <1>1, <2>1 DEF Init, TypeOK
<1>3. ToldOK
  BY <1>1 DEF Init, ToldOK
<1> QED
  BY <1>2, <1>3 DEF Init, BInv, StepOK, ProcessOK, CleanFailure

LEMMA StepBInv ==
  ASSUME BInv, [Next]_vars
  PROVE  BInv'
<1> USE DEF BInv
<1>1. CASE MakeDir
  <2>1. result = "none" /\ step \in 1..2
    BY <1>1, WhereIs DEF MakeDir
  <2> QED
    BY <1>1, <2>1, StepsAre DEF MakeDir, Continue, ReturnError, TypeOK, StepOK, ToldOK,
        ProcessOK, CleanFailure
<1>2. CASE StartProcess
  <2>1. result = "none" /\ step = 3
    BY <1>2, WhereIs DEF StartProcess
  <2> QED
    BY <1>2, <2>1, StepsAre DEF StartProcess, Continue, ReturnError, TypeOK, StepOK,
        ToldOK, ProcessOK, CleanFailure
<1>3. CASE waitForSocket
  <2>1. result = "none" /\ step = 4
    BY <1>3, WhereIs DEF waitForSocket
  <2>2. polls' \in 0..MaxPolls
    BY <1>3, VMBootAssumption DEF waitForSocket, TypeOK
  <2> QED
    BY <1>3, <2>1, <2>2, StepsAre DEF waitForSocket, Continue, ReturnError, Kill,
        TypeOK, StepOK, ToldOK, ProcessOK, CleanFailure
<1>4. CASE put
  <2>1. result = "none" /\ step \in 5..10
    BY <1>4, WhereIs DEF put
  <2>2. /\ applied' \in Seq(Puts \cup {"cloneFile"})
        /\ Len(applied') = step - 4
        /\ \A i \in 1..Len(applied') : applied'[i] = Steps[i + 4]
    BY <1>4, <2>1, ToldOneMore DEF put
  <2> QED
    BY <1>4, <2>1, <2>2, StepsAre DEF put, Continue, TypeOK, StepOK, ToldOK, ProcessOK,
        CleanFailure
<1>5. CASE putError
  <2>1. result = "none" /\ step \in 5..10
    BY <1>5, WhereIs DEF putError
  <2>2. /\ applied' \in Seq(Puts \cup {"cloneFile"})
        /\ Len(applied') <= 6
        /\ \A i \in 1..Len(applied') : applied'[i] = Steps[i + 4]
    <3>1. CASE applied' = applied
      BY <3>1 DEF TypeOK, ToldOK
    <3>2. CASE applied' = Append(applied, here)
      BY <2>1, <3>2, ToldOneMore
    <3> QED
      BY <1>5, <3>1, <3>2 DEF putError
  <2> QED
    BY <1>5, <2>1, <2>2, StepsAre DEF putError, ReturnError, Kill, TypeOK, StepOK,
        ToldOK, ProcessOK, CleanFailure
<1>6. CASE cloneFile
  <2>1. result = "none" /\ step = 7
    BY <1>6, WhereIs DEF cloneFile
  <2>2. CASE Continue
    <3>1. /\ applied' \in Seq(Puts \cup {"cloneFile"})
          /\ Len(applied') = step - 4
          /\ \A i \in 1..Len(applied') : applied'[i] = Steps[i + 4]
      BY <1>6, <2>1, <2>2, ToldOneMore DEF cloneFile, Continue, ReturnError
    <3> QED
      BY <1>6, <2>1, <2>2, <3>1, StepsAre DEF cloneFile, Continue, ReturnError, TypeOK,
          StepOK, ToldOK, ProcessOK, CleanFailure
  <2>3. CASE ReturnError /\ Kill /\ UNCHANGED applied
    BY <1>6, <2>1, <2>3, StepsAre DEF cloneFile, ReturnError, Kill, TypeOK, StepOK,
        ToldOK, ProcessOK, CleanFailure
  <2> QED
    BY <1>6, <2>2, <2>3 DEF cloneFile
<1>7. CASE Discard
  BY <1>7, StepsAre DEF Discard, Kill, TypeOK, StepOK, ToldOK, ProcessOK, CleanFailure
<1>8. CASE Bind \/ Die \/ Cancel
  <2>1. ToldOK' /\ StepOK'
    BY <1>8 DEF Bind, Die, Cancel, StepOK, ToldOK
  <2>2. TypeOK'
    BY <1>8 DEF Bind, Die, Cancel, TypeOK
  <2>3. ProcessOK' /\ CleanFailure'
    BY <1>8 DEF Bind, Die, Cancel, TypeOK, ProcessOK, CleanFailure
  <2> QED
    BY <2>1, <2>2, <2>3
<1>9. CASE UNCHANGED vars
  BY <1>9 DEF vars, TypeOK, StepOK, ToldOK, ProcessOK, CleanFailure
<1> QED
  BY <1>1, <1>2, <1>3, <1>4, <1>5, <1>6, <1>7, <1>8, <1>9 DEF Next, Boot

LEMMA SpecBInv == Spec => []BInv
<1>1. Init => BInv
  BY InitBInv
<1>2. BInv /\ [Next]_vars => BInv'
  BY StepBInv
<1> QED
  BY <1>1, <1>2, PTL DEF Spec

\* The variables keep their types; the number of polls is bounded because
\* waitForSocket gives up.
THEOREM TypeCorrect == Spec => []TypeOK
<1>1. BInv => TypeOK
  BY DEF BInv
<1> QED
  BY <1>1, SpecBInv, PTL

\* The instance is started only after firecracker was told of the machine, the
\* kernel, the rootfs and the vsock, and the rootfs named only after it was
\* copied, whatever fails or is cancelled; a VM is returned only when started.
THEOREM ConfiguredBeforeStart == Spec => []StartedIsConfigured
<1>1. BInv => StartedIsConfigured
  <2> SUFFICES ASSUME BInv PROVE StartedIsConfigured
    OBVIOUS
  <2>1. /\ Len(applied) \in Nat /\ Len(applied) <= 6
        /\ \A i \in 1..Len(applied) : applied[i] = Steps[i + 4]
    <3>1. Len(applied) \in Nat
      BY LenProperties DEF BInv, TypeOK
    <3>2. Len(applied) <= 6
      BY DEF BInv, ToldOK
    <3>3. \A i \in 1..Len(applied) : applied[i] = Steps[i + 4]
      BY DEF BInv, ToldOK
    <3> QED
      BY <3>1, <3>2, <3>3
  <2>2. ASSUME NEW n \in 1..Len(applied)
        PROVE  /\ ~Told(applied[n], n - 1)
               /\ applied[n] = "/drives/rootfs" => Told("cloneFile", n - 1)
               /\ applied[n] = "/actions" =>
                    \A call \in Puts \ {"/actions"} : Told(call, n - 1)
    <3>1. n \in 1..6 /\ applied[n] = Steps[n + 4]
      BY <2>1
    <3>2. \A i \in 1..(n - 1) : applied[i] = Steps[i + 4]
      BY <2>1
    <3>3. /\ Steps[n + 4] = "/drives/rootfs" => n = 4
          /\ Steps[n + 4] = "/actions" => n = 6
      BY <3>1, OnlyOnce
    <3>4. ~Told(applied[n], n - 1)
      BY <3>1, <3>2, StepsAre DEF Told
    <3>5. ASSUME applied[n] = "/drives/rootfs" PROVE Told("cloneFile", n - 1)
      <4>1. n = 4
        BY <3>1, <3>3, <3>5
      <4>2. 3 \in 1..(n - 1) /\ applied[3] = "cloneFile"
        BY <3>2, <4>1, StepsAre
      <4> QED
        BY <4>2 DEF Told
    <3>6. ASSUME applied[n] = "/actions", NEW call \in Puts \ {"/actions"}
          PROVE  Told(call, n - 1)
      <4>1. n = 6
        BY <3>1, <3>3, <3>6
      <4>2. /\ applied[1] = "/machine-config" /\ applied[2] = "/boot-source"
            /\ applied[4] = "/drives/rootfs" /\ applied[5] = "/vsock"
        BY <3>2, <4>1, StepsAre
      <4>3. {1, 2, 4, 5} \subseteq 1..(n - 1)
        BY <4>1
      <4> QED
        BY <3>6, <4>2, <4>3 DEF Told, Puts
    <3> QED
      BY <3>4, <3>5, <3>6
  <2>3. ASSUME result = "vm" PROVE Told("/actions", Len(applied))
    <3>1. Len(applied) = 6
      BY <2>3 DEF BInv, StepOK, ToldOK
    <3>2. 6 \in 1..Len(applied) /\ applied[6] = "/actions"
      BY <2>1, <3>1, StepsAre
    <3> QED
      BY <3>2 DEF Told
  <2> QED
    BY <2>2, <2>3 DEF StartedIsConfigured
<1> QED
  BY <1>1, SpecBInv, PTL

\* Boot that fails once firecracker runs kills it and removes its directory,
\* and so does the VM's owner; neither leaves a process behind.
THEOREM FailureIsClean == Spec => []CleanFailure
<1>1. BInv => CleanFailure
  BY DEF BInv
<1> QED
  BY <1>1, SpecBInv, PTL

\* Every step of Boot, of firecracker and of the owner is one the pools'
\* contract allows, or invisible to them: a VM is never returned under a
\* cancelled context, and an error leaves no process.
THEOREM KeepsContract == Spec => Contract!Init /\ [][Contract!Next]_(Contract!vars)
<1>1. Init => Contract!Init
  BY DEF Init, Contract!Init
<1>2. BInv /\ [Next]_vars => [Contract!Next]_(Contract!vars)
  <2> SUFFICES ASSUME BInv, [Next]_vars PROVE [Contract!Next]_(Contract!vars)
    OBVIOUS
  <2> USE DEF Contract!vars
  <2>1. CASE MakeDir
    <3>1. step \in 1..2 /\ fc = "none"
      BY <2>1, WhereIs DEF MakeDir, BInv, ProcessOK
    <3> QED
      BY <2>1, <3>1, StepsAre DEF MakeDir, Continue, ReturnError, Contract!Next,
          Contract!Return
  <2>2. CASE StartProcess
    <3>1. step = 3 /\ fc = "none"
      BY <2>2, WhereIs DEF StartProcess, BInv, ProcessOK
    <3> QED
      BY <2>2, <3>1, StepsAre DEF StartProcess, Continue, ReturnError, Contract!Next,
          Contract!Return, Contract!Process
  <2>3. CASE waitForSocket
    <3>1. step = 4
      BY <2>3, WhereIs DEF waitForSocket
    <3> QED
      BY <2>3, <3>1, StepsAre DEF waitForSocket, Continue, ReturnError, Kill,
          Contract!Next, Contract!Return
  <2>4. CASE put
    BY <2>4, StepsAre DEF put, Continue, Contract!Next, Contract!Return
  <2>5. CASE putError
    BY <2>5 DEF putError, ReturnError, Kill, Contract!Next, Contract!Return
  <2>6. CASE cloneFile
    <3>1. step = 7
      BY <2>6, WhereIs DEF cloneFile
    <3> QED
      BY <2>6, <3>1, StepsAre DEF cloneFile, Continue, ReturnError, Kill,
          Contract!Next, Contract!Return
  <2>7. CASE Discard
    BY <2>7 DEF Discard, Kill, Contract!Next, Contract!Process
  <2>8. CASE Bind
    BY <2>8 DEF Bind
  <2>9. CASE Die
    BY <2>9 DEF Die, Contract!Next, Contract!Process
  <2>10. CASE Cancel
    BY <2>10 DEF Cancel, Contract!Next, Contract!Cancel
  <2>11. CASE UNCHANGED vars
    BY <2>11 DEF vars
  <2> QED
    BY <2>1, <2>2, <2>3, <2>4, <2>5, <2>6, <2>7, <2>8, <2>9, <2>10, <2>11 DEF Next, Boot
<1> QED
  BY <1>1, <1>2, SpecBInv, PTL DEF Spec
=============================================================================
