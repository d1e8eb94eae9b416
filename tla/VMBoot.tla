------------------------------- MODULE VMBoot -------------------------------
(***************************************************************************)
(* One boot of one MicroVM (pool.vmWorkDir, Driver.Boot and VM.Kill):      *)
(* create a scratch directory, start firecracker, wait for its API socket, *)
(* configure the machine with PUT requests, start the instance.  Any step  *)
(* can fail, the context can be cancelled between and during steps, and    *)
(* the firecracker process can die.                                        *)
(***************************************************************************)
EXTENDS Integers, Sequences

CONSTANT MaxPolls   \* how often waitForSocket looks before its 5s are over

ASSUME VMBootAssumption == MaxPolls \in Nat

VARIABLES
  step,       \* the call Boot is in
  result,     \* "none" while Boot runs, then "vm" or "error"
  cancelled,  \* the context is cancelled
  dir,        \* the scratch directory: "none", "made" or "removed"
  fc,         \* the firecracker process: "none", "up" or "dead"
  socket,     \* the API socket exists
  polls,      \* how often waitForSocket has looked
  applied,    \* what firecracker has been told, in order
  released    \* the caller has killed the VM it was given

vars == <<step, result, cancelled, dir, fc, socket, polls, applied, released>>

-----------------------------------------------------------------------------
\* Mutant: the drive is named before its file is copied.
StepsDriveFirst ==
  <<"vmWorkDir", "MkdirAll", "Start", "waitForSocket", "/machine-config",
    "/boot-source", "/drives/rootfs", "cloneFile", "/vsock", "/actions">>

\* The calls of vmWorkDir and Boot, in their order.
Steps == <<"vmWorkDir", "MkdirAll", "Start", "waitForSocket", "/machine-config",
           "/boot-source", "cloneFile", "/drives/rootfs", "/vsock", "/actions">>

Puts == {"/machine-config", "/boot-source", "/drives/rootfs", "/vsock", "/actions"}

here == Steps[step]

\* Boot goes on with the next call, or returns the VM after the last.
Continue ==
  /\ step' = step + 1
  /\ result' = IF step = Len(Steps) THEN "vm" ELSE "none"

\* VM.Kill: the process is killed and awaited, the directory removed.
Kill ==
  /\ fc' = IF fc = "up" THEN "dead" ELSE fc
  /\ dir' = "removed"

ReturnError ==
  /\ result' = "error"
  /\ UNCHANGED step

-----------------------------------------------------------------------------
\* Creating the directory and starting the process; an error returns before
\* there is a VM to kill.

MakeDir ==
  /\ result = "none"
  /\ here \in {"vmWorkDir", "MkdirAll"}
  /\ \/ Continue /\ dir' = "made"
     \/ ReturnError /\ UNCHANGED dir
  /\ UNCHANGED <<cancelled, fc, socket, polls, applied, released>>

StartProcess ==
  /\ result = "none"
  /\ here = "Start"
  /\ \/ Continue /\ fc' = "up"
     \/ ReturnError /\ UNCHANGED fc
  /\ UNCHANGED <<cancelled, dir, socket, polls, applied, released>>

\* Mutant: the wait for the socket has no timeout.
waitForSocketForever ==
  /\ result = "none"
  /\ here = "waitForSocket"
  /\ \/ /\ socket
        /\ Continue
        /\ UNCHANGED <<polls, fc, dir>>
     \/ /\ ~socket /\ ~cancelled
        /\ polls' = polls + 1
        /\ UNCHANGED <<step, result, fc, dir>>
     \/ /\ ~socket /\ cancelled
        /\ ReturnError
        /\ Kill
        /\ UNCHANGED polls
  /\ UNCHANGED <<cancelled, socket, applied, released>>

\* waitForSocket looks for the file first, so it may succeed under a
\* cancelled context; it gives up after its timeout or on cancellation.
waitForSocket ==
  /\ result = "none"
  /\ here = "waitForSocket"
  /\ \/ /\ socket
        /\ Continue
        /\ UNCHANGED <<polls, fc, dir>>
     \/ /\ ~socket /\ ~cancelled /\ polls < MaxPolls
        /\ polls' = polls + 1
        /\ UNCHANGED <<step, result, fc, dir>>
     \/ /\ ~socket /\ (cancelled \/ polls >= MaxPolls)
        /\ ReturnError
        /\ Kill
        /\ UNCHANGED polls
  /\ UNCHANGED <<cancelled, socket, applied, released>>

\* Mutant: the request does not carry the context.
putNoContext ==
  /\ result = "none"
  /\ here \in Puts
  /\ fc = "up"
  /\ Continue
  /\ applied' = Append(applied, here)
  /\ UNCHANGED <<cancelled, dir, fc, socket, polls, released>>

\* put: firecracker accepts the request and the answer arrives.
put ==
  /\ result = "none"
  /\ here \in Puts
  /\ ~cancelled
  /\ fc = "up"
  /\ Continue
  /\ applied' = Append(applied, here)
  /\ UNCHANGED <<cancelled, dir, fc, socket, polls, released>>

\* Mutant: a failed request leaves the VM to itself.
putErrorNoKill ==
  /\ result = "none"
  /\ here \in Puts
  /\ applied' \in {applied} \cup (IF fc = "up" THEN {Append(applied, here)} ELSE {})
  /\ ReturnError
  /\ UNCHANGED <<cancelled, dir, fc, socket, polls, released>>

\* put fails: refused, timed out, cancelled, or firecracker is dead.  What a
\* lost answer was for may have been applied.
putError ==
  /\ result = "none"
  /\ here \in Puts
  /\ applied' \in {applied} \cup (IF fc = "up" THEN {Append(applied, here)} ELSE {})
  /\ ReturnError
  /\ Kill
  /\ UNCHANGED <<cancelled, socket, polls, released>>

\* The VM's own copy of the rootfs; the context is not consulted.
cloneFile ==
  /\ result = "none"
  /\ here = "cloneFile"
  /\ \/ /\ Continue
        /\ applied' = Append(applied, here)
        /\ UNCHANGED <<fc, dir>>
     \/ /\ ReturnError
        /\ Kill
        /\ UNCHANGED applied
  /\ UNCHANGED <<cancelled, socket, polls, released>>

\* Release or Discard of the VM.
Discard ==
  /\ result = "vm"
  /\ ~released
  /\ released' = TRUE
  /\ Kill
  /\ UNCHANGED <<step, result, cancelled, socket, polls, applied>>

-----------------------------------------------------------------------------
\* The environment.

Bind ==
  /\ fc = "up"
  /\ ~socket
  /\ socket' = TRUE
  /\ UNCHANGED <<step, result, cancelled, dir, fc, polls, applied, released>>

Die ==
  /\ fc = "up"
  /\ fc' = "dead"
  /\ UNCHANGED <<step, result, cancelled, dir, socket, polls, applied, released>>

Cancel ==
  /\ ~cancelled
  /\ cancelled' = TRUE
  /\ UNCHANGED <<step, result, dir, fc, socket, polls, applied, released>>

Init ==
  /\ step = 1
  /\ result = "none"
  /\ cancelled = FALSE
  /\ dir = "none"
  /\ fc = "none"
  /\ socket = FALSE
  /\ polls = 0
  /\ applied = <<>>
  /\ released = FALSE

Boot == MakeDir \/ StartProcess \/ waitForSocket \/ put \/ putError \/ cloneFile

Next == Boot \/ Discard \/ Bind \/ Die \/ Cancel

Spec == Init /\ [][Next]_vars

\* Every call Boot makes returns: the socket wait and the API client have
\* timeouts of five seconds, the others are system calls.
FairSpec == Spec /\ WF_vars(Boot)

-----------------------------------------------------------------------------
\* Type invariant.
TypeOK ==
  /\ step \in 1 .. Len(Steps) + 1
  /\ result \in {"none", "vm", "error"}
  /\ cancelled \in BOOLEAN /\ socket \in BOOLEAN /\ released \in BOOLEAN
  /\ dir \in {"none", "made", "removed"}
  /\ fc \in {"none", "up", "dead"}
  /\ polls \in 0..MaxPolls
  /\ applied \in Seq(Puts \cup {"cloneFile"})

\* What firecracker needs: before InstanceStart it was told of the machine,
\* the kernel, the rootfs and the vsock, each once; a drive is named only when
\* its file, this VM's copy of the rootfs, is there; and Boot returns a VM only
\* when the instance was started.
Told(call, before) == \E i \in 1 .. before : applied[i] = call

StartedIsConfigured ==
  /\ \A n \in 1 .. Len(applied) :
       /\ ~Told(applied[n], n - 1)
       /\ applied[n] = "/drives/rootfs" => Told("cloneFile", n - 1)
       /\ applied[n] = "/actions" => \A call \in Puts \ {"/actions"} : Told(call, n - 1)
  /\ result = "vm" => Told("/actions", Len(applied))

\* An error after the process was started leaves neither process nor
\* directory; only an error before that leaves the scratch directory.
CleanFailure ==
  /\ result = "error" => fc # "up" /\ (dir = "made" => fc = "none")
  /\ released => fc = "dead" /\ dir = "removed"

\* Boot keeps the contract the pools are written against: it returns, never
\* with a VM once its context is cancelled, and an error means the process
\* is gone.
Contract == INSTANCE BootContract WITH process <- (fc = "up")

BootContractHolds == Contract!Spec
=============================================================================
