---------------------------- MODULE JobLifecycle ----------------------------
(***************************************************************************)
(* What dredd promises the client of POST /exec and GET /status, whatever  *)
(* workers, Redis and processes do: a refused submission never becomes a   *)
(* job; an accepted one is seen queued, then running, then with one final  *)
(* answer that no later step changes, and may then be forgotten for good;  *)
(* after a 500 either is possible.  JobQueue implements it.                *)
(***************************************************************************)
CONSTANT Jobs   \* the ids /exec draws

VARIABLES
  reply,  \* the code /exec answered for each id, 0 before that
  view    \* what GET /status/{id} answers

vars == <<reply, view>>

Absent == [code |-> 404, status |-> "absent", outcome |-> "none"]
Queued == [code |-> 200, status |-> "queued", outcome |-> "none"]
Running == [code |-> 200, status |-> "running", outcome |-> "none"]

\* An answer says done when the code ran or did not compile, and failed when
\* dredd could not run it.
Answers ==
  [code: {200}, status: {"done"}, outcome: {"results", "compile_error"}]
    \cup [code: {200}, status: {"failed"},
          outcome: {"agent_error", "vm_error", "unknown_language"}]

See(j, v) == view' = [view EXCEPT ![j] = v]

Say(j, n) == reply' = [reply EXCEPT ![j] = n]

Reject(j) ==
  /\ reply[j] = 0
  /\ \E n \in {400, 413, 500} : Say(j, n)
  /\ UNCHANGED view

Accept(j) ==
  /\ reply[j] = 0
  /\ view[j] = Absent
  /\ \E n \in {202, 500} : Say(j, n)
  /\ See(j, Queued)

Begin(j) ==
  /\ view[j] = Queued
  /\ See(j, Running)
  /\ UNCHANGED reply

End(j) ==
  /\ view[j] = Running
  /\ \E a \in Answers : See(j, a)
  /\ UNCHANGED reply

Forget(j) ==
  /\ view[j].status \in {"done", "failed"}
  /\ See(j, Absent)
  /\ UNCHANGED reply

Init ==
  /\ reply = [j \in Jobs |-> 0]
  /\ view = [j \in Jobs |-> Absent]

Next ==
  \E j \in Jobs : Reject(j) \/ Accept(j) \/ Begin(j) \/ End(j) \/ Forget(j)

Spec == Init /\ [][Next]_vars
=============================================================================
