-------------------------------- MODULE App --------------------------------
(***************************************************************************)
(* One dredd process as dredd.go and cmd/dredd put it together: the        *)
(* workers of JobQueue call Execute, which takes its VMs from the pool of  *)
(* PrewarmedPerLang or goes to the Executor of TestExecutors; main starts  *)
(* all of it, and on a signal shuts it down.                               *)
(*                                                                         *)
(* JobQueue and the pool keep their own actions.  This module says which   *)
(* of them are one step (the return of Acquire with an error is the return *)
(* of Execute), which context is whose (the one the signal cancels is the  *)
(* one the workers hand to Acquire; the pool's own is cancelled by Close), *)
(* and when a component may run at all.                                    *)
(***************************************************************************)
EXTENDS Integers, Sequences, FiniteSets, Config

CONSTANTS
  Self,       \* the process
  Env,        \* its environment
  Workers, Jobs,
  Watched,    \* the jobs AcceptedJobsFinish is about: one stands for all
  Langs, NoJob, NoLang, NoVM, NoCaller,
  Responses,  \* the kinds of response an Execute may return
  Failures,   \* failures of a FlakyExecutor
  MaxFailures, MaxMishaps, MaxSignals, MaxCrashes

ASSUME AppAssumption ==
  /\ Env \in Environments
  /\ Accepted(Env)
  /\ IsFiniteSet(Workers)
  /\ Cardinality(Workers) = FromEnv(Env).WorkerConcurrency
  /\ IsFiniteSet(Jobs)
  /\ Watched \subseteq Jobs
  /\ Responses \subseteq {"results", "compile_error", "agent_error"}
  /\ Failures \in Nat
  /\ MaxFailures \in Nat
  /\ MaxMishaps \in Nat
  /\ MaxSignals \in Nat
  /\ MaxCrashes \in Nat
  /\ NoJob \notin Jobs
  /\ NoLang \notin Langs
  /\ NoVM \notin Langs \X Nat
  /\ NoCaller \notin Workers

cfg == FromEnv(Env)

VARIABLES
  queue, hash, reply, wpc, job, lang, attempt, outcome, proc, execs, faults,
  stops,                                                    \* of JobQueue
  stage, spawned, chan, chanClosed, closed, cancelled, closer, ctxDone, apc,
  want, got, calls, failures, panic,                        \* of the pool
  at, image, failuresLeft, ensureMu, pulled, present, pulls, mishaps,
                                                            \* of TestExecutors
  executor,   \* Options.Executor: "pool" when it is nil, else "own"
  main,       \* where main is in New, Run and Shutdown
  ranOn,      \* history: how many attempts at jobs each VM has run
  lost        \* history: how many Execute calls for each job gave an error

jobVars == <<queue, hash, reply, wpc, job, lang, attempt, outcome, proc, execs,
             faults, stops>>
poolVars == <<stage, spawned, chan, chanClosed, closed, cancelled, closer,
              ctxDone, apc, want, got, calls, failures, panic>>
ownVars == <<at, image, failuresLeft, ensureMu, pulled, present, pulls, mishaps>>
history == <<ranOn, lost>>
appVars == <<executor, main, ranOn, lost>>
vars == <<jobVars, poolVars, ownVars, appVars>>

J == INSTANCE JobQueue WITH
       pc <- wpc, Procs <- {Self}, ProcOf <- [w \in Workers |-> Self],
       Registry <- [p \in {Self} |-> Langs], ResultTTL <- cfg.ResultTTL,
       MaxFaults <- 0

P == INSTANCE PrewarmedPerLang WITH
       pc <- apc, Keys <- Langs, Callers <- Workers, Size <- cfg.PoolSize,
       BootConcurrency <- cfg.BootConcurrency,
       MaxCalls <- 2 * Cardinality(Jobs)

T == INSTANCE TestExecutors WITH
       Callers <- Workers, Images <- Langs, NoImage <- NoLang

\* The process exists.
Running == panic = "none" /\ main \notin {"exited", "refused", "fatal"}

-----------------------------------------------------------------------------
\* New, Run, Shutdown and main.

\* New binds its address and Run starts the workers and the HTTP server.
Listen ==
  /\ Running
  /\ main = "new"
  /\ main' = "serving"
  /\ UNCHANGED <<jobVars, poolVars, ownVars, executor, history>>

\* Mutant: New returns the error and leaves the pool to itself.
ListenFailsOpen ==
  /\ Running
  /\ main = "new"
  /\ main' = "refused"
  /\ UNCHANGED <<jobVars, poolVars, ownVars, executor, history>>

\* The address is taken: New closes the pool it has just started.
ListenFails ==
  /\ Running
  /\ main = "new"
  /\ IF executor = "pool"
       THEN main' = "unwinding" /\ P!CloseStore
       ELSE main' = "refused" /\ UNCHANGED poolVars
  /\ UNCHANGED <<jobVars, ownVars, executor, history>>

\* ... and returns its error, on which main exits.
NewFails ==
  /\ Running
  /\ main = "unwinding"
  /\ closer = "done"
  /\ main' = "refused"
  /\ UNCHANGED <<jobVars, poolVars, ownVars, executor, history>>

\* The HTTP server ends by itself: Run returns its error and log.Fatalf ends
\* the process on the spot.
ServeFails ==
  /\ Running
  /\ main = "serving"
  /\ J!Crash(Self) \/ J!Exit(Self)
  /\ main' = "fatal"
  /\ UNCHANGED <<poolVars, ownVars, executor, history>>

\* A signal cancels the context of Run, which is that of every Acquire.
Signal ==
  /\ Running
  /\ main = "serving"
  /\ J!Signal(Self)
  /\ P!CancelCallers
  /\ UNCHANGED <<ownVars, appVars>>

\* main has seen the signal and calls Shutdown, which drains the HTTP server,
\* until the handlers have answered or ten seconds are over, and then closes
\* the pool, if there is one.
Shutdown ==
  /\ Running
  /\ main = "serving"
  /\ proc[Self] = "stopping"
  /\ IF executor = "pool"
       THEN main' = "closing" /\ P!CloseStore
       ELSE main' = "closed" /\ UNCHANGED poolVars
  /\ UNCHANGED <<jobVars, ownVars, executor, history>>

\* Shutdown returns and so does main, whatever the workers are doing.
Exit ==
  /\ Running
  /\ \/ main = "closing" /\ closer = "done"
     \/ main = "closed"
  /\ main' = "exited"
  /\ J!Exit(Self)
  /\ UNCHANGED <<poolVars, ownVars, executor, history>>

mainStep == ListenFails \/ NewFails \/ Shutdown \/ Exit

-----------------------------------------------------------------------------
\* The pool's own goroutines.

Refill ==
  /\ Running
  /\ executor = "pool"
  /\ \E v \in P!VMs : P!refill(v)
  /\ UNCHANGED <<jobVars, ownVars, appVars>>

Close ==
  /\ Running
  /\ main \in {"unwinding", "closing"}
  /\ P!Close
  /\ UNCHANGED <<jobVars, ownVars, appVars>>

-----------------------------------------------------------------------------
\* The workers run from Run on, and until the process ends.
WorkersRun == Running /\ main \in {"serving", "closing", "closed"}

\* Everything of loop and process but Execute.
Loop(w) ==
  /\ WorkersRun
  /\ \/ J!loop(w)
     \/ J!Load(w) \/ J!LoadError(w)
     \/ J!SetRunning(w) \/ J!SetRunningError(w)
     \/ J!Finish(w) \/ J!FinishError(w)
  /\ UNCHANGED <<poolVars, ownVars, appVars>>

\* Execute gives w an error for its job.
Errs(w) == J!ExecuteError(w) /\ lost' = [lost EXCEPT ![job[w]] = @ + 1]

\* Execute calls Acquire: an error if the pool is closed.
Acquire(w) ==
  /\ WorkersRun
  /\ executor = "pool"
  /\ wpc[w] = "exec"
  /\ P!AcquireEnter(w, lang[w])
  /\ IF closed THEN Errs(w) ELSE UNCHANGED <<jobVars, lost>>
  /\ UNCHANGED <<ownVars, executor, main, ranOn>>

\* Acquire goes on: it waits for a VM, and replaces it.
AcquireGoesOn(w) ==
  /\ WorkersRun
  /\ \/ P!Receive(w) \/ P!ReceiveNil(w) \/ P!CheckClosed(w) \/ P!Respawn(w)
  /\ UNCHANGED <<jobVars, ownVars, appVars>>

AcquireError(w) ==
  /\ WorkersRun
  /\ P!AcquireCancelled(w)
  /\ Errs(w)
  /\ UNCHANGED <<ownVars, executor, main, ranOn>>

\* The exchange with the guest ends, well or not, and with it the VM.
Exchange(w) ==
  /\ WorkersRun
  /\ P!ReleaseOrDiscard(w)
  /\ IF got[w] = NoVM
       THEN UNCHANGED <<jobVars, history>>
       ELSE /\ \/ UNCHANGED lost /\ \E o \in Responses : J!ExecuteReturns(w, o)
               \/ Errs(w)
            /\ ranOn' = [ranOn EXCEPT ![got[w]] = @ + 1]
  /\ UNCHANGED <<ownVars, executor, main>>

\* Mutant: the error is kept where concurrent calls overwrite it.
OwnExecuteShared(w) ==
  /\ WorkersRun
  /\ executor = "own"
  /\ wpc[w] = "exec"
  /\ \/ /\ T!FlakyPasses(w, lang[w]) \/ T!ensureImage(w, ctxDone)
        /\ UNCHANGED <<jobVars, lost>>
     \/ \E v \in Workers :
          /\ wpc[v] = "exec"
          /\ T!FlakyFails(v) \/ T!PullFails(v, ctxDone) \/ T!RunFails(v)
          /\ lost' = [lost EXCEPT ![job[v]] = @ + 1]
          /\ J!ExecuteError(w)
     \/ /\ T!Run(w)
        /\ \E o \in Responses : J!ExecuteReturns(w, o)
        /\ UNCHANGED lost
  /\ UNCHANGED <<poolVars, executor, main, ranOn>>

\* Execute of an Executor that New was given.
OwnExecute(w) ==
  /\ WorkersRun
  /\ executor = "own"
  /\ wpc[w] = "exec"
  /\ \/ /\ T!FlakyPasses(w, lang[w]) \/ T!ensureImage(w, ctxDone)
        /\ UNCHANGED <<jobVars, lost>>
     \/ /\ \/ T!FlakyFails(w) \/ T!PullFails(w, ctxDone) \/ T!RunFails(w)
        /\ Errs(w)
     \/ /\ T!Run(w)
        /\ \E o \in Responses : J!ExecuteReturns(w, o)
        /\ UNCHANGED lost
  /\ UNCHANGED <<poolVars, executor, main, ranOn>>

worker(w) ==
  Loop(w) \/ Acquire(w) \/ AcquireGoesOn(w) \/ AcquireError(w) \/ Exchange(w)
    \/ OwnExecute(w)

-----------------------------------------------------------------------------
\* Clients: new requests until the listener is closed, and those being
\* handled until the process ends.
Request(j, l) ==
  /\ WorkersRun
  /\ J!ExecAccept(Self, j, [body |-> "ok", complete |-> TRUE, lang |-> l])
  /\ UNCHANGED <<poolVars, ownVars, appVars>>

Init ==
  /\ J!Init
  /\ P!Init
  /\ T!Init
  /\ executor \in {"pool", "own"}
  /\ executor = "pool" => present = {}   \* no docker host is involved
  /\ main = "new"
  /\ ranOn = [v \in P!VMs |-> 0]
  /\ lost = [j \in Jobs |-> 0]

Next ==
  \/ Listen \/ mainStep \/ ServeFails \/ Signal \/ Close \/ Refill
  \/ \E w \in Workers : worker(w)
  \/ \E j \in Jobs, l \in Langs : Request(j, l)

Spec == Init /\ [][Next]_vars

\* Goroutines that can run do.  main, the Close it calls and the refills take a
\* few steps each and then end, so that one of them runs is enough.  Nothing
\* forces clients, signals or failures.
Fairness ==
  /\ WF_vars(mainStep \/ Close \/ Refill)
  /\ \A w \in Workers : WF_vars(worker(w))

FairSpec == Spec /\ Fairness

-----------------------------------------------------------------------------
\* Type invariant: that of each component, and the process as both see it.
TypeOK ==
  /\ J!TypeOK /\ P!TypeOK /\ T!TypeOK
  /\ executor \in {"pool", "own"}
  /\ main \in {"new", "serving", "unwinding", "refused", "closing", "closed",
               "exited", "fatal"}
  /\ ranOn \in [P!VMs -> Nat]
  /\ lost \in [Jobs -> Nat]
  /\ ctxDone => proc[Self] # "up"

\* The isolation the whole system is there for, and the fresh VM of the retry
\* rule (worker.go:5-9): no two jobs, and no two attempts at one job, ever run
\* on the same VM.
OwnVM ==
  \A v \in P!VMs : ranOn[v] <= 1

\* What the end of the process leaves running.  After Shutdown: what a worker
\* holds, and the boot of a worker that had looked at closed before Close and
\* started its refill after it, which nobody waits for; never a pooled VM.
\* When New could not listen: nothing at all, though refills were booting.
ExitLeavesOnlyRaced ==
  executor = "pool" =>
    /\ main \in {"exited", "refused"} =>
         /\ \A v \in P!VMs : stage[v] \notin {"idle", "ready"}
         /\ Cardinality(P!Refilling) <= Cardinality(Workers)
    /\ main = "refused" =>
         \A v \in P!VMs : stage[v] \in {"unused", "dead", "failed"}

\* A job is failed for the VM's sake exactly if two Execute calls for this very
\* job gave an error, whatever calls of other workers fail at the same time,
\* are cancelled or find the pool closed.  And no failure of an Executor is
\* seen by two of them: until a signal, all jobs failed this way together have
\* had at least two failures of the Executor each.
FailedTwice ==
  /\ \A j \in Jobs : J!Terminal(hash[j].status) =>
       (hash[j].outcome = "vm_error" <=> lost[j] = 2)
  /\ executor = "own" /\ proc[Self] = "up" =>
       2 * Cardinality({j \in Jobs : hash[j].outcome = "vm_error"})
         <= (Failures - (IF failuresLeft > 0 THEN failuresLeft ELSE 0)) + mishaps

\* PulledOnce of TestExecutors, for the workers of this process.
PulledOnce == T!PulledOnce

\* Every accepted job reaches a final status, with a pool or another Executor
\* behind the workers, unless the process is stopped or failed boots have
\* taken every VM of a language.
AcceptedJobsFinish ==
  \A j \in Watched :
    (hash[j].status \in {"queued", "running"}) ~>
      \/ J!Terminal(hash[j].status)
      \/ proc[Self] # "up"
      \/ \E l \in Langs : Cardinality(P!Failed(l)) >= cfg.PoolSize

\* After a signal the process ends: Shutdown does not wait for a worker, and
\* Close waits only for refills, which see the cancelled context.
StopsAfterSignal == (proc[Self] = "stopping") ~> ~Running
=============================================================================
