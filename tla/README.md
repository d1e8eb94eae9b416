# TLA+ models of dredd

dredd accepts programs over HTTP, queues them in Redis and runs each one in a
Firecracker MicroVM of its own. This directory holds TLA+ models of the parts
that carry its logic, TLC configurations that check them on small instances,
and TLAPS proofs of the properties that matter most for instances of any size.
`PROJECT.json` maps every definition to the source lines it models.

## The system

| component | state | operations | talks to |
|---|---|---|---|
| HTTP API (`api/`) | none of its own | `POST /exec`, `GET /status/{id}`, `GET /languages`, `GET /healthz` | queue, registry |
| Job queue (`queue/`, `jobs/`) | Redis list `dredd:queue`, one hash per job | `Enqueue`, `Dequeue`, `Load`, `SetRunning`, `Finish` | Redis |
| Worker (`worker/`) | goroutines in `loop` / `process` | pop, load, mark running, execute at most twice, finish | queue, registry, Executor |
| VM pools (`pool/`) | channels of booted VMs, a boot semaphore, a WaitGroup, `closed`, a context | `Acquire`, `Release`, `Discard`, `Close`, refill goroutines | driver |
| Executor (`pool/executor.go`, `firecracker/vsock.go`) | one connection with a deadline | `Execute`: acquire, dial, exchange, release or discard | pool, guest agent |
| Guest agent (`guest/dreddagent/`) | the phase of its one request | accept, compile, run each stdin, answer, power off | Executor over vsock |
| Driver (`firecracker/driver.go`) | process, scratch directory, API socket per VM | `Boot`, `Kill` | firecracker |
| App and command (`dredd.go`, `cmd/dredd`) | context, HTTP server | `New`, `Run`, `Shutdown`, signals | everything |
| Registry, dredd-build (`langs/`, `cmd/dredd-build`) | languages file, rootfs images | `Load`, `Get`, `add` | files, docker |
| Configuration (`config/`) | read once | `FromEnv` | environment |
| Test executors (`dreddtest/`) | a counter of failures, a mutex, the images known to be present | `Execute` | docker |

Components meet in five places: the Redis list and hashes that API and workers
of several processes share; the Executor interface between worker and pool; the
pool's channels, atomic flag, context and WaitGroup that callers, refills and
`Close` share; the vsock connection between host and guest; and the languages
file and rootfs images that `dredd-build` writes and servers read.

What is hard here: several processes share the list without leases or locks;
every Redis command can fail with or without effect, and the worker drops the
job or the error; a signal cancels the context of work in progress, and the
process ends without waiting for the workers; a pool's `Close` races with
`Acquire` and with refills; boots fail or are cancelled half way; the guest may
die, hang or answer late; builds rewrite images and the languages file in place,
next to each other and to running servers. `PROJECT.json` lists each hazard at
its line.

What makes each component correct:

* queue and worker: one owner per job, at most two executions, a status that
  only moves forward, a TTL on exactly the finished jobs, bounded damage of a
  failure, and progress without one;
* pools: one owner per VM, single use, a bounded number of VMs, no lost
  capacity except through failed boots, a `Close` that neither panics nor
  leaves a VM nor blocks, and an `Acquire` that returns;
* exchange: an answer that tells what happened, a deadline that spares healthy
  guests, and an end in every case;
* driver: a VM only when it is fully configured, an error only without a
  process, and an end in every case;
* the whole process: no two attempts on one VM, progress of every accepted job,
  and an end after a signal that leaves no pooled VM running;
* catalogue: what a server offers boots, what a build reported stays listed, a
  list that is whole loads, and a build leaves behind only what its own clean-up
  failed to remove.

## The modules

**`JobQueue`** (`api/exec.go`, `api/status.go`, `queue/redis.go`,
`worker/worker.go`, stops and starts of `dredd.go` and `cmd/dredd`). One action
is one Redis round trip, one return of `Execute`, or one signal: the points
between which goroutines interleave. `queue` and `hash` are Redis; `pc`, `job`,
`lang`, `attempt` and `outcome` are the locals of each goroutine; `proc` is the
state of each process. `Enqueue` and `Finish` are transactions, so their writes
are one step. A hash keeps the fields control depends on: its status, whether it
has a language (the other fields of the submission come and go with it), the
outcome, and whether it has a TTL. Every command has a failing twin
(`LoadError`, `FinishError`, ...): the fault may strike before or after the
command took effect, and under a cancelled context the command is not sent. A
BRPOP in flight is not interrupted by the cancellation, as the comment on
`popTimeout` says. `DequeueResend` is the client library sending BRPOP again
after a broken connection, with an id already popped; transactions are not sent
again once they were read. `ExecAccept` stores the job and answers the client in
one step: a process that is lost between the two is not modelled (`ExecError`
has the job that is stored and answered with 500). `Exit` models that `main` returns after `Shutdown` whatever
the workers are doing. The Executor is its contract: a response or an error.

**`JobLifecycle`** is the abstract specification of what a client can see of a
job: the code `/exec` answered and the view `/status` gives. `JobQueue`
implements it with `view` computed by `status(j)`, which is `Server.status`
applied to the hash (`KeepsLifecycle`, checked and proved).

**`VMPool`** has the steps the three strategies share, at the granularity of
their shared accesses: each atomic load and store, channel operation,
`wg.Add` and `Wait`, and return of `Driver.Boot` is one action. The deferred
`wg.Done` of a refill is one step with the send, the failed boot or the kill
that ends it: nothing lies between them that another goroutine could see but
the VM in the channel. A VM and the
goroutine that boots it have one identity, `<<channel, n>>`, and `stage` says
where it is from the queue at the semaphore to its death. A panic in any
goroutine ends the process (`panic`). **`PrewarmedPerLang`**,
**`PrewarmedGeneric`** and **`OnDemandSpare`** put the steps together as each
file does; `OnDemandSpare` adds the boot in the caller's goroutine. **`Pool`** is
`pool.New`: it picks one of the three, and `Acquire`, `Close` and the refills
are that strategy's.

**`Config`** is `FromEnv` as a function of the environment: defaults, floors and
refusals. The result TTL keeps its number of seconds; that the product with
`time.Second` overflows for more than 292 years is left out.

**`TestExecutors`** is a `FlakyExecutor` around a `DockerExecutor`: one atomic
counter, and a mutex around the check for an image and its pull. Every language
has an image, as in the tests' catalogue.

**`App`** composes one process: the workers of `JobQueue`, whose `Execute` is
`Acquire`, exchange and `Release` of `PrewarmedPerLang`, or the Executor of
`TestExecutors`, under `New`, `Run`, `Shutdown` and `main`. `App` has no pool
steps of its own; it says which steps of two components are one (an `Acquire`
that fails is a failed attempt), which context the signal cancels (that of the
workers, not that of the refills, which only `Close` cancels), and when each
part may run. The configuration is `FromEnv` of an environment. The history variables
`ranOn` and `lost` count what each VM has run and how many `Execute` calls for
each job gave an error.

**`LanguageCatalogue`** is `dredd-build add` and `langs.Load`. One action is one
external command or one access to the languages file. An image is who formatted
it and what it holds; writing to a mounted image that another build has
overwritten makes it `corrupt`. `res` is what the deferred calls of
`buildRootfs` have to undo; they run in reverse order, their errors are
dropped, and none of them runs when the build is killed. `faults` has the
operations that failed, each with its build, so that a property can tell which
command's failure explains what is left. `os.WriteFile` is two steps, the open
that truncates and the write from the start of the file (`Written`). If another
build has written in between, the tail of its text stays when that is the longer
one, and the file is `garbled`; lengths are not modelled, so either outcome is
possible. A write that fails or is killed leaves what was there, a part, or the
whole of it (`Torn`). The history variables `lossy` and `clashed` have the builds
that truncated a list they had not read, and those that wrote over another's
text.

**`ExecExchange`** is one `Execute` on one VM, with both sides of the
connection and discrete time. A `time.Duration` has a width (`Duration` wraps
around at `MaxDuration`), so a large `time_limit_ms` can turn the budget or a
limit negative. User commands take any time up to their limit; in
an `unruly` guest they, and the agent, take any time at all, since the agent
kills only the shell and waits for the pipe; with `MayDie` the guest vanishes at
any point, with or without what was in flight. A frame arrives whole or not at
all: one that is cut is a read error, like a closed connection. Output sizes are two values, nothing
and the limit, which is all the frame check tells apart.

**`VMBoot`** is one call of `Driver.Boot` with the directory the pool made for
it, the failure of each call, cancellation, and the death of firecracker at any
moment, followed by `Kill`. `StartedIsConfigured` does not refer to the order of
the calls in `Boot` but to what firecracker needs: the rest before the start,
and the copy of the rootfs before the drive that names it. **`BootContract`** is what the pools assume of it
(`BootOK` and `BootFail` in `VMPool`); `VMBoot` is checked to implement it with
`process <- (fc = "up")`.

`MCJobQueue`, `MCPrewarmedPerLang`, `MCApp` and `MCLanguageCatalogue` give the
modules their instances; the others need only a configuration. A definition that starts with the comment
"Mutant" is a plausible slip in the code; putting it in place of the definition
it varies makes the property named in `PROJECT.json` fail. No specification
uses them.

## The runs

Runs that pass:

| run | instance | shows |
|---|---|---|
| `jobs_faults` | 2 processes with one worker each and different registries, 2 jobs, 2 Redis faults, 1 signal, 1 kill | `SingleOwner`, `TTLIffTerminal`, `HashesAreWhole`, `SingleRetry`, `StrandedBound`, `KeepsLifecycle` |
| `app` | 2 workers, 2 jobs, pool size 1, 1 failing boot, or an Executor with 2 simulated failures and 1 failing pull or run; a failing listener, a failing HTTP server, 1 signal | `OwnVM`, `ExitLeavesOnlyRaced`, `FailedTwice`, `PulledOnce`, `AcceptedJobsFinish`, `StopsAfterSignal` |
| `perlang_safety` | 2 languages, pool size 1, 2 callers, 3 Acquires, 1 failing boot, Close | `OneOwner`, `PoolConserved`, `OnlyFailuresShrink`, `NoSendOnClosed`, `NothingLeftIdle`, `SingleUse` |
| `pools` | each strategy: pool size 2 (spare: 1), 2 callers, 3 Acquires, 1 failing boot, 1 semaphore slot, Close | `OneOwner`, `PoolConserved`, `CloseIsClean`, `AcquireReturns`, `CloseReturns` |
| `exchange` | 1 or 2 stdins, a small and an overflowing time limit, with and without compiler; the guest may die, hang or outlive its limits | `AnswerIsHonest`, `BudgetIsEnough`, `ExecuteReturns` |
| `boot` | 3 polls for the socket | `StartedIsConfigured`, `CleanFailure`, `BootContractHolds` |
| `catalogue` | 3 builds, two of them of a language already listed, 1 failing command, 1 kill, a server that starts and stops | `OfferedIsBootable`, `DoneIsListed`, `CleansUp`, `BuiltFileLoads` |

`perlang_safety` has two languages, so that channels can be confused; `pools`
has one, where the callers compete and liveness is affordable. Each property of
`catalogue` names its exceptions, and each exception is something the code
allows: builds that overlap, a read error taken for an empty file, a write cut
short, an `umount` whose error is dropped. It is the largest run, with 3.6
million states; `app` has 200 thousand, with liveness.

Some of these properties were easy to state too weakly. `FailedTwice` is about
each job's own failures: a job is blamed on its VM exactly if two `Execute` calls
for this job gave an error. `CleansUp` names the command for everything that is
left: a mount only after a failed `umount` of this build, a container only after
a failed `docker rm` or `docker create`, the temporary directory only under a
mount or after a failed `RemoveAll`, however many commands fail. `BuiltFileLoads`
is about the start of a server: it is refused only over a missing file, one that
a build has truncated and not written, or a garbled one, which only overlapping
writes or a build that ended in its write leave. `DoneIsListed` is about one
build at a time: what it reported is lost only to another build that truncated a
list it had not read, or to a write that overlapped with another or did not end.

Runs that refute something the repository says; `findings` in `PROJECT.json`
quotes the line:

| run | claim | what TLC shows |
|---|---|---|
| `jobs_pickup` | `worker.go:91-93`: after an error in Load the job is dequeued again | BRPOP has removed the id, so the job stays queued for ever |
| `perlang_warm` | `prewarmed_lang.go:19-21`: the pool keeps N VMs | a failed boot is never made up for (the other two strategies have the same refill) |
| `perlang_nil` | `pool.go:20`: Acquire returns a booted VM | an Acquire that races with Close returns nil without an error |
| `exchange_oneof` | `proto.go:50-51`: exactly one of CompileError and Results | a silent compiler failure yields neither |
| `exchange_output` | `worker.go:35-37`: results go inside the response | outputs within their limits can exceed the frame |

More observations come with properties that hold. `StrandedBound` counts
the jobs that signals, kills and resends lose, at most one per worker of the
process or one per fault: a job a worker holds when its process is told to stop
is neither finished nor put back, and has no TTL. `BudgetIsEnough` needs its
condition `3 * limit < ExtraBudget`: with a time limit above 10s the agent may spend more on a slow
compiler than the host's budget allows. `CloseWoken` can panic: a `wg.Add`
of an Acquire that saw the pool open may come between the release of `wg.Wait`
and its return. `BudgetIsEnough` also needs that the budget fits a
`time.Duration`: above that the deadline lies in the past, every attempt fails,
and the client is told of a VM error (`ExecuteReturns` holds nevertheless).
`ExitLeavesOnlyRaced` allows for one boot per worker when the process ends: an
Acquire that read `closed` before `Close` and started its refill after
`wg.Wait` leaves a boot nobody waits for, although its context is cancelled;
and after `log.Fatalf` in `cmd/dredd/main.go:45` nothing is closed at all. The
comment on `New` (`dredd.go:63-64`) says it "does not start anything"; it starts
the pool's refills, which is why its failure path has to close the pool. In
`LanguageCatalogue`, an `umount` that fails lets `RemoveAll` empty the image
through the mount, and the language is still listed; and two builds whose
`os.WriteFile` overlap (`cmd/dredd-build/main.go:170`) can leave a languages file
that does not parse, although both reported ok: no server starts with it and no
later `add` gets past it.

### Bounds, and why they are enough

`MaxFaults`, `MaxSignals`, `MaxCrashes`, `MaxCalls`, `MaxFailures`,
`MaxMishaps`, `MaxKills`, `MaxTime` and `MaxPolls` bound what the environment does, in the guards. Two jobs and two
workers are the smallest instance in which a worker can meet another worker's
job; the faults, the signal and the kill can strike at different points of one
job's life, before and after a restart. Two callers and three Acquires let one
caller race with `Close` while another waits and a third refill is under way;
pool size 2 lets a late `wg.Add` meet a `wg.Wait` that another refill has just
released. In `App` two jobs and two workers with one VM make a worker wait for
the other's replacement, and the one failing boot empties the pool; the jobs of
`App` are not symmetric in `AcceptedJobsFinish`, which watches one of the two.
Three builds let two overlap on one image while a third rewrites the file they
share. In `ExecExchange` the small time limit is 1 and the grace period 4: the
proportion of a time limit below 10s to the 30s of the code
(`3 * limit < ExtraBudget`); with `MaxDuration` 15 the large one, 5, makes the
budget overflow for two stdins and the compiler's limit in every case.
`OutputLimit` 2 and `MaxFrame` 3 stand for the code's ratio, where some number
of cases within their limits exceeds the frame. The proofs need none of the
bounds.

Symmetry is used for jobs and for callers, in runs without liveness.
Deadlock is not checked: a pool that was closed, an exchange that ended and a
boot that returned have nothing more to do, and a queue without clients rests.

### Fairness, and why the code justifies it

* `JobQueue`: weak fairness of each worker's own steps. The Go scheduler runs a
  runnable goroutine, BRPOP has a timeout, and `Execute` returns (that it does
  is `ExecuteReturns` and `AcquireReturns`). Nothing forces a client, a fault,
  a signal or an expiry. `jobs_pickup` uses it.
* `App` adds weak fairness of `main`, the `Close` it calls and the refills taken
  together: each ends after a few steps, so this is less than the scheduler
  gives. `AcceptedJobsFinish` excepts the cases in which the code
  gives no guarantee: the process is stopped, or failed boots have taken every
  VM of a language.
* `Pool`: weak fairness of the refills together (each ends after a few steps, so
  none is passed over for ever), of each caller inside `Acquire` and inside
  its exchange, and of `Close` once it was called. Go channels serve blocked
  senders and receivers in order, so a goroutine queued at the semaphore or at
  a channel is not overtaken for ever. Boots return because of `BootContract`.
  Nothing forces a call of `Acquire`, a cancellation or a call of `Close`.
* `ExecExchange`: weak fairness of the host and of time. An unruly guest is
  owed nothing: it may hang. One that keeps its limits acts when they are
  reached, as its timers do.
* `VMBoot`: weak fairness of `Boot`: its calls have timeouts of five seconds or
  are system calls.

## The proofs

`JobQueueProofs` proves for every set of processes, workers, jobs and
languages, every registry and every bound: `TypeCorrect`, `OwnedOnce`,
`TTLCorrect`, `HashesWhole`, `RetriedOnce`, `FewAreStranded` and
`ImplementsLifecycle`, the refinement of `JobLifecycle`. They rest on
`JobQueueAssumption` only (types of the constants, that there is a process, that
the workers are finitely many, as `WorkerConcurrency` makes them, and that
`NoJob` and `NoLang` are no job and no language).

None of these properties is inductive. That two workers never hold one job, for
instance, needs that an id is pushed once, which needs that an id `/exec` has
not yet used is nowhere in the system; that a job is executed at most twice
needs the attempt counter of the worker that holds it to agree with the
history. The inductive invariant `IInv` is `TypeOK`, `HeldJobs` (a worker has a
job id exactly between Dequeue and the end of process), `DownOK` (a process
that is down has no goroutines), `SingleOwner`, and five parts that tie the
hash to the place of the id: `Fresh` (an unused id), `QueuedOK` (an id on the
list has a queued hash, no TTL and no executions), `WorkerOK` (what the hash
and the history are for each point of process), `HashOK` (TTL and language),
`TriesOK` (outcome and executions). Each action moves at most one id from one
place to another; the proofs have one lemma per kind of move (an id pushed, an
id popped, a step of the worker that holds it, a worker that lets go, a process
that vanishes). For the refinement, `OneView` says that a step that writes the
hash of one job changes the view of that job only, `AnswerView` that what
`Finish` writes is one of the answers, and each action is shown to be a step of
`JobLifecycle` or to leave reply and views alone; `IInv` is needed to know what
the view was before the step.

`FewAreStranded` (`StrandedBound`) counts. A signal strands no job at once: the
workers of a stopping process lose theirs one by one, as their next command is
refused or the process ends. The invariant `Damage` therefore also counts
`AtRisk`, the workers of stopping processes that hold a job or may still pop
one: stranded jobs and workers at risk together are at most the faults so far
and, for each signal or kill, the size of the largest team of workers. `Charge`
is the bookkeeping: a job is lost either to a fault (`FaultCharge`) or with a
worker that was at risk (`RiskCharge`), a signal puts one team at risk, a kill
loses the jobs of one team, and every other step costs nothing (`Costless`).
That there is a largest team (`LargestTeam`) is where finiteness is used.

`VMPoolProofs` has the lemmas about the steps of `VMPool`;
`PrewarmedPerLangProofs` concludes `TypeCorrect`, `VMHasOneOwner`,
`SupplyBounded`, `ShrinksByFailures`, `CloseOrder`, `CloseDrains` and
`VMIsSingleUse` for the per-language pool, and `PoolProofs` concludes
`EveryPoolOneOwner`, `EveryPoolConserved` and `EveryCloseIsClean` for whichever
of the three strategies `New` picked, by showing that the steps of each are
steps of `VMPool` with that strategy's channels and capacity. They hold for any
number of languages, VMs and callers and rest on `VMPoolAssumption` and
`PoolAssumption`: a positive size and a finite set of callers, which
`WorkerConcurrency` is. Three invariants carry them, and a fourth is there for
`App`:

* `PInv`, for `Close`. `NoSendOnClosed` is not inductive: `PInv` adds that the
  context is cancelled before the wait, that after the wait no goroutine is
  about to send (one that starts later cannot boot a VM under the cancelled
  context), that a closed channel is empty and was closed after the wait, and
  that an idle VM is in its channel.
* `OwnInv` = `PInv`, `TypeOK` and who has what. `HoldingOK` says where in
  `Acquire` a caller has a VM and in which stage it is, `GotOnce`, `ChanOK`
  and `HeldOK` are the parts of `OneOwner`, `FlagOK` says that `closed` is set before
  anything else of `Close` happens. `NumberedOK` and `BudgetOK` are about the
  model's identities: a boot takes the next unused number, and there is one,
  since the boots so far and the callers that may still start one never exceed
  `Size + MaxCalls`. Without it a step could give a living VM's identity away.
* `SupplyInv` = `PoolConserved` and `OnlyFailuresShrink`. `Supply` is the sum
  of three cardinalities; `Flow` says how a step may move VMs between the three
  sets, and every step is shown to keep the sum, to lower it by a failed boot, or to
  lower it when the pool is closed.
* `LateInv`, for what `Close` does not wait for: once it is past `wg.Wait`, the
  refills under way and the callers about to start one are together no more
  than the callers, and without a call of `Acquire` there are none.

`VMBootProofs` proves `TypeCorrect`, `ConfiguredBeforeStart`,
`FailureIsClean` and `KeepsContract`, for every number of polls. The invariant
`BInv` ties what firecracker has been told to the step `Boot` is at (`ToldOK`:
the calls from `/machine-config` on, in the order of `Steps`, exactly one per
completed step unless `Boot` failed) and the process and the directory to it (`ProcessOK`).
`KeepsContract` is the safety part of the refinement of `BootContract`:
initial states map to initial states and each step to a step or a stutter; its
fairness part stays with the run `boot`.

`LanguageCatalogueProofs` proves `TypeCorrect`, `OffersAreBootable`,
`ReportedIsListed`, `WhatIsWrittenLoads` and `RunsCleanUp`, for any number of
builds, ids, faults and kills. The invariant `CInv` has, next to the types: `ListsOK`
(every list in the file, in a build or in the server has complete entries and no id
twice), `FileOK` (a file that is empty is being written or its writer ended
there; one that is garbled had overlapping writes or a writer that ended in its
write), `ErrOK`, `HoldsOK` and `KeepsOK` (what a build has to undo, by where it is and
by which of its own commands failed), `ImageOK` (who formatted an image, and that
a build past its image has made one that boots or was disturbed), `ListedOK` (an
id that is listed anywhere was built) and `DoneOK` (for each build that reported
ok: its entry is in the file or, while one build rewrites it, in the list that
build has read, unless builds overlapped). The last two are needed because a list is written long
after it was read. `TornOK` and `WritesTorn` say that a finished write is one of
the outcomes of an unfinished one, so the type and list parts are proved for both
at once; `FaultBound` is the counting of `faults`, with `FiniteSetTheorems`.

`ExecExchangeProofs` proves `TypeCorrect`, `HonestAnswer` and `BudgetSuffices`,
for every time limit, number of stdins, grace period and width of
`time.Duration`. `EInv` has `GuestOK` (what has been run where the agent is, and
what its response says of it), `WireOK` (who can still act while a frame is on
its way) and `TimeOK`: for a guest that keeps its limits, the time used so far
is at most the compiler's and that of the cases run, which the budget covers. The arithmetic is in
`OneMoreCase`, `CaseTime` and `BudgetCovers`.

`AppProofs` is about the whole process, for every configuration `FromEnv`
accepts and any number of workers, jobs and languages. `AcceptedIsUsable` comes
first: whatever numbers or junk the environment holds, an accepted
configuration has positive sizes and concurrencies and a known strategy with
the rootfs it needs; with it the assumptions of the components follow from
`AppAssumption` (types, finite sets of workers and jobs, and that the null
values are no job, language, VM or worker). `PartsAreKept` is the composition:
a behaviour of `App` is one of `JobQueue` and one of `PrewarmedPerLang`. The
lemmas of the two components are instantiated (`JP`, `VP`), `JobStep` and
`PoolStep` carry their step lemmas over, and `AInv` adds to `IInv`, `OwnInv` and
`LateInv` what only the composition knows:

* `AsksForLang`: a worker calls `Execute` with a language the pool has a channel
  for, since `SetRunning` has looked it up;
* `RunsOK`, for `AttemptsOwnVM` (`OwnVM`): a VM that has run something is dead.
  An exchange needs a VM its worker holds, and dead VMs stay dead (the action
  property of the pool);
* `MainOK`, with `LateInv` for `ExitIsClean` (`ExitLeavesOnlyRaced`): `main` ends
  only when `Close` has returned, and before `Run` nobody has called `Acquire`;
* `ImagesOK`, for `ImagePulledOnce` (`PulledOnce`): who checks or pulls has the
  mutex, and what is being pulled is not yet recorded;
* `LostOK`, for the first part of `BlamedAfterTwo` (`FailedTwice`): `JobLost` ties
  the errors counted for a job to its outcome once it is finished, and `WorkerLost`
  ties them to the attempt of the worker that holds it; a step of one worker
  counts an error for its own job only, and by `SingleOwner` of `JobQueue` no
  other worker has that job;
* `BlameOK`, for its second part: every failure of an Executor
  pays for one attempt. Counted are two for each job written as a VM error, two
  for each about to be written, and one for each job in its second attempt;
  the sum never exceeds the failures there were.

`TypeCorrect` follows from all of them.

Only model-checked: the liveness properties (`AcceptedJobsFinish`,
`StopsAfterSignal`, `AcquireReturns`, `CloseReturns`, `ExecuteReturns`) and the
fairness part of `BootContract`: the prover does not reason about fairness and
ENABLED. Every invariant and action property that a passing run checks is proved.

## What is not modelled

* Loss of acknowledged writes by Redis itself.
* Contents of sources, stdins and outputs, JSON and framing beyond sizes, the
  memory limit (the agent ignores it), logging.
* `/healthz` and `/languages`: constant answers and a read of the registry,
  which never changes in a running process.
* Settings that are only passed on (addresses, paths, VM sizes).
* A language without a pool in `Acquire`, or without an image in
  `DockerExecutor`: the worker has looked it up in the registry from which the
  pool was built, and the tests' images cover their registry.
* `App` with the other two strategies: the pools are checked for all three in
  `pools`, and what `App` adds does not depend on the strategy. The boot of a
  VM and its exchange are single steps of `App`; `VMBoot` and `ExecExchange`
  have them in detail.
* A process that is lost between storing a job and answering `/exec`, frames that
  arrive in part, and durations of the configuration that overflow (see the
  modules above).
* The bytes of the languages file: an unfinished write over another build's text
  that happens to be a different valid list.
* A boot that reads an image while it is rebuilt: `LanguageCatalogue` says when
  an offered image is not bootable; what a kernel makes of it is not modelled.

## Plan

Every part listed above is modelled, and what is left to TLC is liveness. Worth
adding: the guarantees of `JobQueue` restated for several `App` processes on one
Redis, which would need `App` to carry a set of processes.
