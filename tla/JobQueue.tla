------------------------------ MODULE JobQueue ------------------------------
(***************************************************************************)
(* The life of a submission: POST /exec writes a hash and pushes the job   *)
(* id on a Redis list in one transaction, a worker goroutine pops the id,  *)
(* loads the hash, marks it running, calls the Executor at most twice and  *)
(* writes the outcome with a TTL.  Several dredd processes may share one   *)
(* Redis; each runs several worker goroutines and an HTTP server.          *)
(*                                                                         *)
(* Every action is one Redis round trip, one Executor call or one signal:  *)
(* these are the points where goroutines interleave.  The Executor is its  *)
(* contract only (worker.go): a call returns a response or an error.       *)
(*                                                                         *)
(* Failures: a Redis command may fail before or after it took effect       *)
(* (MaxFaults of them), a process may be told to stop (MaxSignals) or be   *)
(* killed (MaxCrashes), and a stopped process may be started again.        *)
(***************************************************************************)
EXTENDS Integers, Sequences, FiniteSets

CONSTANTS
  Procs,       \* dredd processes that share the Redis server
  Workers,     \* worker goroutines (cfg.WorkerConcurrency per process)
  ProcOf,      \* the process each worker runs in
  Jobs,        \* job ids: the ULIDs /exec draws, one per call
  Langs,       \* language ids a client may name
  Registry,    \* the languages each process loaded from its languages file
  ResultTTL,   \* DREDD_RESULT_TTL_SECONDS; zero means no expiry
  NoJob,       \* no job id
  NoLang,      \* the language field of a hash that has none
  MaxFaults,   \* bound: Redis commands that fail
  MaxSignals,  \* bound: signals that stop a process
  MaxCrashes   \* bound: processes killed

ASSUME JobQueueAssumption ==
  /\ Procs # {}
  /\ IsFiniteSet(Workers)   \* cfg.WorkerConcurrency per process
  /\ ProcOf \in [Workers -> Procs]
  /\ Registry \in [Procs -> SUBSET Langs]
  /\ NoJob \notin Jobs
  /\ NoLang \notin Langs
  /\ ResultTTL \in Int
  /\ MaxFaults \in Nat
  /\ MaxSignals \in Nat
  /\ MaxCrashes \in Nat

VARIABLES
  queue,     \* the list dredd:queue; LPUSH appends here, BRPOP takes the head
  hash,      \* the hashes dredd:job:<id>
  reply,     \* HTTP status code /exec answered for each id, 0 before that
  pc,        \* where each worker is in loop / process
  job,       \* the id each worker is processing
  lang,      \* the language of the job as the worker loaded it
  attempt,   \* the worker's retry counter
  outcome,   \* what the worker is about to write with Finish
  proc,      \* "up", "stopping" (context cancelled) or "down"
  execs,     \* history: Execute calls made for each job
  faults,    \* how many Redis commands have failed
  stops      \* how many signals and kills have happened

redis == <<queue, hash>>
local == <<pc, job, lang, attempt, outcome>>
vars == <<queue, hash, reply, pc, job, lang, attempt, outcome, proc, execs,
          faults, stops>>

-----------------------------------------------------------------------------
\* The job record (jobs/job.go, jobs/status.go).

Statuses == {"absent", "queued", "running", "done", "failed"}
Outcomes == {"none", "results", "compile_error", "agent_error", "vm_error",
             "unknown_language"}
PCs == {"idle", "popping", "popped", "loaded", "exec", "finish", "exited"}

Terminal(s) == s \in {"done", "failed"}

\* The status process() passes to Finish with each outcome.
StatusFor(o) == IF o \in {"results", "compile_error"} THEN "done" ELSE "failed"

\* The fields of a job's hash the properties tell apart.
Hashes == [status: Statuses, lang: Langs \cup {NoLang}, outcome: Outcomes,
           ttl: BOOLEAN]

\* A missing key.  HSET on it creates a hash with only the fields written.
NoHash == [status |-> "absent", lang |-> NoLang, outcome |-> "none",
           ttl |-> FALSE]

maxAttempts == 2

-----------------------------------------------------------------------------
\* A Redis command issued by process p fails: either the server or the
\* network does (and the command may still have been applied), or p's
\* context is already cancelled and the client never sends it.
Fault(p) ==
  /\ proc[p] \in {"up", "stopping"}
  /\ faults < MaxFaults
  /\ faults' = faults + 1

Cancelled(p) ==
  /\ proc[p] = "stopping"
  /\ UNCHANGED faults

Works(p) ==
  /\ proc[p] = "up"
  /\ UNCHANGED faults

-----------------------------------------------------------------------------
\* POST /exec (api/exec.go).

Requests == [body: {"ok", "too_large", "bad_json"}, complete: BOOLEAN,
             lang: Langs]

\* The status code the handler settles on before it touches Redis; 202 means
\* it goes on to Enqueue.
validate(p, r) ==
  CASE r.body = "too_large"         -> 413
    [] r.body = "bad_json"          -> 400
    [] ~r.complete                  -> 400
    [] r.lang \notin Registry[p]    -> 400
    [] OTHER                        -> 202

\* What the HSET of Enqueue leaves in the job's hash.
Queued(h, l) ==
  [status |-> "queued", lang |-> l, outcome |-> h.outcome, ttl |-> h.ttl]

\* Mutant: the id is pushed twice, as a resent transaction would.
EnqueueTwice(j, l) ==
  /\ hash' = [hash EXCEPT ![j] = Queued(@, l)]
  /\ queue' = Append(Append(queue, j), j)

\* MULTI / HSET / LPUSH / EXEC: both writes or neither.
Enqueue(j, l) ==
  /\ hash' = [hash EXCEPT ![j] = Queued(@, l)]
  /\ queue' = Append(queue, j)

ExecReject(p, j, r) ==
  /\ proc[p] # "down"
  /\ reply[j] = 0
  /\ validate(p, r) # 202
  /\ reply' = [reply EXCEPT ![j] = validate(p, r)]
  /\ UNCHANGED <<redis, local, proc, execs, faults, stops>>

\* The handler's context is the request's, not the process's: it still works
\* while the process is stopping, until http.Server.Shutdown has drained it.
ExecAccept(p, j, r) ==
  /\ proc[p] # "down"
  /\ reply[j] = 0
  /\ validate(p, r) = 202
  /\ Enqueue(j, r.lang)
  /\ reply' = [reply EXCEPT ![j] = 202]
  /\ UNCHANGED <<local, proc, execs, faults, stops>>

ExecError(p, j, r) ==
  /\ Fault(p)
  /\ reply[j] = 0
  /\ validate(p, r) = 202
  /\ Enqueue(j, r.lang) \/ UNCHANGED redis
  /\ reply' = [reply EXCEPT ![j] = 500]
  /\ UNCHANGED <<local, proc, execs, stops>>

-----------------------------------------------------------------------------
\* The worker loop (worker/worker.go) and the queue operations it calls
\* (queue/redis.go).

At(w, here) == pc[w] = here

Goto(w, there) == pc' = [pc EXCEPT ![w] = there]

\* process returns: the goroutine is back at the top of loop.
Return(w) ==
  /\ Goto(w, "idle")
  /\ job' = [job EXCEPT ![w] = NoJob]
  /\ lang' = [lang EXCEPT ![w] = NoLang]
  /\ attempt' = [attempt EXCEPT ![w] = 0]
  /\ outcome' = [outcome EXCEPT ![w] = "none"]

\* Mutant: loop does not look at ctx.Err before the next BRPOP.
PollAnyway(w) ==
  /\ At(w, "idle")
  /\ Goto(w, "popping")
  /\ UNCHANGED <<redis, reply, job, lang, attempt, outcome, proc, execs,
                 faults, stops>>

\* The context is live, so the worker issues BRPOP.
Poll(w) ==
  /\ At(w, "idle")
  /\ proc[ProcOf[w]] = "up"
  /\ Goto(w, "popping")
  /\ UNCHANGED <<redis, reply, job, lang, attempt, outcome, proc, execs,
                 faults, stops>>

\* The context is cancelled, so loop returns.
LoopExit(w) ==
  /\ At(w, "idle")
  /\ proc[ProcOf[w]] = "stopping"
  /\ Goto(w, "exited")
  /\ UNCHANGED <<redis, reply, job, lang, attempt, outcome, proc, execs,
                 faults, stops>>

\* Mutant: the id is read but stays on the list.
DequeuePeek(w) ==
  /\ At(w, "popping")
  /\ queue # <<>>
  /\ job' = [job EXCEPT ![w] = Head(queue)]
  /\ Goto(w, "popped")
  /\ UNCHANGED <<redis, reply, lang, attempt, outcome, proc, execs, faults,
                 stops>>

\* BRPOP answers with an id.  A BRPOP in flight is not interrupted by the
\* cancellation of the context.
Dequeue(w) ==
  /\ At(w, "popping")
  /\ queue # <<>>
  /\ job' = [job EXCEPT ![w] = Head(queue)]
  /\ queue' = Tail(queue)
  /\ Goto(w, "popped")
  /\ UNCHANGED <<hash, reply, lang, attempt, outcome, proc, execs, faults,
                 stops>>

\* Dequeue returns "": BRPOP timed out on an empty list after popTimeout, or
\* the context was cancelled after loop looked at it and before it was sent.
DequeueTimeout(w) ==
  /\ At(w, "popping")
  /\ queue = <<>> \/ proc[ProcOf[w]] = "stopping"
  /\ Return(w)
  /\ UNCHANGED <<redis, reply, proc, execs, faults, stops>>

\* BRPOP fails; the server may have popped an id whose reply never arrived.
DequeueError(w) ==
  /\ At(w, "popping")
  /\ Fault(ProcOf[w])
  /\ \/ queue' = queue
     \/ queue # <<>> /\ queue' = Tail(queue)
  /\ Return(w)
  /\ UNCHANGED <<hash, reply, proc, execs, stops>>

\* The connection breaks after the server has popped an id, and the client
\* library sends BRPOP again by itself: the id is gone, and the worker waits
\* for another without knowing.
DequeueResend(w) ==
  /\ At(w, "popping")
  /\ proc[ProcOf[w]] = "up"
  /\ Fault(ProcOf[w])
  /\ queue # <<>>
  /\ queue' = Tail(queue)
  /\ UNCHANGED <<hash, reply, local, proc, execs, stops>>

\* HGETALL: the worker keeps the language, or gives up if the key is missing
\* (ErrNotFound).
Load(w) ==
  /\ At(w, "popped")
  /\ Works(ProcOf[w])
  /\ IF hash[job[w]].status = "absent"
       THEN Return(w)
       ELSE /\ lang' = [lang EXCEPT ![w] = hash[job[w]].lang]
            /\ Goto(w, "loaded")
            /\ UNCHANGED <<job, attempt, outcome>>
  /\ UNCHANGED <<redis, reply, proc, execs, stops>>

\* HGETALL fails: process logs and returns, the id is already off the list.
LoadError(w) ==
  /\ At(w, "popped")
  /\ Fault(ProcOf[w]) \/ Cancelled(ProcOf[w])
  /\ Return(w)
  /\ UNCHANGED <<redis, reply, proc, execs, stops>>

\* Mutant: the TTL is set when the job starts, not when it ends.
RunningWithTTL(h) ==
  [status |-> "running", lang |-> h.lang, outcome |-> h.outcome,
   ttl |-> ResultTTL > 0]

\* What HSET status running leaves in the job's hash.
Running(h) ==
  [status |-> "running", lang |-> h.lang, outcome |-> h.outcome, ttl |-> h.ttl]

\* Mutant: the retry counter starts one too low.
SetRunningFromZero(w) ==
  /\ At(w, "loaded")
  /\ Works(ProcOf[w])
  /\ hash' = [hash EXCEPT ![job[w]] = Running(@)]
  /\ Goto(w, "exec")
  /\ execs' = [execs EXCEPT ![job[w]] = @ + 1]
  /\ UNCHANGED <<queue, reply, job, lang, attempt, outcome, proc, stops>>

\* HSET status running, then the registry lookup: an unknown language goes
\* straight to Finish, a known one to the first Execute call.
SetRunning(w) ==
  /\ At(w, "loaded")
  /\ Works(ProcOf[w])
  /\ hash' = [hash EXCEPT ![job[w]] = Running(@)]
  /\ \/ /\ lang[w] \in Registry[ProcOf[w]]
        /\ Goto(w, "exec")
        /\ attempt' = [attempt EXCEPT ![w] = 1]
        /\ execs' = [execs EXCEPT ![job[w]] = @ + 1]
        /\ UNCHANGED outcome
     \/ /\ lang[w] \notin Registry[ProcOf[w]]
        /\ Goto(w, "finish")
        /\ outcome' = [outcome EXCEPT ![w] = "unknown_language"]
        /\ UNCHANGED <<attempt, execs>>
  /\ UNCHANGED <<queue, reply, job, lang, proc, stops>>

\* HSET fails: process abandons the job.
SetRunningError(w) ==
  /\ At(w, "loaded")
  /\ \/ Fault(ProcOf[w]) /\ hash' = [hash EXCEPT ![job[w]] = Running(@)]
     \/ Fault(ProcOf[w]) /\ UNCHANGED hash
     \/ Cancelled(ProcOf[w]) /\ UNCHANGED hash
  /\ Return(w)
  /\ UNCHANGED <<queue, reply, proc, execs, stops>>

\* Execute returns a response: process goes to Finish whatever it holds.
ExecuteReturns(w, o) ==
  /\ At(w, "exec")
  /\ Goto(w, "finish")
  /\ outcome' = [outcome EXCEPT ![w] = o]
  /\ UNCHANGED <<redis, reply, job, lang, attempt, proc, execs, faults, stops>>

\* Mutant: Execute is retried until it works.
ExecuteErrorForever(w) ==
  /\ At(w, "exec")
  /\ attempt' = [attempt EXCEPT ![w] = @ + 1]
  /\ execs' = [execs EXCEPT ![job[w]] = @ + 1]
  /\ UNCHANGED <<redis, reply, pc, job, lang, outcome, proc, faults, stops>>

\* Execute returns an error: one more attempt, or Finish with the last error.
ExecuteError(w) ==
  /\ At(w, "exec")
  /\ \/ /\ attempt[w] < maxAttempts
        /\ attempt' = [attempt EXCEPT ![w] = @ + 1]
        /\ execs' = [execs EXCEPT ![job[w]] = @ + 1]
        /\ UNCHANGED <<pc, outcome>>
     \/ /\ attempt[w] >= maxAttempts
        /\ Goto(w, "finish")
        /\ outcome' = [outcome EXCEPT ![w] = "vm_error"]
        /\ UNCHANGED <<attempt, execs>>
  /\ UNCHANGED <<redis, reply, job, lang, proc, faults, stops>>

\* Mutant: only successful jobs get a TTL.
FinishedDoneOnly(h, o) ==
  [status |-> StatusFor(o), lang |-> h.lang, outcome |-> o,
   ttl |-> h.ttl \/ (StatusFor(o) = "done" /\ ResultTTL > 0)]

\* What MULTI / HSET / EXPIRE / EXEC leave in the job's hash.
Finished(h, o) ==
  [status |-> StatusFor(o), lang |-> h.lang, outcome |-> o,
   ttl |-> h.ttl \/ (Terminal(StatusFor(o)) /\ ResultTTL > 0)]

Finish(w) ==
  /\ At(w, "finish")
  /\ Works(ProcOf[w])
  /\ hash' = [hash EXCEPT ![job[w]] = Finished(@, outcome[w])]
  /\ Return(w)
  /\ UNCHANGED <<queue, reply, proc, execs, stops>>

\* Finish fails and its error is discarded: the result is gone.
FinishError(w) ==
  /\ At(w, "finish")
  /\ \/ Fault(ProcOf[w])
        /\ hash' = [hash EXCEPT ![job[w]] = Finished(@, outcome[w])]
     \/ Fault(ProcOf[w]) /\ UNCHANGED hash
     \/ Cancelled(ProcOf[w]) /\ UNCHANGED hash
  /\ Return(w)
  /\ UNCHANGED <<queue, reply, proc, execs, stops>>

-----------------------------------------------------------------------------
\* Redis expires a key; processes stop and start.

Expire(j) ==
  /\ hash[j].ttl
  /\ hash' = [hash EXCEPT ![j] = NoHash]
  /\ UNCHANGED <<queue, reply, local, proc, execs, faults, stops>>

\* SIGINT or SIGTERM cancels the context App.Run was given.
Signal(p) ==
  /\ proc[p] = "up"
  /\ stops.signal < MaxSignals
  /\ stops' = [signal |-> stops.signal + 1, crash |-> stops.crash]
  /\ proc' = [proc EXCEPT ![p] = "stopping"]
  /\ UNCHANGED <<redis, reply, local, execs, faults>>

\* The goroutines of p are gone, wherever they were.
Vanish(p) ==
  LET Gone(f, v) == [w \in Workers |-> IF ProcOf[w] = p THEN v ELSE f[w]]
  IN  /\ proc' = [proc EXCEPT ![p] = "down"]
      /\ pc' = Gone(pc, "exited")
      /\ job' = Gone(job, NoJob)
      /\ lang' = Gone(lang, NoLang)
      /\ attempt' = Gone(attempt, 0)
      /\ outcome' = Gone(outcome, "none")

\* Shutdown has returned and so does main: nothing waits for the workers.
Exit(p) ==
  /\ proc[p] = "stopping"
  /\ Vanish(p)
  /\ UNCHANGED <<redis, reply, execs, faults, stops>>

Crash(p) ==
  /\ proc[p] = "up"
  /\ stops.crash < MaxCrashes
  /\ stops' = [signal |-> stops.signal, crash |-> stops.crash + 1]
  /\ Vanish(p)
  /\ UNCHANGED <<redis, reply, execs, faults>>

\* A new process with the same configuration.
Start(p) ==
  /\ proc[p] = "down"
  /\ proc' = [proc EXCEPT ![p] = "up"]
  /\ pc' = [w \in Workers |-> IF ProcOf[w] = p THEN "idle" ELSE pc[w]]
  /\ UNCHANGED <<redis, reply, job, lang, attempt, outcome, execs, faults,
                 stops>>

-----------------------------------------------------------------------------
Init ==
  /\ queue = <<>>
  /\ hash = [j \in Jobs |-> NoHash]
  /\ reply = [j \in Jobs |-> 0]
  /\ pc = [w \in Workers |-> "idle"]
  /\ job = [w \in Workers |-> NoJob]
  /\ lang = [w \in Workers |-> NoLang]
  /\ attempt = [w \in Workers |-> 0]
  /\ outcome = [w \in Workers |-> "none"]
  /\ proc = [p \in Procs |-> "up"]
  /\ execs = [j \in Jobs |-> 0]
  /\ faults = 0
  /\ stops = [signal |-> 0, crash |-> 0]

exec(p, j, r) == ExecReject(p, j, r) \/ ExecAccept(p, j, r) \/ ExecError(p, j, r)

loop(w) == Poll(w) \/ LoopExit(w) \/ Dequeue(w) \/ DequeueTimeout(w)
             \/ DequeueError(w) \/ DequeueResend(w)

process(w) ==
  \/ Load(w) \/ LoadError(w)
  \/ SetRunning(w) \/ SetRunningError(w)
  \/ \E o \in {"results", "compile_error", "agent_error"} : ExecuteReturns(w, o)
  \/ ExecuteError(w)
  \/ Finish(w) \/ FinishError(w)

Next ==
  \/ \E p \in Procs, j \in Jobs, r \in Requests : exec(p, j, r)
  \/ \E w \in Workers : loop(w) \/ process(w)
  \/ \E j \in Jobs : Expire(j)
  \/ \E p \in Procs : Signal(p) \/ Exit(p) \/ Crash(p) \/ Start(p)

Spec == Init /\ [][Next]_vars

\* A worker goroutine that can take a step takes one: the Go scheduler is
\* fair and every Executor call returns.  Clients, faults, signals and the
\* expiry of keys are not forced.
Fairness == \A w \in Workers : WF_vars(loop(w) \/ process(w))

FairSpec == Spec /\ Fairness

-----------------------------------------------------------------------------
OnQueue(j) == \E i \in 1..Len(queue) : queue[i] = j

Holds(w, j) == job[w] = j

\* What GET /status/{id} answers for a hash: 404, or 200 with its fields.
Seen(h) ==
  IF h.status = "absent"
    THEN [code |-> 404, status |-> "absent", outcome |-> "none"]
    ELSE [code |-> 200, status |-> h.status, outcome |-> h.outcome]

status(j) == Seen(hash[j])

\* Type invariant: the domain of every variable.
TypeOK ==
  /\ queue \in Seq(Jobs)
  /\ hash \in [Jobs -> Hashes]
  /\ reply \in [Jobs -> {0, 202, 400, 413, 500}]
  /\ pc \in [Workers -> PCs]
  /\ job \in [Workers -> Jobs \cup {NoJob}]
  /\ lang \in [Workers -> Langs \cup {NoLang}]
  /\ attempt \in [Workers -> 0..maxAttempts]
  /\ outcome \in [Workers -> Outcomes]
  /\ proc \in [Procs -> {"up", "stopping", "down"}]
  /\ execs \in [Jobs -> Nat]
  /\ faults \in 0..MaxFaults
  /\ stops \in [signal: 0..MaxSignals, crash: 0..MaxCrashes]

\* A job id is in one place at a time: once on the list, or with one worker
\* of one process, whatever faults and restarts happen.  Nothing in process()
\* guards against a second worker on the same job.
SingleOwner ==
  /\ \A a, b \in 1..Len(queue) : queue[a] = queue[b] => a = b
  /\ \A w \in Workers : \A j \in Jobs : Holds(w, j) => ~OnQueue(j)
  /\ \A v, w \in Workers : \A j \in Jobs : Holds(v, j) /\ Holds(w, j) => v = w

\* Every finished job carries a TTL, so it is garbage-collected, and no job
\* that is still queued or running does, so it cannot vanish under a worker.
TTLIffTerminal ==
  ResultTTL > 0 => \A j \in Jobs : hash[j].ttl <=> Terminal(hash[j].status)

\* HSET creates missing keys, so a SetRunning or Finish on an expired job
\* would leave a hash without the submission.  It never happens: a hash that
\* exists has the fields Enqueue wrote.
HashesAreWhole ==
  \A j \in Jobs : hash[j].status # "absent" => hash[j].lang # NoLang

\* The single-retry rule, over all workers, faults and restarts: user code is
\* submitted to the Executor at most twice per job, a job blamed on the VM was
\* tried exactly twice, a job that is done was tried, and an unknown language
\* was not.
SingleRetry ==
  \A j \in Jobs :
    /\ execs[j] <= 2
    /\ hash[j].outcome = "vm_error" => execs[j] = 2
    /\ hash[j].outcome \in {"results", "compile_error", "agent_error"} =>
         execs[j] \in 1..2
    /\ hash[j].outcome = "unknown_language" => execs[j] = 0

Lifecycle == INSTANCE JobLifecycle WITH view <- [j \in Jobs |-> status(j)]

\* What a client sees of its jobs is a behaviour of JobLifecycle: statuses only
\* move forward, the final answer is one of those process() can write and
\* never changes, and no retry, restart or fault brings a job back that was
\* refused or has expired.
KeepsLifecycle == Lifecycle!Spec

\* Jobs nobody will ever finish: not final, off the list and with no worker.
Stranded ==
  {j \in Jobs : /\ hash[j].status \in {"queued", "running"}
                /\ ~OnQueue(j)
                /\ \A w \in Workers : ~Holds(w, j)}

\* The damage of a failure is bounded: one failed Redis command strands at
\* most the job it was about, and stopping or killing a process strands at
\* most one job for each of its own workers, because loop stops polling once
\* the context is cancelled.  (p is the process with the most workers.)
StrandedBound ==
  \E p \in Procs :
    Cardinality(Stranded) <=
      faults + (stops.signal + stops.crash)
                 * Cardinality({w \in Workers : ProcOf[w] = p})

\* Claim of the comment at worker.go:91-93, that after a transient Redis
\* error in Load the job is dequeued again: a job a worker has popped does
\* not stay queued.
PoppedJobIsProcessed ==
  \A j \in Jobs :
    (\E w \in Workers : Holds(w, j)) ~> (hash[j].status # "queued")
=============================================================================
