--------------------------- MODULE JobQueueProofs ---------------------------
(***************************************************************************)
(* Proofs about JobQueue, for every set of processes, workers and jobs and *)
(* every bound on faults, signals and crashes.                             *)
(***************************************************************************)
EXTENDS JobQueue, SequenceTheorems, FiniteSetTheorems, WellFoundedInduction, TLAPS

-----------------------------------------------------------------------------
\* Facts about the two sequence operations the queue is built from: LPUSH
\* adds one entry at the end, BRPOP shifts the others down.

LEMMA AppendFacts ==
  ASSUME NEW S, NEW s \in Seq(S), NEW e \in S
  PROVE  /\ Append(s, e) \in Seq(S)
         /\ Len(Append(s, e)) = Len(s) + 1
         /\ \A i \in 1..Len(s) : Append(s, e)[i] = s[i]
         /\ Append(s, e)[Len(s) + 1] = e
BY AppendProperties

LEMMA TailFacts ==
  ASSUME NEW S, NEW s \in Seq(S), s # <<>>
  PROVE  /\ Head(s) \in S
         /\ Head(s) = s[1]
         /\ 1 \in 1..Len(s)
         /\ Tail(s) \in Seq(S)
         /\ Len(Tail(s)) = Len(s) - 1
         /\ \A i \in 1..Len(Tail(s)) : i + 1 \in 1..Len(s) /\ Tail(s)[i] = s[i + 1]
<1>1. Len(s) \in Nat /\ Len(s) # 0
  BY EmptySeq, LenProperties
<1>2. /\ Head(s) \in S
      /\ Head(s) = s[1]
      /\ Tail(s) \in Seq(S)
      /\ Len(Tail(s)) = Len(s) - 1
      /\ \A i \in 1..Len(Tail(s)) : Tail(s)[i] = s[i + 1]
  BY HeadTailProperties
<1> QED
  BY <1>1, <1>2

-----------------------------------------------------------------------------
\* Type correctness.

\* TypeOK in three parts, and the fact that makes it inductive: the workers
\* with a job id are those between Dequeue and the end of process.
RedisOK == queue \in Seq(Jobs) /\ hash \in [Jobs -> Hashes]

LocalOK ==
  /\ pc \in [Workers -> PCs]
  /\ job \in [Workers -> Jobs \cup {NoJob}]
  /\ lang \in [Workers -> Langs \cup {NoLang}]
  /\ attempt \in [Workers -> 0..2]
  /\ outcome \in [Workers -> Outcomes]

RestOK ==
  /\ reply \in [Jobs -> {0, 202, 400, 413, 500}]
  /\ proc \in [Procs -> {"up", "stopping", "down"}]
  /\ execs \in [Jobs -> Nat]
  /\ faults \in 0..MaxFaults

StopsOK == stops \in [signal: 0..MaxSignals, crash: 0..MaxCrashes]

Holding == {"popped", "loaded", "exec", "finish"}

HeldJobs == \A w \in Workers : pc[w] \in Holding <=> job[w] # NoJob

\* The goroutines of a process that is down are gone.
DownOK == \A w \in Workers : proc[ProcOf[w]] = "down" => pc[w] = "exited"

LEMMA TypeParts == TypeOK <=> RedisOK /\ LocalOK /\ RestOK /\ StopsOK
BY DEF TypeOK, RedisOK, LocalOK, RestOK, StopsOK, maxAttempts

LEMMA TypePartsPrime == TypeOK' <=> RedisOK' /\ LocalOK' /\ RestOK' /\ StopsOK'
BY DEF TypeOK, RedisOK, LocalOK, RestOK, StopsOK, maxAttempts

\* Hashes stay hashes whatever a command writes to them.
LEMMA HashTypes ==
  ASSUME NEW h \in Hashes
  PROVE  /\ \A l \in Langs : Queued(h, l) \in Hashes
         /\ Running(h) \in Hashes
         /\ \A o \in Outcomes : Finished(h, o) \in Hashes
         /\ NoHash \in Hashes
         /\ h.lang \in Langs \cup {NoLang}
BY DEF Hashes, Queued, Running, Finished, NoHash, StatusFor, Statuses, Outcomes

\* A worker that is back in loop holds nothing.
LEMMA ReturnType ==
  ASSUME LocalOK, HeldJobs, NEW w \in Workers, Return(w)
  PROVE  LocalOK' /\ HeldJobs'
BY DEF LocalOK, HeldJobs, Holding, Return, Goto, PCs, Outcomes

LEMMA InitType == ASSUME Init PROVE TypeOK /\ HeldJobs /\ DownOK
<1>1. NoHash \in Hashes
  BY DEF NoHash, Hashes, Statuses, Outcomes
<1> QED
  BY <1>1, JobQueueAssumption, EmptySeq
     DEF Init, TypeOK, Outcomes, PCs, maxAttempts, HeldJobs, Holding, DownOK

LEMMA StepDown ==
  ASSUME TypeOK, DownOK, [Next]_vars
  PROVE  DownOK'
<1>0. LocalOK /\ proc \in [Procs -> {"up", "stopping", "down"}]
  BY TypeParts DEF RestOK
<1>1. CASE \E p \in Procs, j \in Jobs, r \in Requests : exec(p, j, r)
  BY <1>1 DEF exec, ExecReject, ExecAccept, ExecError, local, DownOK
<1>2. ASSUME NEW w \in Workers, loop(w) \/ process(w) PROVE DownOK'
  <2>1. pc[w] # "exited" /\ UNCHANGED proc
    BY <1>2
       DEF loop, Poll, LoopExit, Dequeue, DequeueTimeout, DequeueError,
           DequeueResend, process, Load, LoadError, SetRunning, SetRunningError,
           ExecuteReturns, ExecuteError, Finish, FinishError, At
  <2>2. UNCHANGED pc \/ \E l \in PCs : pc' = [pc EXCEPT ![w] = l]
    BY <1>2
       DEF loop, Poll, LoopExit, Dequeue, DequeueTimeout, DequeueError,
           DequeueResend, process, Load, LoadError, SetRunning, SetRunningError,
           ExecuteReturns, ExecuteError, Finish, FinishError, Return, Goto, PCs,
           local
  <2> QED
    BY <1>0, <2>1, <2>2 DEF LocalOK, DownOK
<1>3. CASE \E j \in Jobs : Expire(j)
  BY <1>3 DEF Expire, local, DownOK
<1>4. ASSUME NEW p \in Procs, Signal(p) \/ Exit(p) \/ Crash(p) \/ Start(p)
      PROVE  DownOK'
  <2>1. CASE Signal(p)
    BY <1>0, <2>1, JobQueueAssumption DEF Signal, local, DownOK
  <2>2. CASE Vanish(p)
    BY <1>0, <2>2, JobQueueAssumption DEF Vanish, DownOK
  <2>3. CASE Start(p)
    BY <1>0, <2>3, JobQueueAssumption DEF Start, DownOK
  <2> QED
    BY <1>4, <2>1, <2>2, <2>3 DEF Exit, Crash
<1>5. CASE UNCHANGED vars
  BY <1>5 DEF vars, DownOK
<1> QED
  BY <1>1, <1>2, <1>3, <1>4, <1>5 DEF Next

LEMMA StepType ==
  ASSUME TypeOK, HeldJobs, DownOK, [Next]_vars
  PROVE  TypeOK' /\ HeldJobs'
<1>0. RedisOK /\ LocalOK /\ RestOK /\ StopsOK
  BY TypeParts
<1> SUFFICES (RedisOK /\ LocalOK /\ RestOK /\ StopsOK)' /\ HeldJobs'
  BY TypePartsPrime
<1> USE DEF redis, local
<1>1. ASSUME NEW p \in Procs, NEW j \in Jobs, NEW r \in Requests, exec(p, j, r)
      PROVE  (RedisOK /\ LocalOK /\ RestOK /\ StopsOK)' /\ HeldJobs'
  <2>1. validate(p, r) \in {202, 400, 413}
    BY DEF validate
  <2>2. hash[j] \in Hashes /\ r.lang \in Langs
    BY <1>0 DEF Requests, RedisOK
  <2>3. ASSUME Enqueue(j, r.lang) PROVE RedisOK'
    BY <1>0, <2>2, <2>3, HashTypes, AppendFacts DEF Enqueue, RedisOK
  <2>4. UNCHANGED <<local, stops>>
    BY <1>1 DEF exec, ExecReject, ExecAccept, ExecError
  <2>5. LocalOK' /\ HeldJobs' /\ StopsOK'
    BY <1>0, <2>4 DEF LocalOK, HeldJobs, StopsOK
  <2>6. RedisOK'
    <3>1. Enqueue(j, r.lang) \/ UNCHANGED redis
      BY <1>1 DEF exec, ExecReject, ExecAccept, ExecError
    <3> QED
      BY <1>0, <2>3, <3>1 DEF RedisOK
  <2>7. RestOK'
    <3>1. UNCHANGED <<proc, execs>>
      BY <1>1 DEF exec, ExecReject, ExecAccept, ExecError
    <3>2. UNCHANGED faults \/ (faults < MaxFaults /\ faults' = faults + 1)
      BY <1>1 DEF exec, ExecReject, ExecAccept, ExecError, Fault
    <3>3. \E n \in {202, 400, 413, 500} : reply' = [reply EXCEPT ![j] = n]
      BY <1>1, <2>1 DEF exec, ExecReject, ExecAccept, ExecError
    <3> QED
      BY <1>0, <3>1, <3>2, <3>3, JobQueueAssumption DEF RestOK
  <2> QED
    BY <2>5, <2>6, <2>7
<1>2. ASSUME NEW w \in Workers, loop(w)
      PROVE  (RedisOK /\ LocalOK /\ RestOK /\ StopsOK)' /\ HeldJobs'
  <2>1. queue # <<>> => Head(queue) \in Jobs /\ Tail(queue) \in Seq(Jobs)
    BY <1>0, TailFacts DEF RedisOK
  <2>2. RedisOK' /\ RestOK' /\ StopsOK'
    <3>1. /\ UNCHANGED <<hash, reply, proc, execs, stops>>
          /\ UNCHANGED queue \/ (queue # <<>> /\ queue' = Tail(queue))
          /\ UNCHANGED faults \/ (faults < MaxFaults /\ faults' = faults + 1)
      BY <1>2
         DEF loop, Poll, LoopExit, Dequeue, DequeueTimeout, DequeueError,
             DequeueResend, Fault
    <3>2. RedisOK'
      BY <1>0, <2>1, <3>1 DEF RedisOK
    <3>3. RestOK' /\ StopsOK'
      BY <1>0, <3>1, JobQueueAssumption DEF RestOK, StopsOK
    <3> QED
      BY <3>2, <3>3
  <2>3. CASE Poll(w) \/ LoopExit(w)
    BY <1>0, <2>2, <2>3 DEF Poll, LoopExit, At, Goto, LocalOK, HeldJobs, Holding, PCs
  <2>4. CASE Dequeue(w)
    BY <1>0, <2>1, <2>2, <2>4, JobQueueAssumption
       DEF Dequeue, At, Goto, LocalOK, HeldJobs, Holding, PCs
  <2>5. CASE DequeueTimeout(w) \/ DequeueError(w)
    BY <1>0, <2>2, <2>5, ReturnType DEF DequeueTimeout, DequeueError
  <2>6. CASE DequeueResend(w)
    BY <1>0, <2>2, <2>6 DEF DequeueResend, LocalOK, HeldJobs
  <2> QED
    BY <1>2, <2>3, <2>4, <2>5, <2>6 DEF loop
<1>3. ASSUME NEW w \in Workers, process(w)
      PROVE  (RedisOK /\ LocalOK /\ RestOK /\ StopsOK)' /\ HeldJobs'
  <2>1. ProcOf[w] \in Procs /\ pc[w] \in Holding
    BY <1>3, JobQueueAssumption
       DEF process, Load, LoadError, SetRunning, SetRunningError,
           ExecuteReturns, ExecuteError, Finish, FinishError, At, Holding
  <2>2. job[w] \in Jobs /\ hash[job[w]] \in Hashes /\ outcome[w] \in Outcomes
    BY <1>0, <2>1 DEF LocalOK, HeldJobs, RedisOK
  <2>3. /\ Running(hash[job[w]]) \in Hashes
        /\ Finished(hash[job[w]], outcome[w]) \in Hashes
        /\ hash[job[w]].lang \in Langs \cup {NoLang}
    BY <2>2, HashTypes
  <2>4. RedisOK'
    BY <1>0, <1>3, <2>3
       DEF process, Load, LoadError, SetRunning, SetRunningError,
           ExecuteReturns, ExecuteError, Finish, FinishError, RedisOK
  <2>5. RestOK' /\ StopsOK'
    <3>1. UNCHANGED <<reply, proc, stops>>
      BY <1>3
         DEF process, Load, LoadError, SetRunning, SetRunningError,
             ExecuteReturns, ExecuteError, Finish, FinishError
    <3>2. UNCHANGED faults \/ (faults < MaxFaults /\ faults' = faults + 1)
      BY <1>3
         DEF process, Load, LoadError, SetRunning, SetRunningError,
             ExecuteReturns, ExecuteError, Finish, FinishError, Fault, Works,
             Cancelled
    <3>3. UNCHANGED execs \/ execs' = [execs EXCEPT ![job[w]] = @ + 1]
      BY <1>3
         DEF process, Load, LoadError, SetRunning, SetRunningError,
             ExecuteReturns, ExecuteError, Finish, FinishError
    <3> QED
      BY <1>0, <3>1, <3>2, <3>3, JobQueueAssumption DEF RestOK, StopsOK
  <2>6. LocalOK' /\ HeldJobs'
    <3>1. CASE Return(w)
      BY <1>0, <3>1, ReturnType
    <3>2. CASE Load(w)
      BY <1>0, <2>2, <2>3, <3>1, <3>2
         DEF Load, At, Goto, LocalOK, HeldJobs, Holding, PCs
    <3>3. CASE SetRunning(w)
      BY <1>0, <3>3
         DEF SetRunning, At, Goto, LocalOK, HeldJobs, Holding, PCs, Outcomes
    <3>4. ASSUME NEW o \in {"results", "compile_error", "agent_error"},
                 ExecuteReturns(w, o)
          PROVE  LocalOK' /\ HeldJobs'
      BY <1>0, <3>4
         DEF ExecuteReturns, At, Goto, LocalOK, HeldJobs, Holding, PCs, Outcomes
    <3>5. CASE ExecuteError(w)
      BY <1>0, <3>5
         DEF ExecuteError, At, Goto, LocalOK, HeldJobs, Holding, PCs, Outcomes,
             maxAttempts
    <3> QED
      BY <1>3, <3>1, <3>2, <3>3, <3>4, <3>5
         DEF process, LoadError, SetRunningError, Finish, FinishError
  <2> QED
    BY <2>4, <2>5, <2>6
<1>4. ASSUME NEW j \in Jobs, Expire(j)
      PROVE  (RedisOK /\ LocalOK /\ RestOK /\ StopsOK)' /\ HeldJobs'
  <2>1. NoHash \in Hashes
    BY <1>0, HashTypes DEF RedisOK
  <2> QED
    BY <1>0, <1>4, <2>1 DEF Expire, RedisOK, LocalOK, RestOK, StopsOK, HeldJobs
<1>5. ASSUME NEW p \in Procs, Signal(p) \/ Exit(p) \/ Crash(p) \/ Start(p)
      PROVE  (RedisOK /\ LocalOK /\ RestOK /\ StopsOK)' /\ HeldJobs'
  <2>1. RedisOK'
    BY <1>0, <1>5 DEF Signal, Exit, Crash, Start, RedisOK
  <2>2. RestOK'
    BY <1>0, <1>5 DEF Signal, Exit, Crash, Start, Vanish, RestOK
  <2>3. StopsOK'
    BY <1>0, <1>5, JobQueueAssumption DEF Signal, Exit, Crash, Start, StopsOK
  <2>4. CASE Signal(p)
    BY <1>0, <2>1, <2>2, <2>3, <2>4 DEF Signal, LocalOK, HeldJobs
  <2>5. CASE Vanish(p)
    BY <1>0, <2>1, <2>2, <2>3, <2>5
       DEF Vanish, LocalOK, HeldJobs, Holding, PCs, Outcomes
  <2>6. CASE Start(p)
    BY <1>0, <2>1, <2>2, <2>3, <2>6
       DEF Start, LocalOK, HeldJobs, Holding, PCs, DownOK
  <2> QED
    BY <1>5, <2>4, <2>5, <2>6 DEF Exit, Crash
<1>6. CASE UNCHANGED vars
  BY <1>0, <1>6 DEF vars, RedisOK, LocalOK, RestOK, StopsOK, HeldJobs
<1> QED
  BY <1>1, <1>2, <1>3, <1>4, <1>5, <1>6 DEF Next

\* Type correctness of the queue, for every instance.
THEOREM TypeCorrect == Spec => []TypeOK
<1>1. Init => TypeOK /\ HeldJobs /\ DownOK
  BY InitType
<1>2. TypeOK /\ HeldJobs /\ DownOK /\ [Next]_vars
        => (TypeOK /\ HeldJobs /\ DownOK)'
  BY StepType, StepDown
<1> QED
  BY <1>1, <1>2, PTL DEF Spec

-----------------------------------------------------------------------------
(***************************************************************************)
(* The inductive invariant.  SingleOwner alone is not inductive: that a    *)
(* job is never handed out twice rests on /exec pushing an id only when    *)
(* nobody knows it yet (Fresh), and what a worker writes to a hash is      *)
(* right because, as the only owner, it finds the hash as it left it       *)
(* (WorkerOK).                                                             *)
(***************************************************************************)

\* An id /exec has not answered for is unknown to Redis and to the workers.
Fresh ==
  \A j \in Jobs : reply[j] = 0 =>
    /\ hash[j] = NoHash
    /\ ~OnQueue(j)
    /\ execs[j] = 0
    /\ \A w \in Workers : job[w] # j

\* The ids on the list are of jobs nobody has worked on.
QueuedOK ==
  \A i \in 1..Len(queue) :
    hash[queue[i]].status = "queued" /\ execs[queue[i]] = 0

\* How the fields of one hash fit together.
HashFits(j) ==
  /\ hash[j].status = "absent" => hash[j] = NoHash
  /\ hash[j].status # "absent" => hash[j].lang \in Langs
  /\ hash[j].outcome = "none" <=> ~Terminal(hash[j].status)
  /\ hash[j].ttl => Terminal(hash[j].status)
  /\ Terminal(hash[j].status) /\ ResultTTL > 0 => hash[j].ttl

\* The attempts an outcome stands for.
Tries(o, n) ==
  /\ o = "vm_error" => n = 2
  /\ o \in {"results", "compile_error", "agent_error"} => n \in 1..2
  /\ o = "unknown_language" => n = 0

TriesFit(j) == execs[j] <= 2 /\ Tries(hash[j].outcome, execs[j])

\* What a worker may rely on about the job it holds.
WorkerFits(w) ==
  /\ pc[w] \in {"popped", "loaded"} =>
       hash[job[w]].status = "queued" /\ execs[job[w]] = 0
  /\ pc[w] = "exec" =>
       /\ hash[job[w]].status = "running"
       /\ execs[job[w]] = attempt[w]
       /\ attempt[w] \in 1..2
  /\ pc[w] = "finish" =>
       /\ hash[job[w]].status = "running"
       /\ outcome[w] # "none"
       /\ execs[job[w]] <= 2
       /\ Tries(outcome[w], execs[job[w]])

HashOK == \A j \in Jobs : HashFits(j)

TriesOK == \A j \in Jobs : TriesFit(j)

WorkerOK == \A w \in Workers : WorkerFits(w)

IInv ==
  /\ TypeOK /\ HeldJobs /\ DownOK
  /\ SingleOwner
  /\ Fresh /\ QueuedOK /\ HashOK /\ WorkerOK /\ TriesOK

LEMMA InitInv == ASSUME Init PROVE IInv
<1>1. TypeOK /\ HeldJobs /\ DownOK
  BY InitType
<1>2. Len(queue) = 0
  BY EmptySeq DEF Init
<1>3. SingleOwner /\ Fresh /\ QueuedOK
  BY <1>2, JobQueueAssumption
     DEF Init, SingleOwner, Fresh, QueuedOK, OnQueue, Holds
<1>4. HashOK /\ WorkerOK /\ TriesOK
  BY DEF Init, HashOK, WorkerOK, TriesOK, HashFits, WorkerFits, TriesFit, Tries,
         NoHash, Terminal
<1> QED
  BY <1>1, <1>3, <1>4 DEF IInv

-----------------------------------------------------------------------------
\* Ownership: what may happen to the list and to the ids workers hold.

\* Workers only let go of ids.
LEMMA OwnerKeep ==
  ASSUME SingleOwner, UNCHANGED queue, NoJob \notin Jobs,
         \A w \in Workers : job'[w] \in {job[w], NoJob}
  PROVE  SingleOwner'
BY DEF SingleOwner, OnQueue, Holds

\* A new id goes on the list.
LEMMA OwnerPush ==
  ASSUME SingleOwner, TypeOK, UNCHANGED job, NEW j \in Jobs,
         queue' = Append(queue, j), ~OnQueue(j), \A w \in Workers : job[w] # j
  PROVE  /\ SingleOwner'
         /\ \A k \in Jobs : OnQueue(k)' => OnQueue(k) \/ k = j
<1>1. /\ queue \in Seq(Jobs)
      /\ Len(queue) \in Nat
      /\ Len(queue') = Len(queue) + 1
      /\ \A i \in 1..Len(queue) : queue'[i] = queue[i]
      /\ queue'[Len(queue) + 1] = j
  BY AppendFacts, LenProperties DEF TypeOK
<1> QED
  BY <1>1 DEF SingleOwner, OnQueue, Holds

\* The head comes off the list, into the hands of worker w or of nobody.
LEMMA OwnerPop ==
  ASSUME SingleOwner, TypeOK, NEW w \in Workers, queue # <<>>,
         NoJob \notin Jobs, queue' = Tail(queue),
         \/ job' = [job EXCEPT ![w] = Head(queue)]
         \/ job' = [job EXCEPT ![w] = NoJob]
  PROVE  /\ SingleOwner'
         /\ \A k \in Jobs : OnQueue(k)' => OnQueue(k)
         /\ \A v \in Workers : \/ job'[v] = job[v]
                               \/ job'[v] = NoJob
                               \/ OnQueue(job'[v])
<1>1. /\ queue \in Seq(Jobs)
      /\ job \in [Workers -> Jobs \cup {NoJob}]
      /\ Len(queue) \in Nat
      /\ Head(queue) = queue[1] /\ Head(queue) \in Jobs
      /\ 1 \in 1..Len(queue)
      /\ Len(queue') = Len(queue) - 1
      /\ \A i \in 1..Len(queue') : i + 1 \in 1..Len(queue) /\ queue'[i] = queue[i + 1]
  BY TailFacts, LenProperties DEF TypeOK
<1>2. \A k \in Jobs : OnQueue(k)' => OnQueue(k)
  BY <1>1 DEF OnQueue
<1>3. \A k \in Jobs : k = Head(queue) => OnQueue(k) /\ ~OnQueue(k)'
  BY <1>1 DEF SingleOwner, OnQueue
<1>4. \A a, b \in 1..Len(queue') : queue'[a] = queue'[b] => a = b
  BY <1>1 DEF SingleOwner
<1>5. \A v \in Workers : v # w => job'[v] = job[v]
  BY <1>1
<1>6. job'[w] \in {Head(queue), NoJob}
  BY <1>1
<1>7. ASSUME NEW v \in Workers, NEW k \in Jobs, job'[v] = k
      PROVE  ~OnQueue(k)' /\ (v = w => k = Head(queue))
  BY <1>2, <1>3, <1>5, <1>6, <1>7 DEF SingleOwner, Holds
<1>8. ASSUME NEW u \in Workers, NEW v \in Workers, NEW k \in Jobs,
             job'[u] = k, job'[v] = k
      PROVE  u = v
  BY <1>1, <1>3, <1>5, <1>7, <1>8 DEF SingleOwner, Holds
<1>9. SingleOwner'
  BY <1>4, <1>7, <1>8 DEF SingleOwner, Holds
<1> QED
  BY <1>1, <1>2, <1>3, <1>5, <1>6, <1>9

-----------------------------------------------------------------------------
\* Data: who may disturb the invariant about a job.

DataOK == Fresh /\ QueuedOK /\ HashOK /\ WorkerOK /\ TriesOK

\* The only holder of a job writes to it; every other job and worker is as
\* it was.
LEMMA HolderStep ==
  ASSUME IInv, NEW w \in Workers, NEW j \in Jobs, job[w] = j,
         UNCHANGED <<queue, reply>>,
         \A k \in Jobs \ {j} : hash'[k] = hash[k] /\ execs'[k] = execs[k],
         \A v \in Workers \ {w} :
           /\ pc'[v] = pc[v] /\ job'[v] = job[v]
           /\ attempt'[v] = attempt[v] /\ outcome'[v] = outcome[v],
         job'[w] \in {j, NoJob},
         HashFits(j)', TriesFit(j)', WorkerFits(w)'
  PROVE  SingleOwner' /\ DataOK'
<1>1. SingleOwner'
  BY OwnerKeep, JobQueueAssumption DEF IInv
<1>2. reply[j] # 0 /\ ~OnQueue(j)
  BY DEF IInv, Fresh, SingleOwner, Holds
<1>3. Fresh'
  BY <1>2, JobQueueAssumption DEF IInv, Fresh, OnQueue
<1>4. QueuedOK'
  <2>1. \A i \in 1..Len(queue) : queue[i] \in Jobs \ {j}
    BY <1>2, ElementOfSeq DEF OnQueue, IInv, TypeOK
  <2> QED
    BY <2>1 DEF IInv, QueuedOK
<1>5. HashOK' /\ TriesOK'
  BY DEF IInv, HashOK, TriesOK, HashFits, TriesFit
<1>6. ASSUME NEW v \in Workers PROVE WorkerFits(v)'
  <2>1. CASE v = w
    BY <2>1
  <2>2. CASE v # w /\ pc[v] \in Holding
    <3>1. job[v] \in Jobs \ {j}
      BY <2>2 DEF IInv, HeldJobs, TypeOK, SingleOwner, Holds
    <3> QED
      BY <2>2, <3>1 DEF IInv, WorkerOK, WorkerFits
  <2>3. CASE v # w /\ pc[v] \notin Holding
    BY <2>3 DEF WorkerFits, Holding
  <2> QED
    BY <2>1, <2>2, <2>3
<1> QED
  BY <1>1, <1>3, <1>4, <1>5, <1>6 DEF DataOK, WorkerOK

\* Nothing is written: ids move from the list to workers, or are let go.
LEMMA QuietStep ==
  ASSUME IInv, UNCHANGED <<hash, execs, reply>>, queue' \in Seq(Jobs),
         \A k \in Jobs : OnQueue(k)' => OnQueue(k),
         \A v \in Workers : \/ job'[v] = job[v]
                            \/ job'[v] = NoJob
                            \/ OnQueue(job'[v]),
         \A v \in Workers : WorkerFits(v)'
  PROVE  DataOK'
<1>1. Fresh'
  BY JobQueueAssumption DEF IInv, Fresh
<1>2. QueuedOK'
  <2>1. ASSUME NEW i \in 1..Len(queue') PROVE OnQueue(queue'[i])
    <3>1. queue'[i] \in Jobs
      BY ElementOfSeq
    <3>2. \A k \in Jobs : k = queue'[i] => OnQueue(k)'
      BY DEF OnQueue
    <3> QED
      BY <3>1, <3>2
  <2> QED
    BY <2>1 DEF IInv, QueuedOK, OnQueue
<1>3. HashOK' /\ TriesOK'
  BY DEF IInv, HashOK, TriesOK, HashFits, TriesFit
<1> QED
  BY <1>1, <1>2, <1>3 DEF DataOK, WorkerOK

\* What each command leaves in a hash, field by field.
LEMMA HashFields ==
  ASSUME NEW h \in Hashes, NEW l \in Langs, NEW o \in Outcomes
  PROVE  /\ Queued(h, l).status = "queued" /\ Queued(h, l).lang = l
         /\ Queued(h, l).outcome = h.outcome /\ Queued(h, l).ttl = h.ttl
         /\ Running(h).status = "running" /\ Running(h).lang = h.lang
         /\ Running(h).outcome = h.outcome /\ Running(h).ttl = h.ttl
         /\ Finished(h, o).status = StatusFor(o)
         /\ Finished(h, o).lang = h.lang /\ Finished(h, o).outcome = o
         /\ Finished(h, o).ttl <=> (h.ttl \/ ResultTTL > 0)
         /\ StatusFor(o) \in {"done", "failed"}
         /\ NoHash.status = "absent" /\ NoHash.outcome = "none" /\ ~NoHash.ttl
BY DEF Hashes, Queued, Running, Finished, NoHash, Terminal, StatusFor

LEMMA ExecStep ==
  ASSUME IInv, TypeOK', NEW p \in Procs, NEW j \in Jobs, NEW r \in Requests,
         exec(p, j, r)
  PROVE  SingleOwner' /\ DataOK'
<1> USE DEF redis, local
<1>1. /\ reply[j] = 0
      /\ UNCHANGED <<pc, job, lang, attempt, outcome, execs>>
      /\ \E n \in {202, 400, 413, 500} : reply' = [reply EXCEPT ![j] = n]
  <2>1. validate(p, r) \in {202, 400, 413}
    BY DEF validate
  <2> QED
    BY <2>1 DEF exec, ExecReject, ExecAccept, ExecError
<1>2. /\ \A k \in Jobs : k # j => reply'[k] = reply[k]
      /\ reply'[j] # 0
  BY <1>1 DEF IInv, TypeOK
<1>3. CASE UNCHANGED redis
  BY <1>1, <1>2, <1>3
     DEF IInv, DataOK, SingleOwner, OnQueue, Holds, Fresh, QueuedOK, HashOK,
         HashFits, TriesOK, TriesFit, WorkerOK, WorkerFits
<1>4. CASE Enqueue(j, r.lang)
  <2>1. hash[j] = NoHash /\ ~OnQueue(j) /\ execs[j] = 0 /\ \A w \in Workers : job[w] # j
    BY <1>1 DEF IInv, Fresh
  <2>2. SingleOwner' /\ \A k \in Jobs : OnQueue(k)' => OnQueue(k) \/ k = j
    BY <1>1, <1>4, <2>1, OwnerPush DEF IInv, Enqueue
  <2>3. /\ r.lang \in Langs
        /\ hash \in [Jobs -> Hashes]
        /\ hash'[j] = Queued(hash[j], r.lang)
        /\ \A k \in Jobs \ {j} : hash'[k] = hash[k]
    BY <1>4 DEF Enqueue, IInv, TypeOK, Requests
  <2>4. /\ hash'[j].status = "queued" /\ hash'[j].lang \in Langs
        /\ hash'[j].outcome = "none" /\ ~hash'[j].ttl
    BY <2>1, <2>3, HashFields DEF Outcomes
  <2>5. Fresh'
    BY <1>1, <1>2, <2>2, <2>3 DEF IInv, Fresh
  <2>6. QueuedOK'
    <3>1. ASSUME NEW i \in 1..Len(queue')
          PROVE  queue'[i] \in Jobs /\ (OnQueue(queue'[i]) \/ queue'[i] = j)
      <4>1. queue'[i] \in Jobs
        BY ElementOfSeq DEF TypeOK
      <4>2. \A k \in Jobs : k = queue'[i] => OnQueue(k)'
        BY DEF OnQueue
      <4> QED
        BY <2>2, <4>1, <4>2
    <3> QED
      BY <1>1, <2>1, <2>3, <2>4, <3>1 DEF IInv, QueuedOK, OnQueue
  <2>7. HashOK' /\ TriesOK'
    BY <1>1, <2>1, <2>3, <2>4
       DEF IInv, HashOK, HashFits, TriesOK, TriesFit, Tries, Terminal
  <2>8. ASSUME NEW w \in Workers PROVE WorkerFits(w)'
    <3>1. pc[w] \in Holding => job[w] \in Jobs \ {j}
      BY <2>1 DEF IInv, HeldJobs, TypeOK
    <3> QED
      BY <1>1, <2>3, <3>1 DEF IInv, WorkerOK, WorkerFits, Holding
  <2> QED
    BY <2>2, <2>5, <2>6, <2>7, <2>8 DEF DataOK, WorkerOK
<1> QED
  BY <1>3, <1>4 DEF exec, ExecReject, ExecAccept, ExecError

LEMMA LoopStep ==
  ASSUME IInv, TypeOK', NEW w \in Workers, loop(w)
  PROVE  SingleOwner' /\ DataOK'
<1> USE DEF redis, local
<1>1. /\ UNCHANGED <<hash, execs, reply>>
      /\ pc[w] \in {"idle", "popping"} /\ job[w] = NoJob
  BY DEF loop, Poll, LoopExit, Dequeue, DequeueTimeout, DequeueError,
         DequeueResend, At, IInv, HeldJobs, Holding
<1>2. \A v \in Workers \ {w} : WorkerFits(v)'
  <2>1. \A v \in Workers \ {w} :
          /\ pc'[v] = pc[v] /\ job'[v] = job[v]
          /\ attempt'[v] = attempt[v] /\ outcome'[v] = outcome[v]
    BY SMTT(30) DEF loop, Poll, LoopExit, Dequeue, DequeueTimeout, DequeueError,
           DequeueResend, Goto, Return, IInv, TypeOK
  <2> QED
    BY <1>1, <2>1 DEF IInv, WorkerOK, WorkerFits
<1>3. CASE Poll(w) \/ LoopExit(w)
  <2>1. UNCHANGED <<queue, job>> /\ pc'[w] \in {"popping", "exited"}
    BY <1>3 DEF Poll, LoopExit, Goto, IInv, TypeOK
  <2>2. WorkerFits(w)'
    BY <2>1 DEF WorkerFits
  <2>3. SingleOwner'
    BY <2>1, OwnerKeep, JobQueueAssumption DEF IInv
  <2> QED
    BY <1>1, <1>2, <2>1, <2>2, <2>3, QuietStep DEF OnQueue, TypeOK
<1>4. CASE Dequeue(w)
  <2>1. /\ queue # <<>> /\ queue' = Tail(queue)
        /\ job' = [job EXCEPT ![w] = Head(queue)]
        /\ pc'[w] = "popped" /\ job'[w] = Head(queue)
    BY <1>4 DEF Dequeue, Goto, IInv, TypeOK
  <2>2. Head(queue) = queue[1] /\ 1 \in 1..Len(queue)
    BY <2>1, TailFacts DEF IInv, TypeOK
  <2>3. WorkerFits(w)'
    BY <1>1, <2>1, <2>2 DEF WorkerFits, IInv, QueuedOK
  <2>4. /\ SingleOwner'
        /\ \A k \in Jobs : OnQueue(k)' => OnQueue(k)
        /\ \A v \in Workers : \/ job'[v] = job[v]
                              \/ job'[v] = NoJob
                              \/ OnQueue(job'[v])
    BY <2>1, OwnerPop, JobQueueAssumption DEF IInv
  <2> QED
    BY <1>1, <1>2, <2>3, <2>4, QuietStep DEF TypeOK
<1>5. CASE DequeueTimeout(w) \/ DequeueError(w) \/ DequeueResend(w)
  <2>1. /\ pc'[w] \in {"idle", "popping"} /\ job' = [job EXCEPT ![w] = NoJob]
        /\ UNCHANGED queue \/ (queue # <<>> /\ queue' = Tail(queue))
    <3>1. CASE DequeueTimeout(w) \/ DequeueError(w)
      BY <3>1 DEF DequeueTimeout, DequeueError, Return, Goto, IInv, TypeOK
    <3>2. CASE DequeueResend(w)
      BY <1>1, <3>2 DEF DequeueResend, At, IInv, TypeOK
    <3> QED
      BY <1>5, <3>1, <3>2
  <2>2. WorkerFits(w)'
    BY <2>1 DEF WorkerFits
  <2>3. CASE UNCHANGED queue
    <3>1. \A v \in Workers : job'[v] \in {job[v], NoJob}
      BY <2>1 DEF IInv, TypeOK
    <3>2. SingleOwner'
      BY <2>3, <3>1, OwnerKeep, JobQueueAssumption DEF IInv
    <3> QED
      BY <1>1, <1>2, <2>2, <2>3, <3>1, <3>2, QuietStep DEF OnQueue, TypeOK
  <2>4. CASE queue # <<>> /\ queue' = Tail(queue)
    <3>1. /\ SingleOwner'
          /\ \A k \in Jobs : OnQueue(k)' => OnQueue(k)
          /\ \A v \in Workers : \/ job'[v] = job[v]
                                \/ job'[v] = NoJob
                                \/ OnQueue(job'[v])
      BY <2>1, <2>4, OwnerPop, JobQueueAssumption DEF IInv
    <3> QED
      BY <1>1, <1>2, <2>2, <3>1, QuietStep DEF TypeOK
  <2> QED
    BY <2>1, <2>3, <2>4
<1> QED
  BY <1>3, <1>4, <1>5 DEF loop

LEMMA ProcessStep ==
  ASSUME IInv, TypeOK', NEW w \in Workers, process(w)
  PROVE  SingleOwner' /\ DataOK'
<1> USE DEF redis
<1> DEFINE j == job[w]
<1>1. pc[w] \in Holding
  BY DEF process, Load, LoadError, SetRunning, SetRunningError, ExecuteReturns,
         ExecuteError, Finish, FinishError, At, Holding
<1>2. /\ j \in Jobs /\ j # NoJob
      /\ hash[j] \in Hashes /\ outcome[w] \in Outcomes /\ execs[j] \in Nat
      /\ HashFits(j) /\ TriesFit(j) /\ WorkerFits(w)
  BY <1>1, JobQueueAssumption
     DEF IInv, HeldJobs, TypeOK, HashOK, TriesOK, WorkerOK
<1>3. /\ UNCHANGED <<queue, reply>>
      /\ \A v \in Workers \ {w} :
           /\ pc'[v] = pc[v] /\ job'[v] = job[v]
           /\ attempt'[v] = attempt[v] /\ outcome'[v] = outcome[v]
      /\ job'[w] \in {j, NoJob}
  <2>1. UNCHANGED <<queue, reply>>
    BY DEF process, Load, LoadError, SetRunning, SetRunningError, ExecuteReturns,
           ExecuteError, Finish, FinishError, Return, Goto
  <2>2. UNCHANGED pc \/ \E x : pc' = [pc EXCEPT ![w] = x]
    BY DEF process, Load, LoadError, SetRunning, SetRunningError, ExecuteReturns,
           ExecuteError, Finish, FinishError, Return, Goto
  <2>3. UNCHANGED job \/ job' = [job EXCEPT ![w] = NoJob]
    BY DEF process, Load, LoadError, SetRunning, SetRunningError, ExecuteReturns,
           ExecuteError, Finish, FinishError, Return, Goto
  <2>4. UNCHANGED attempt \/ \E x : attempt' = [attempt EXCEPT ![w] = x]
    BY DEF process, Load, LoadError, SetRunning, SetRunningError, ExecuteReturns,
           ExecuteError, Finish, FinishError, Return, Goto
  <2>5. UNCHANGED outcome \/ \E x : outcome' = [outcome EXCEPT ![w] = x]
    BY DEF process, Load, LoadError, SetRunning, SetRunningError, ExecuteReturns,
           ExecuteError, Finish, FinishError, Return, Goto
  <2> QED
    BY <2>1, <2>2, <2>3, <2>4, <2>5 DEF IInv, TypeOK
<1>4. \A k \in Jobs \ {j} : hash'[k] = hash[k] /\ execs'[k] = execs[k]
  <2>1. UNCHANGED hash \/ \E h : hash' = [hash EXCEPT ![j] = h]
    BY DEF process, Load, LoadError, SetRunning, SetRunningError, ExecuteReturns,
           ExecuteError, Finish, FinishError
  <2>2. UNCHANGED execs \/ \E n : execs' = [execs EXCEPT ![j] = n]
    BY DEF process, Load, LoadError, SetRunning, SetRunningError, ExecuteReturns,
           ExecuteError, Finish, FinishError
  <2> QED
    BY <2>1, <2>2 DEF IInv, TypeOK
<1>5. Return(w) => pc'[w] = "idle"
  BY DEF Return, Goto, IInv, TypeOK
<1>6. ASSUME NEW k \in Jobs, k = j
      PROVE  HashFits(k)' /\ TriesFit(k)' /\ WorkerFits(w)'
  <2>1. ASSUME pc'[w] \notin Holding PROVE WorkerFits(w)'
    BY <2>1 DEF WorkerFits, Holding
  <2>2. ASSUME UNCHANGED <<hash, execs>> PROVE HashFits(k)' /\ TriesFit(k)'
    BY <1>2, <1>6, <2>2 DEF HashFits, TriesFit
  <2>3. ASSUME hash'[k] = Running(hash[k]), hash[k].status = "queued",
               execs'[k] = 0 \/ execs'[k] = 1
        PROVE  HashFits(k)' /\ TriesFit(k)' /\ hash'[k].status = "running"
    BY <1>2, <1>6, <2>3, HashFields
       DEF HashFits, TriesFit, Tries, Terminal, Hashes
  <2>4. ASSUME hash' = [hash EXCEPT ![j] = Finished(@, outcome[w])],
               UNCHANGED execs, pc[w] = "finish"
        PROVE  HashFits(k)' /\ TriesFit(k)'
    <3>1. hash'[k] = Finished(hash[k], outcome[w]) /\ hash[k].status = "running"
      BY <1>2, <1>6, <2>4 DEF IInv, TypeOK, WorkerFits
    <3> QED
      BY <1>2, <1>6, <2>4, <3>1, HashFields
         DEF HashFits, TriesFit, WorkerFits, Terminal
  <2>5. CASE Load(w)
    <3>1. UNCHANGED <<hash, execs>> /\ hash[j].status = "queued" /\ execs[j] = 0
      BY <1>2, <2>5 DEF Load, At, WorkerFits
    <3>2. pc'[w] = "loaded" /\ job'[w] = j
      BY <2>5, <3>1 DEF Load, Goto, IInv, TypeOK
    <3> QED
      BY <2>2, <3>1, <3>2 DEF WorkerFits
  <2>6. CASE LoadError(w)
    BY <1>5, <2>1, <2>2, <2>6 DEF LoadError, Holding
  <2>7. CASE SetRunning(w)
    <3>1. /\ hash'[k] = Running(hash[k]) /\ hash[k].status = "queued"
          /\ execs[k] = 0 /\ job'[w] = k
      BY <1>2, <1>6, <2>7 DEF SetRunning, At, WorkerFits, IInv, TypeOK
    <3>2. \/ pc'[w] = "exec" /\ attempt'[w] = 1 /\ execs'[k] = 1
          \/ pc'[w] = "finish" /\ outcome'[w] = "unknown_language" /\ execs'[k] = 0
      BY <1>2, <1>6, <2>7, <3>1 DEF SetRunning, Goto, IInv, TypeOK
    <3> QED
      BY <2>3, <3>1, <3>2 DEF WorkerFits, Tries
  <2>8. CASE SetRunningError(w)
    <3>1. /\ pc'[w] = "idle" /\ UNCHANGED execs
          /\ hash[k].status = "queued" /\ execs[k] = 0
      BY <1>2, <1>5, <1>6, <2>8 DEF SetRunningError, At, WorkerFits
    <3>2. UNCHANGED hash \/ hash'[k] = Running(hash[k])
      BY <1>2, <1>6, <2>8 DEF SetRunningError, IInv, TypeOK
    <3> QED
      BY <2>1, <2>2, <2>3, <3>1, <3>2 DEF Holding
  <2>9. ASSUME NEW o \in {"results", "compile_error", "agent_error"},
               ExecuteReturns(w, o)
        PROVE  HashFits(k)' /\ TriesFit(k)' /\ WorkerFits(w)'
    <3>1. /\ UNCHANGED <<hash, execs>> /\ job'[w] = j
          /\ pc[w] = "exec" /\ pc'[w] = "finish" /\ outcome'[w] = o
      BY <2>9 DEF ExecuteReturns, At, Goto, IInv, TypeOK
    <3> QED
      BY <1>2, <2>2, <3>1 DEF WorkerFits, Tries
  <2>10. CASE ExecuteError(w)
    <3>1. /\ UNCHANGED hash /\ job'[w] = k /\ pc[w] = "exec"
          /\ hash[k].status = "running" /\ execs[k] = attempt[w]
          /\ attempt[w] \in 1..2
      BY <1>2, <1>6, <2>10 DEF ExecuteError, At, WorkerFits
    <3>2. \/ /\ pc'[w] = "exec" /\ attempt[w] = 1
             /\ attempt'[w] = 2 /\ execs'[k] = 2
          \/ /\ pc'[w] = "finish" /\ attempt[w] = 2
             /\ outcome'[w] = "vm_error" /\ execs'[k] = 2
      BY <1>2, <1>6, <2>10, <3>1
         DEF ExecuteError, Goto, maxAttempts, IInv, TypeOK
    <3>3. hash'[k].outcome = "none" /\ HashFits(k)'
      BY <1>2, <1>6, <3>1 DEF HashFits, Terminal
    <3> QED
      BY <3>1, <3>2, <3>3 DEF TriesFit, WorkerFits, Tries
  <2>11. CASE Finish(w)
    BY <1>5, <2>1, <2>4, <2>11 DEF Finish, At, Holding
  <2>12. CASE FinishError(w)
    BY <1>5, <2>1, <2>2, <2>4, <2>12 DEF FinishError, At, Holding
  <2> QED
    BY <2>5, <2>6, <2>7, <2>8, <2>9, <2>10, <2>11, <2>12 DEF process
<1> QED
  BY <1>2, <1>3, <1>4, <1>6, HolderStep

LEMMA ExpireStep ==
  ASSUME IInv, TypeOK', NEW j \in Jobs, Expire(j)
  PROVE  SingleOwner' /\ DataOK'
<1> USE DEF local
<1>1. /\ hash[j].ttl /\ hash' = [hash EXCEPT ![j] = NoHash]
      /\ UNCHANGED <<queue, reply, pc, job, lang, attempt, outcome, execs>>
  BY DEF Expire
<1>2. Terminal(hash[j].status)
  BY <1>1 DEF IInv, HashOK, HashFits
<1>3. hash'[j] = NoHash /\ \A k \in Jobs \ {j} : hash'[k] = hash[k]
  BY <1>1 DEF IInv, TypeOK
<1>4. SingleOwner'
  BY <1>1, OwnerKeep, JobQueueAssumption DEF IInv
<1>5. Fresh'
  BY <1>1, <1>3 DEF IInv, Fresh, OnQueue
<1>6. QueuedOK'
  <2>1. \A i \in 1..Len(queue) : queue[i] \in Jobs \ {j}
    BY <1>2, ElementOfSeq DEF IInv, TypeOK, QueuedOK, Terminal
  <2> QED
    BY <1>1, <1>3, <2>1 DEF IInv, QueuedOK
<1>7. ASSUME NEW k \in Jobs PROVE HashFits(k)' /\ TriesFit(k)'
  <2>1. execs[k] <= 2 /\ HashFits(k) /\ TriesFit(k)
    BY DEF IInv, HashOK, TriesOK, TriesFit
  <2>2. NoHash.status = "absent" /\ NoHash.outcome = "none" /\ ~NoHash.ttl
    BY DEF NoHash
  <2>3. CASE k = j
    BY <1>1, <1>3, <2>1, <2>2, <2>3 DEF HashFits, TriesFit, Tries, Terminal
  <2>4. CASE k # j
    BY <1>1, <1>3, <2>1, <2>4 DEF HashFits, TriesFit
  <2> QED
    BY <2>3, <2>4
<1>8. ASSUME NEW w \in Workers PROVE WorkerFits(w)'
  <2>1. pc[w] \in Holding => job[w] \in Jobs \ {j}
    BY <1>2 DEF IInv, HeldJobs, TypeOK, WorkerOK, WorkerFits, Holding, Terminal
  <2> QED
    BY <1>1, <1>3, <2>1 DEF IInv, WorkerOK, WorkerFits, Holding
<1> QED
  BY <1>4, <1>5, <1>6, <1>7, <1>8 DEF DataOK, WorkerOK, HashOK, TriesOK

LEMMA ProcStep ==
  ASSUME IInv, TypeOK', NEW p \in Procs,
         Signal(p) \/ Exit(p) \/ Crash(p) \/ Start(p)
  PROVE  SingleOwner' /\ DataOK'
<1> USE DEF redis, local
<1>1. UNCHANGED <<queue, hash, reply, execs>>
  BY DEF Signal, Exit, Crash, Start
<1>2. ASSUME NEW w \in Workers
      PROVE  job'[w] \in {job[w], NoJob} /\ WorkerFits(w)'
  <2>1. CASE UNCHANGED <<pc, job, attempt, outcome>>
    BY <1>1, <2>1 DEF IInv, WorkerOK, WorkerFits
  <2>2. CASE Vanish(p)
    <3>1. \/ pc'[w] = "exited" /\ job'[w] = NoJob
          \/ /\ pc'[w] = pc[w] /\ job'[w] = job[w]
             /\ attempt'[w] = attempt[w] /\ outcome'[w] = outcome[w]
      BY <2>2 DEF Vanish
    <3> QED
      BY <1>1, <3>1 DEF IInv, WorkerOK, WorkerFits
  <2>3. CASE Start(p)
    <3>1. /\ pc'[w] \in {"idle", pc[w]}
          /\ UNCHANGED <<job, attempt, outcome>>
      BY <2>3 DEF Start
    <3> QED
      BY <1>1, <3>1 DEF IInv, WorkerOK, WorkerFits
  <2> QED
    BY <2>1, <2>2, <2>3 DEF Signal, Exit, Crash
<1>3. SingleOwner'
  BY <1>1, <1>2, OwnerKeep, JobQueueAssumption DEF IInv
<1> QED
  BY <1>1, <1>2, <1>3, QuietStep DEF OnQueue, TypeOK

LEMMA StepInv == ASSUME IInv, [Next]_vars PROVE IInv'
<1>1. (TypeOK /\ HeldJobs /\ DownOK)'
  BY StepType, StepDown DEF IInv
<1>2. SingleOwner' /\ DataOK'
  <2>1. CASE Next
    BY <1>1, <2>1, ExecStep, LoopStep, ProcessStep, ExpireStep, ProcStep DEF Next
  <2>2. CASE UNCHANGED vars
    BY <2>2 DEF vars, IInv, DataOK, SingleOwner, OnQueue, Holds, Fresh, QueuedOK,
                HashOK, HashFits, TriesOK, TriesFit, WorkerOK, WorkerFits
  <2> QED
    BY <2>1, <2>2
<1> QED
  BY <1>1, <1>2 DEF IInv, DataOK

LEMMA Inductive == Spec => []IInv
<1>1. Init => IInv
  BY InitInv
<1>2. IInv /\ [Next]_vars => IInv'
  BY StepInv
<1> QED
  BY <1>1, <1>2, PTL DEF Spec

-----------------------------------------------------------------------------
\* A job id is on the list once or with one worker, in every behaviour.
THEOREM OwnedOnce == Spec => []SingleOwner
<1>1. IInv => SingleOwner
  BY DEF IInv
<1> QED
  BY <1>1, Inductive, PTL

\* Exactly the finished jobs carry a TTL.
THEOREM TTLCorrect == Spec => []TTLIffTerminal
<1>1. IInv => TTLIffTerminal
  BY DEF IInv, HashOK, HashFits, TTLIffTerminal, TypeOK, Hashes
<1> QED
  BY <1>1, Inductive, PTL

\* No command ever writes to a hash that is not there.
THEOREM HashesWhole == Spec => []HashesAreWhole
<1>1. IInv => HashesAreWhole
  BY JobQueueAssumption DEF IInv, HashOK, HashFits, HashesAreWhole
<1> QED
  BY <1>1, Inductive, PTL

\* User code is given to the Executor at most twice, and the outcome a client
\* reads tells how often.
THEOREM RetriedOnce == Spec => []SingleRetry
<1>1. IInv => SingleRetry
  BY DEF IInv, TriesOK, TriesFit, Tries, SingleRetry
<1> QED
  BY <1>1, Inductive, PTL

\* The ways a step can change what a client sees, all about one job.
Answered(j) ==
  /\ reply[j] = 0 /\ UNCHANGED hash
  /\ \E n \in {400, 413, 500} : reply' = [reply EXCEPT ![j] = n]

Pushed(j) ==
  /\ reply[j] = 0 /\ hash[j] = NoHash
  /\ \E l \in Langs : hash' = [hash EXCEPT ![j] = Queued(hash[j], l)]
  /\ \E n \in {202, 500} : reply' = [reply EXCEPT ![j] = n]

Begun(j) ==
  /\ hash[j].status = "queued" /\ hash' = [hash EXCEPT ![j] = Running(hash[j])]
  /\ UNCHANGED reply

Ended(j) ==
  /\ hash[j].status = "running"
  /\ \E o \in Outcomes \ {"none"} : hash' = [hash EXCEPT ![j] = Finished(hash[j], o)]
  /\ UNCHANGED reply

Expired(j) ==
  /\ Terminal(hash[j].status) /\ hash' = [hash EXCEPT ![j] = NoHash]
  /\ UNCHANGED reply

LEMMA ClientSteps ==
  ASSUME IInv, [Next]_vars
  PROVE  \/ UNCHANGED <<hash, reply>>
         \/ \E j \in Jobs : \/ Answered(j) \/ Pushed(j) \/ Begun(j) \/ Ended(j)
                            \/ Expired(j)
<1> USE DEF redis
<1>1. hash \in [Jobs -> Hashes]
  BY DEF IInv, TypeOK
<1>2. ASSUME NEW p \in Procs, NEW j \in Jobs, NEW r \in Requests, exec(p, j, r)
      PROVE  Answered(j) \/ Pushed(j)
  <2>1. reply[j] = 0 /\ r.lang \in Langs /\ hash[j] = NoHash
    BY <1>2 DEF exec, ExecReject, ExecAccept, ExecError, Requests, IInv, Fresh
  <2>2. CASE ExecReject(p, j, r)
    <3>1. validate(p, r) # 202 => validate(p, r) \in {400, 413}
      BY DEF validate
    <3>2. UNCHANGED hash
      BY <2>2 DEF ExecReject
    <3>3. \E n \in {400, 413, 500} : reply' = [reply EXCEPT ![j] = n]
      <4>1. validate(p, r) \in {400, 413}
        BY <2>2, <3>1 DEF ExecReject
      <4>2. reply' = [reply EXCEPT ![j] = validate(p, r)]
        BY <2>2 DEF ExecReject
      <4>3. CASE validate(p, r) = 400
        BY <4>2, <4>3
      <4>4. CASE validate(p, r) = 413
        BY <4>2, <4>4
      <4> QED
        BY <4>1, <4>3, <4>4
    <3> QED
      BY <2>1, <3>2, <3>3 DEF Answered
  <2>3. ASSUME Enqueue(j, r.lang)
        PROVE  \E l \in Langs : hash' = [hash EXCEPT ![j] = Queued(hash[j], l)]
    BY <2>1, <2>3 DEF Enqueue
  <2>4. CASE ExecAccept(p, j, r)
    <3>1. reply' = [reply EXCEPT ![j] = 202] /\ Enqueue(j, r.lang)
      BY <2>4 DEF ExecAccept
    <3> QED
      BY <2>1, <2>3, <3>1 DEF Pushed
  <2>5. CASE ExecError(p, j, r)
    <3>1. /\ reply' = [reply EXCEPT ![j] = 500]
          /\ Enqueue(j, r.lang) \/ UNCHANGED hash
      BY <2>5 DEF ExecError
    <3> QED
      BY <2>1, <2>3, <3>1 DEF Pushed, Answered
  <2> QED
    BY <1>2, <2>2, <2>4, <2>5 DEF exec
<1>3. ASSUME NEW w \in Workers, process(w), ~UNCHANGED <<hash, reply>>
      PROVE  Begun(job[w]) \/ Ended(job[w])
  <2>1. \/ pc[w] = "loaded" /\ hash' = [hash EXCEPT ![job[w]] = Running(hash[job[w]])]
        \/ /\ pc[w] = "finish"
           /\ hash' = [hash EXCEPT ![job[w]] = Finished(hash[job[w]], outcome[w])]
    BY <1>3 DEF process, Load, LoadError, SetRunning, SetRunningError,
                ExecuteReturns, ExecuteError, Finish, FinishError, At
  <2>2. outcome[w] \in Outcomes /\ WorkerFits(w) /\ UNCHANGED reply
    BY <1>3 DEF IInv, WorkerOK, TypeOK, process, Load, LoadError, SetRunning,
                SetRunningError, ExecuteReturns, ExecuteError, Finish, FinishError
  <2> QED
    BY <2>1, <2>2 DEF WorkerFits, Begun, Ended
<1>4. ASSUME NEW w \in Workers, process(w), job[w] \notin Jobs PROVE FALSE
  <2>1. pc[w] \in Holding
    BY <1>4 DEF process, Load, LoadError, SetRunning, SetRunningError,
                ExecuteReturns, ExecuteError, Finish, FinishError, At, Holding
  <2> QED
    BY <1>4, <2>1 DEF IInv, HeldJobs, TypeOK
<1>5. ASSUME NEW j \in Jobs, Expire(j) PROVE Expired(j)
  BY <1>1, <1>5 DEF Expire, Expired, IInv, HashOK, HashFits
<1>6. ASSUME NEW w \in Workers, loop(w) PROVE UNCHANGED <<hash, reply>>
  BY <1>6 DEF loop, Poll, LoopExit, Dequeue, DequeueTimeout, DequeueError,
              DequeueResend
<1>7. ASSUME NEW p \in Procs, Signal(p) \/ Exit(p) \/ Crash(p) \/ Start(p)
      PROVE  UNCHANGED <<hash, reply>>
  BY <1>7 DEF Signal, Exit, Crash, Start
<1> QED
  BY <1>2, <1>3, <1>4, <1>5, <1>6, <1>7 DEF Next, vars

\* What GET /status answers for the hashes of JobLifecycle's statuses.
LEMMA Views ==
  ASSUME NEW h \in Hashes
  PROVE  /\ Seen(NoHash) = Lifecycle!Absent
         /\ h.status = "queued" /\ h.outcome = "none" => Seen(h) = Lifecycle!Queued
         /\ h.status = "running" /\ h.outcome = "none" => Seen(h) = Lifecycle!Running
         /\ Terminal(h.status) => Seen(h).status \in {"done", "failed"}
<1>1. Seen(NoHash) = Lifecycle!Absent
  BY DEF Seen, NoHash, Lifecycle!Absent
<1> QED
  BY <1>1 DEF Seen, Terminal, Lifecycle!Queued, Lifecycle!Running

LEMMA AnswerView ==
  ASSUME NEW h \in Hashes, NEW o \in Outcomes \ {"none"}
  PROVE  Seen(Finished(h, o)) \in Lifecycle!Answers
BY DEF Seen, Finished, StatusFor, Outcomes, Lifecycle!Answers

\* A step that writes one hash changes what the client sees of that job only.
LEMMA OneView ==
  ASSUME NEW j \in Jobs, NEW h, hash \in [Jobs -> Hashes],
         hash' = [hash EXCEPT ![j] = h]
  PROVE  [k \in Jobs |-> status(k)]'
           = [[k \in Jobs |-> status(k)] EXCEPT ![j] = Seen(h)]
BY DEF status

\* What a client sees of its jobs is a behaviour of JobLifecycle, for every
\* number of processes, workers and jobs and whatever fails: the statuses of
\* /exec and /status stay consistent with one life of the job.
THEOREM ImplementsLifecycle == Spec => KeepsLifecycle
<1>1. Init => Lifecycle!Init
  BY DEF Init, Lifecycle!Init, Lifecycle!Absent, status, Seen, NoHash
<1>2. ASSUME IInv, [Next]_vars PROVE [Lifecycle!Next]_(Lifecycle!vars)
  <2>0. hash \in [Jobs -> Hashes] /\ \A j \in Jobs : hash[j] \in Hashes /\ HashFits(j)
    BY <1>2 DEF IInv, TypeOK, HashOK
  <2>1. CASE UNCHANGED <<hash, reply>>
    BY <2>1 DEF Lifecycle!vars, status
  <2>2. ASSUME NEW j \in Jobs, Answered(j) PROVE Lifecycle!Reject(j)
    <3>1. UNCHANGED [k \in Jobs |-> status(k)]
      BY <2>2 DEF Answered, status
    <3> QED
      BY <2>2, <3>1 DEF Answered, Lifecycle!Reject, Lifecycle!Say
  <2>3. ASSUME NEW j \in Jobs, Pushed(j) PROVE Lifecycle!Accept(j)
    <3>1. PICK l \in Langs : hash' = [hash EXCEPT ![j] = Queued(hash[j], l)]
      BY <2>3 DEF Pushed
    <3>2. Seen(Queued(hash[j], l)) = Lifecycle!Queued
      BY <2>3 DEF Pushed, Queued, NoHash, Seen, Lifecycle!Queued
    <3>3. status(j) = Lifecycle!Absent
      BY <2>0, <2>3, Views DEF Pushed, status
    <3>4. \E n \in {202, 500} : Lifecycle!Say(j, n)
      BY <2>3 DEF Pushed, Lifecycle!Say
    <3>5. Lifecycle!See(j, Lifecycle!Queued)
      BY <2>0, <3>1, <3>2, OneView DEF Lifecycle!See
    <3> QED
      BY <2>3, <3>3, <3>4, <3>5 DEF Pushed, Lifecycle!Accept
  <2>4. ASSUME NEW j \in Jobs, Begun(j) PROVE Lifecycle!Begin(j)
    <3>1. Seen(Running(hash[j])) = Lifecycle!Running
      BY <2>0, <2>4 DEF Begun, HashFits, Terminal, Running, Seen, Lifecycle!Running
    <3>2. status(j) = Lifecycle!Queued
      BY <2>0, <2>4, Views DEF Begun, HashFits, Terminal, status
    <3> QED
      BY <2>0, <2>4, <3>1, <3>2, OneView DEF Begun, Lifecycle!Begin, Lifecycle!See
  <2>5. ASSUME NEW j \in Jobs, Ended(j) PROVE Lifecycle!End(j)
    <3>1. PICK o \in Outcomes \ {"none"} :
            hash' = [hash EXCEPT ![j] = Finished(hash[j], o)]
      BY <2>5 DEF Ended
    <3>2. Seen(Finished(hash[j], o)) \in Lifecycle!Answers
      BY <2>0, AnswerView
    <3>3. status(j) = Lifecycle!Running
      BY <2>0, <2>5, Views DEF Ended, HashFits, Terminal, status
    <3> QED
      BY <2>0, <2>5, <3>1, <3>2, <3>3, OneView
         DEF Ended, Lifecycle!End, Lifecycle!See
  <2>6. ASSUME NEW j \in Jobs, Expired(j) PROVE Lifecycle!Forget(j)
    <3>1. /\ Seen(NoHash) = Lifecycle!Absent
          /\ status(j).status \in {"done", "failed"}
      BY <2>0, <2>6, Views DEF Expired, status
    <3> QED
      BY <2>0, <2>6, <3>1, OneView DEF Expired, Lifecycle!Forget, Lifecycle!See
  <2> QED
    BY <1>2, <2>1, <2>2, <2>3, <2>4, <2>5, <2>6, ClientSteps DEF Lifecycle!Next
<1> QED
  BY <1>1, <1>2, Inductive, PTL DEF Spec, KeepsLifecycle, Lifecycle!Spec

-----------------------------------------------------------------------------
(***************************************************************************)
(* How much a failure can cost.  A worker whose process is told to stop    *)
(* may still lose the job it has, or the one its BRPOP is about to return, *)
(* so StrandedBound is not inductive: the invariant also charges for the   *)
(* workers at risk.                                                        *)
(***************************************************************************)

Team(p) == {w \in Workers : ProcOf[w] = p}

\* Workers that have not noticed that their process is stopping.
AtRisk == {w \in Workers : /\ proc[ProcOf[w]] = "stopping"
                           /\ pc[w] \in Holding \cup {"popping"}}

Stops == stops.signal + stops.crash

\* With at most n workers in a process.
Damage(n) ==
  /\ IsFiniteSet(Stranded)
  /\ Cardinality(Stranded) + Cardinality(AtRisk) <= faults + Stops * n

LEMMA CountTypes ==
  ASSUME TypeOK
  PROVE  faults \in Nat /\ stops.signal \in Nat /\ stops.crash \in Nat /\ Stops \in Nat
BY JobQueueAssumption DEF TypeOK, Stops

\* Some process has the most workers.
LEMMA LargestTeam ==
  \E p \in Procs : \A q \in Procs : Cardinality(Team(q)) <= Cardinality(Team(p))
<1> DEFINE total == Cardinality(Workers)
           rest(p) == total - Cardinality(Team(p))
           T == {rest(p) : p \in Procs}
<1>1. total \in Nat
  BY FS_CardinalityType, JobQueueAssumption
<1>2. ASSUME NEW p \in Procs
      PROVE  Cardinality(Team(p)) \in Nat /\ Cardinality(Team(p)) <= total
  <2>1. Team(p) \in SUBSET Workers
    BY DEF Team
  <2>2. IsFiniteSet(Team(p)) /\ Cardinality(Team(p)) <= total
    BY <2>1, FS_Subset, JobQueueAssumption
  <2> QED
    BY <2>2, FS_CardinalityType
<1>3. ASSUME NEW p \in Procs PROVE rest(p) \in Nat
  BY <1>1, <1>2
<1>4. T \subseteq Nat /\ T # {}
  <2> HIDE DEF rest
  <2> QED BY <1>3, JobQueueAssumption
<1>5. \E x \in T : \A y \in T : ~(<<y, x>> \in OpToRel(<, Nat))
  <2> HIDE DEF T
  <2> QED BY <1>4, WFMin, NatLessThanWellFounded
<1>6. PICK p \in Procs : \A y \in T : ~(<<y, rest(p)>> \in OpToRel(<, Nat))
  <2> HIDE DEF rest
  <2> QED BY <1>5
<1>7. ASSUME NEW q \in Procs PROVE ~(rest(q) < rest(p))
  <2>1. ~(<<rest(q), rest(p)>> \in OpToRel(<, Nat))
    <3> HIDE DEF rest
    <3> QED BY <1>6
  <2>2. rest(q) \in Nat /\ rest(p) \in Nat
    BY <1>3
  <2> HIDE DEF rest
  <2> QED BY <2>1, <2>2 DEF OpToRel
<1>8. ASSUME NEW q \in Procs PROVE Cardinality(Team(q)) <= Cardinality(Team(p))
  BY <1>1, <1>2, <1>7
<1> QED
  BY <1>8

\* The books: jobs N are lost and workers M put at risk, at the expense of
\* the workers R that were at risk and of what was charged.
LEMMA Charge ==
  ASSUME NEW n \in Nat, TypeOK, TypeOK', Damage(n),
         NEW N, NEW M, NEW R,
         IsFiniteSet(N), M \subseteq Workers, R \subseteq AtRisk,
         Stranded' \subseteq Stranded \cup N,
         AtRisk' \subseteq (AtRisk \ R) \cup M,
         Cardinality(N) + Cardinality(M) + faults + Stops * n
           <= Cardinality(R) + faults' + Stops' * n
  PROVE  Damage(n)'
<1>1. IsFiniteSet(AtRisk) /\ IsFiniteSet(M) /\ IsFiniteSet(R) /\ IsFiniteSet(AtRisk \ R)
  <2>1. AtRisk \in SUBSET Workers /\ M \in SUBSET Workers /\ R \in SUBSET Workers
        /\ (AtRisk \ R) \in SUBSET Workers
    BY DEF AtRisk
  <2> QED
    BY <2>1, FS_Subset, JobQueueAssumption
<1>2. Cardinality(AtRisk \ R) = Cardinality(AtRisk) - Cardinality(R)
  <2>1. AtRisk \cap R = R
    OBVIOUS
  <2>2. Cardinality(AtRisk \ R) = Cardinality(AtRisk) - Cardinality(AtRisk \cap R)
    BY <1>1, FS_Difference
  <2> QED
    BY <2>1, <2>2
<1>3. IsFiniteSet((AtRisk \ R) \cup M)
      /\ Cardinality((AtRisk \ R) \cup M) <= Cardinality(AtRisk \ R) + Cardinality(M)
  <2>1. IsFiniteSet((AtRisk \ R) \cap M)
    BY <1>1, FS_Intersection
  <2>2. Cardinality((AtRisk \ R) \cap M) \in Nat
    BY <2>1, FS_CardinalityType
  <2>3. /\ IsFiniteSet((AtRisk \ R) \cup M)
        /\ Cardinality((AtRisk \ R) \cup M) =
             Cardinality(AtRisk \ R) + Cardinality(M) - Cardinality((AtRisk \ R) \cap M)
    BY <1>1, FS_Union
  <2>4. Cardinality(AtRisk \ R) \in Nat /\ Cardinality(M) \in Nat
    BY <1>1, FS_CardinalityType
  <2> QED
    BY <2>2, <2>3, <2>4
<1>4. Cardinality(AtRisk') <= Cardinality((AtRisk \ R) \cup M) /\ Cardinality(AtRisk') \in Nat
  <2>1. IsFiniteSet(AtRisk') /\ Cardinality(AtRisk') <= Cardinality((AtRisk \ R) \cup M)
    BY <1>3, FS_Subset
  <2> QED
    BY <2>1, FS_CardinalityType
<1>5. IsFiniteSet(Stranded) /\ IsFiniteSet(Stranded \cup N)
      /\ Cardinality(Stranded \cup N) <= Cardinality(Stranded) + Cardinality(N)
  <2>1. IsFiniteSet(Stranded)
    BY DEF Damage
  <2>2. IsFiniteSet(Stranded \cap N)
    BY <2>1, FS_Intersection
  <2>3. Cardinality(Stranded \cap N) \in Nat
    BY <2>2, FS_CardinalityType
  <2>4. /\ IsFiniteSet(Stranded \cup N)
        /\ Cardinality(Stranded \cup N) =
             Cardinality(Stranded) + Cardinality(N) - Cardinality(Stranded \cap N)
    BY <2>1, FS_Union
  <2>5. Cardinality(Stranded) \in Nat /\ Cardinality(N) \in Nat
    BY <2>1, FS_CardinalityType
  <2> QED
    BY <2>1, <2>3, <2>4, <2>5
<1>6. IsFiniteSet(Stranded') /\ Cardinality(Stranded') <= Cardinality(Stranded \cup N)
  BY <1>5, FS_Subset
<1>7. /\ Cardinality(Stranded') \in Nat /\ Cardinality(Stranded) \in Nat
      /\ Cardinality(N) \in Nat /\ Cardinality(M) \in Nat /\ Cardinality(R) \in Nat
      /\ Cardinality(AtRisk) \in Nat /\ Cardinality(Stranded \cup N) \in Nat
      /\ Cardinality((AtRisk \ R) \cup M) \in Nat
  BY <1>1, <1>3, <1>5, <1>6, FS_CardinalityType
<1>8. Cardinality(Stranded) + Cardinality(AtRisk) <= faults + Stops * n
  BY DEF Damage
<1>9. Stops * n \in Nat /\ Stops' * n \in Nat /\ faults \in Nat /\ faults' \in Nat
  <2>1. Stops \in Nat /\ faults \in Nat
    BY CountTypes
  <2>2. Stops' \in Nat /\ faults' \in Nat
    <3>1. faults' \in 0..MaxFaults /\ stops' \in [signal: 0..MaxSignals, crash: 0..MaxCrashes]
      BY DEF TypeOK
    <3> QED
      BY <3>1, JobQueueAssumption DEF Stops
  <2>3. \A a \in Nat : a * n \in Nat
    OBVIOUS
  <2> QED
    BY <2>1, <2>2, <2>3
<1>10. Cardinality(Stranded') + Cardinality(AtRisk') <= faults' + Stops' * n
  BY <1>2, <1>3, <1>4, <1>5, <1>6, <1>7, <1>8, <1>9
<1> QED
  BY <1>6, <1>10 DEF Damage

LEMMA Costless ==
  ASSUME NEW n \in Nat, TypeOK, TypeOK', Damage(n), UNCHANGED stops, faults' >= faults,
         Stranded' \subseteq Stranded, AtRisk' \subseteq AtRisk
  PROVE  Damage(n)'
<1>1. IsFiniteSet({}) /\ Cardinality({}) = 0
  BY FS_EmptySet
<1>2. Stops' = Stops
  BY DEF Stops
<1>3. Stops * n \in Nat /\ faults \in Nat /\ faults' \in Nat
  <2>1. Stops \in Nat /\ faults \in Nat
    BY CountTypes
  <2>2. faults' \in Nat
    BY JobQueueAssumption DEF TypeOK
  <2>3. \A a \in Nat : a * n \in Nat
    OBVIOUS
  <2> QED
    BY <2>1, <2>2, <2>3
<1>4. Cardinality({}) + Cardinality({}) + faults + Stops * n
        <= Cardinality({}) + faults' + Stops' * n
  BY <1>1, <1>2, <1>3
<1>5. /\ {} \subseteq Workers /\ {} \subseteq AtRisk
      /\ Stranded' \subseteq Stranded \cup {}
      /\ AtRisk' \subseteq (AtRisk \ {}) \cup {}
  OBVIOUS
<1> QED
  BY <1>1, <1>4, <1>5, Charge

\* A job is lost to a failed command.
LEMMA FaultCharge ==
  ASSUME NEW n \in Nat, TypeOK, TypeOK', Damage(n), UNCHANGED stops, faults' = faults + 1,
         NEW j, Stranded' \subseteq Stranded \cup {j}, AtRisk' \subseteq AtRisk
  PROVE  Damage(n)'
<1>1. IsFiniteSet({}) /\ Cardinality({}) = 0 /\ IsFiniteSet({j}) /\ Cardinality({j}) = 1
  BY FS_EmptySet, FS_Singleton
<1>2. Stops' = Stops
  BY DEF Stops
<1>3. Stops * n \in Nat /\ faults \in Nat
  <2>1. Stops \in Nat /\ faults \in Nat
    BY CountTypes
  <2>3. \A a \in Nat : a * n \in Nat
    OBVIOUS
  <2> QED
    BY <2>1, <2>3
<1>4. Cardinality({j}) + Cardinality({}) + faults + Stops * n
        <= Cardinality({}) + faults' + Stops' * n
  BY <1>1, <1>2, <1>3
<1>5. /\ {} \subseteq Workers /\ {} \subseteq AtRisk
      /\ AtRisk' \subseteq (AtRisk \ {}) \cup {}
  OBVIOUS
<1> QED
  BY <1>1, <1>4, <1>5, Charge

\* A job is lost with the worker at risk that had it.
LEMMA RiskCharge ==
  ASSUME NEW n \in Nat, TypeOK, TypeOK', Damage(n), UNCHANGED <<stops, faults>>,
         NEW j, NEW w \in AtRisk,
         Stranded' \subseteq Stranded \cup {j}, AtRisk' \subseteq AtRisk \ {w}
  PROVE  Damage(n)'
<1>1. IsFiniteSet({}) /\ Cardinality({}) = 0 /\ IsFiniteSet({j}) /\ Cardinality({j}) = 1
      /\ Cardinality({w}) = 1
  BY FS_EmptySet, FS_Singleton
<1>2. Stops' = Stops
  BY DEF Stops
<1>3. Stops * n \in Nat /\ faults \in Nat
  <2>1. Stops \in Nat /\ faults \in Nat
    BY CountTypes
  <2>3. \A a \in Nat : a * n \in Nat
    OBVIOUS
  <2> QED
    BY <2>1, <2>3
<1>4. Cardinality({j}) + Cardinality({}) + faults + Stops * n
        <= Cardinality({w}) + faults' + Stops' * n
  BY <1>1, <1>2, <1>3
<1>5. /\ {} \subseteq Workers /\ {w} \subseteq AtRisk
      /\ AtRisk' \subseteq (AtRisk \ {w}) \cup {}
  OBVIOUS
<1> QED
  BY <1>1, <1>4, <1>5, Charge

\* What the list holds after a push and after a pop.
LEMMA OnQueueAfter ==
  ASSUME TypeOK
  PROVE  /\ \A j \in Jobs : queue' = Append(queue, j) =>
              \A k \in Jobs : OnQueue(k)' <=> OnQueue(k) \/ k = j
         /\ queue # <<>> /\ queue' = Tail(queue) =>
              \A k \in Jobs : OnQueue(k) => OnQueue(k)' \/ k = Head(queue)
<1>0. queue \in Seq(Jobs) /\ Len(queue) \in Nat
  BY LenProperties DEF TypeOK
<1>1. ASSUME NEW j \in Jobs, queue' = Append(queue, j)
      PROVE  \A k \in Jobs : OnQueue(k)' <=> OnQueue(k) \/ k = j
  <2>1. /\ Len(queue') = Len(queue) + 1
        /\ \A i \in 1..Len(queue) : queue'[i] = queue[i]
        /\ queue'[Len(queue) + 1] = j
    BY <1>0, <1>1, AppendFacts
  <2> QED
    BY <1>0, <2>1 DEF OnQueue
<1>2. ASSUME queue # <<>>, queue' = Tail(queue), NEW k \in Jobs, OnQueue(k),
             k # Head(queue)
      PROVE  OnQueue(k)'
  <2>1. /\ Head(queue) = queue[1]
        /\ Len(queue') = Len(queue) - 1
        /\ \A i \in 1..Len(queue') : queue'[i] = queue[i + 1]
    BY <1>0, <1>2, TailFacts
  <2>2. PICK i \in 1..Len(queue) : queue[i] = k
    BY <1>2 DEF OnQueue
  <2>3. i - 1 \in 1..Len(queue') /\ queue'[i - 1] = k
    BY <1>0, <1>2, <2>1, <2>2
  <2> QED
    BY <2>3 DEF OnQueue
<1> QED
  BY <1>1, <1>2

LEMMA ExecDamage ==
  ASSUME NEW n \in Nat, IInv, IInv', Damage(n),
         NEW p \in Procs, NEW j \in Jobs, NEW r \in Requests, exec(p, j, r)
  PROVE  Damage(n)'
<1>0. TypeOK /\ TypeOK'
  BY DEF IInv
<1>1. UNCHANGED <<stops, job, pc, proc>> /\ faults' >= faults
  BY <1>0, CountTypes DEF exec, ExecReject, ExecAccept, ExecError, Fault, local
<1>2. AtRisk' \subseteq AtRisk
  BY <1>1 DEF AtRisk
<1>3. \/ UNCHANGED <<queue, hash>>
      \/ /\ queue' = Append(queue, j)
         /\ hash' = [hash EXCEPT ![j] = Queued(@, r.lang)]
  BY DEF exec, ExecReject, ExecAccept, ExecError, Enqueue, redis
<1>4. CASE UNCHANGED <<queue, hash>>
  <2>1. Stranded' \subseteq Stranded
    BY <1>1, <1>4 DEF Stranded, OnQueue, Holds
  <2> QED
    BY <1>0, <1>1, <1>2, <2>1, Costless
<1>5. CASE /\ queue' = Append(queue, j)
           /\ hash' = [hash EXCEPT ![j] = Queued(@, r.lang)]
  <2>1. \A k \in Jobs : OnQueue(k)' <=> OnQueue(k) \/ k = j
    BY <1>0, <1>5, OnQueueAfter
  <2>2. \A k \in Jobs \ {j} : hash'[k] = hash[k]
    BY <1>0, <1>5 DEF TypeOK
  <2>3. Stranded' \subseteq Stranded
    BY <1>1, <2>1, <2>2 DEF Stranded, Holds
  <2> QED
    BY <1>0, <1>1, <1>2, <2>3, Costless
<1> QED
  BY <1>3, <1>4, <1>5

LEMMA LoopDamage ==
  ASSUME NEW n \in Nat, IInv, IInv', Damage(n), NEW w \in Workers, loop(w)
  PROVE  Damage(n)'
<1>0. /\ TypeOK /\ TypeOK' /\ queue \in Seq(Jobs)
      /\ pc \in [Workers -> PCs] /\ job \in [Workers -> Jobs \cup {NoJob}]
      /\ faults \in Nat
  BY CountTypes DEF IInv, TypeOK
<1>1. UNCHANGED <<hash, stops, proc>>
  BY DEF loop, Poll, LoopExit, Dequeue, DequeueTimeout, DequeueError,
         DequeueResend, redis
<1>2. CASE Poll(w) \/ LoopExit(w) \/ DequeueTimeout(w)
  <2>1. UNCHANGED <<queue, faults>> /\ \A v \in Workers : job'[v] = job[v]
    BY <1>0, <1>2 DEF Poll, LoopExit, DequeueTimeout, Return, redis, IInv, HeldJobs,
         Holding, At
  <2>2. Stranded' \subseteq Stranded
    BY <1>1, <2>1 DEF Stranded, OnQueue, Holds
  <2>3. AtRisk' \subseteq AtRisk
    BY <1>0, <1>1, <1>2 DEF Poll, LoopExit, DequeueTimeout, Return, Goto, AtRisk,
         Holding, At
  <2> QED
    BY <1>0, <1>1, <2>1, <2>2, <2>3, Costless
<1>3. CASE Dequeue(w)
  <2>1. /\ queue # <<>> /\ queue' = Tail(queue) /\ UNCHANGED faults
        /\ job[w] = NoJob /\ job' = [job EXCEPT ![w] = Head(queue)]
        /\ pc[w] = "popping" /\ pc' = [pc EXCEPT ![w] = "popped"]
    BY <1>3 DEF Dequeue, Goto, At, IInv, HeldJobs, Holding
  <2>2. \A k \in Jobs : OnQueue(k) => OnQueue(k)' \/ k = Head(queue)
    BY <1>0, <2>1, OnQueueAfter
  <2>3. Stranded' \subseteq Stranded
    BY <1>0, <1>1, <2>1, <2>2, JobQueueAssumption DEF Stranded, Holds
  <2>4. AtRisk' \subseteq AtRisk
    BY <1>0, <1>1, <2>1 DEF AtRisk, Holding
  <2> QED
    BY <1>0, <1>1, <2>1, <2>3, <2>4, Costless
<1>4. CASE DequeueError(w) \/ DequeueResend(w)
  <2>1. /\ faults' = faults + 1
        /\ \A v \in Workers : job'[v] = job[v]
        /\ queue' = queue \/ (queue # <<>> /\ queue' = Tail(queue))
    BY <1>0, <1>4 DEF DequeueError, DequeueResend, Fault, Return, local, At, IInv,
         HeldJobs, Holding
  <2>2. \A k \in Jobs : OnQueue(k) => OnQueue(k)' \/ k = Head(queue)
    <3>1. CASE queue' = queue
      BY <3>1 DEF OnQueue
    <3> QED
      BY <1>0, <2>1, <3>1, OnQueueAfter
  <2>3. Stranded' \subseteq Stranded \cup {Head(queue)}
    BY <1>1, <2>1, <2>2 DEF Stranded, Holds
  <2>4. AtRisk' \subseteq AtRisk
    BY <1>0, <1>1, <1>4 DEF DequeueError, DequeueResend, Return, Goto, local, AtRisk, At,
         Holding
  <2> QED
    BY <1>0, <1>1, <2>1, <2>3, <2>4, FaultCharge
<1> QED
  BY <1>2, <1>3, <1>4 DEF loop

\* A worker that keeps its job strands none, and one that returns at most that.
LEMMA KeepsJob ==
  ASSUME IInv, NEW w \in Workers, job[w] # NoJob, UNCHANGED <<queue, job>>,
         \A k \in Jobs \ {job[w]} : hash'[k] = hash[k]
  PROVE  Stranded' \subseteq Stranded
BY DEF Stranded, OnQueue, Holds

LEMMA DropsJob ==
  ASSUME IInv, NEW w \in Workers, UNCHANGED queue, Return(w),
         \A k \in Jobs \ {job[w]} : hash'[k] = hash[k]
  PROVE  /\ Stranded' \subseteq Stranded \cup {job[w]}
         /\ ~(hash'[job[w]].status \in {"queued", "running"}) => Stranded' \subseteq Stranded
<1>1. job \in [Workers -> Jobs \cup {NoJob}]
  BY DEF IInv, TypeOK
<1>2. \A v \in Workers \ {w} : job'[v] = job[v]
  BY <1>1 DEF Return
<1>3. ASSUME NEW k \in Jobs \ {job[w]}, k \in Stranded' PROVE k \in Stranded
  BY <1>2, <1>3 DEF Stranded, OnQueue, Holds
<1>4. job[w] \in Stranded' => hash'[job[w]].status \in {"queued", "running"}
  BY DEF Stranded
<1> QED
  BY <1>3, <1>4 DEF Stranded

LEMMA ProcessDamage ==
  ASSUME NEW n \in Nat, IInv, IInv', Damage(n), NEW w \in Workers, process(w)
  PROVE  Damage(n)'
<1>0. /\ TypeOK /\ TypeOK' /\ hash \in [Jobs -> Hashes]
      /\ pc \in [Workers -> PCs] /\ job \in [Workers -> Jobs \cup {NoJob}]
      /\ faults \in Nat /\ outcome[w] \in Outcomes
  BY CountTypes DEF IInv, TypeOK
<1>1. UNCHANGED <<queue, stops, proc>>
  BY DEF process, Load, LoadError, SetRunning, SetRunningError, ExecuteReturns,
         ExecuteError, Finish, FinishError, redis
<1>2. pc[w] \in Holding /\ job[w] \in Jobs
  BY <1>0 DEF process, Load, LoadError, SetRunning, SetRunningError, ExecuteReturns,
         ExecuteError, Finish, FinishError, At, Holding, IInv, HeldJobs
<1>3. \A k \in Jobs \ {job[w]} : hash'[k] = hash[k]
  BY <1>0 DEF process, Load, LoadError, SetRunning, SetRunningError, ExecuteReturns,
         ExecuteError, Finish, FinishError, redis
<1>4. CASE \/ Load(w) /\ UNCHANGED job
           \/ SetRunning(w) \/ ExecuteError(w)
           \/ \E o \in {"results", "compile_error", "agent_error"} : ExecuteReturns(w, o)
  <2>1. UNCHANGED <<job, faults>>
    BY <1>4 DEF Load, SetRunning, ExecuteError, ExecuteReturns, Works
  <2>2. Stranded' \subseteq Stranded
    BY <1>1, <1>2, <1>3, <2>1, KeepsJob, JobQueueAssumption
  <2>3. AtRisk' \subseteq AtRisk
    <3>1. \A v \in Workers \ {w} : pc'[v] = pc[v]
      BY <1>0, <1>4 DEF Load, SetRunning, ExecuteError, ExecuteReturns, Goto, Return
    <3> QED
      BY <1>1, <1>2, <3>1 DEF AtRisk
  <2> QED
    BY <1>0, <1>1, <2>1, <2>2, <2>3, Costless
<1>5. CASE \/ Load(w) /\ Return(w)
           \/ Finish(w)
  <2>1. ~(hash'[job[w]].status \in {"queued", "running"}) /\ Return(w) /\ UNCHANGED faults
    <3>1. CASE Load(w) /\ Return(w)
      <4>1. hash[job[w]].status = "queued" /\ pc[w] = "popped"
        BY <3>1 DEF Load, At, IInv, WorkerOK, WorkerFits
      <4> QED
        BY <1>0, <3>1, <4>1 DEF Load, Return, Goto
    <3>2. CASE Finish(w)
      <4>1. hash'[job[w]] = Finished(hash[job[w]], outcome[w])
        BY <1>0, <1>2, <3>2 DEF Finish
      <4>2. hash'[job[w]].status = StatusFor(outcome[w])
        BY <4>1 DEF Finished
      <4> QED
        BY <3>2, <4>2 DEF Finish, Works, StatusFor
    <3> QED
      BY <1>5, <3>1, <3>2
  <2>2. Stranded' \subseteq Stranded
    BY <1>1, <1>3, <2>1, DropsJob
  <2>3. AtRisk' \subseteq AtRisk
    BY <1>0, <1>1, <1>2, <2>1 DEF AtRisk, Return, Goto
  <2> QED
    BY <1>0, <1>1, <2>1, <2>2, <2>3, Costless
<1>6. CASE LoadError(w) \/ SetRunningError(w) \/ FinishError(w)
  <2>1. Return(w)
    BY <1>6 DEF LoadError, SetRunningError, FinishError
  <2>2. Stranded' \subseteq Stranded \cup {job[w]}
    BY <1>1, <1>3, <2>1, DropsJob
  <2>3. AtRisk' \subseteq AtRisk \ {w}
    BY <1>0, <1>1, <2>1 DEF AtRisk, Return, Goto, Holding
  <2>4. CASE Fault(ProcOf[w])
    <3>1. AtRisk' \subseteq AtRisk /\ faults' = faults + 1
      BY <2>3, <2>4 DEF Fault
    <3> QED
      BY <1>0, <1>1, <2>2, <3>1, FaultCharge
  <2>5. CASE Cancelled(ProcOf[w])
    <3>1. w \in AtRisk /\ UNCHANGED faults
      BY <1>2, <2>5 DEF AtRisk, Cancelled
    <3> QED
      BY <1>0, <1>1, <2>2, <2>3, <3>1, RiskCharge
  <2> QED
    BY <1>6, <2>4, <2>5 DEF LoadError, SetRunningError, FinishError
<1>7. Load(w) => UNCHANGED job \/ Return(w)
  BY DEF Load
<1> QED
  BY <1>4, <1>5, <1>6, <1>7 DEF process

LEMMA ExpireDamage ==
  ASSUME NEW n \in Nat, IInv, IInv', Damage(n), NEW j \in Jobs, Expire(j)
  PROVE  Damage(n)'
<1>1. TypeOK /\ TypeOK' /\ hash \in [Jobs -> Hashes] /\ faults \in Nat
  BY CountTypes DEF IInv, TypeOK
<1>2. UNCHANGED <<queue, job, pc, proc, faults, stops>>
      /\ hash' = [hash EXCEPT ![j] = NoHash]
  BY DEF Expire, local
<1>3. Stranded' \subseteq Stranded
  BY <1>1, <1>2 DEF Stranded, OnQueue, Holds, NoHash
<1>4. AtRisk' \subseteq AtRisk
  BY <1>2 DEF AtRisk
<1> QED
  BY <1>1, <1>2, <1>3, <1>4, Costless

\* No more jobs are lost with workers than there are workers.
LEMMA JobsOf ==
  ASSUME NEW R \in SUBSET Workers
  PROVE  LET N == {job[w] : w \in R}
         IN  IsFiniteSet(N) /\ IsFiniteSet(R) /\ Cardinality(N) <= Cardinality(R)
<1> DEFINE N == {job[w] : w \in R}
           f == [w \in R |-> job[w]]
<1>1. IsFiniteSet(R)
  BY FS_Subset, JobQueueAssumption
<1>2. f \in Surjection(R, N)
  BY DEF Surjection
<1>3. IsFiniteSet(N) /\ Cardinality(N) <= Cardinality(R)
  <2> HIDE DEF N, f
  <2> QED BY <1>1, <1>2, FS_Surjection
<1> QED
  BY <1>1, <1>3

LEMMA TeamSize ==
  ASSUME NEW p
  PROVE  IsFiniteSet(Team(p)) /\ Cardinality(Team(p)) \in Nat /\ Team(p) \in SUBSET Workers
<1>1. Team(p) \in SUBSET Workers
  BY DEF Team
<1>2. IsFiniteSet(Team(p))
  BY <1>1, FS_Subset, JobQueueAssumption
<1> QED
  BY <1>1, <1>2, FS_CardinalityType

\* A process that vanishes strands what its workers had.
LEMMA VanishStrands ==
  ASSUME IInv, NEW p \in Procs, Vanish(p), UNCHANGED <<queue, hash>>
  PROVE  /\ Stranded' \subseteq Stranded \cup {job[w] : w \in Team(p)}
         /\ proc[p] = "stopping" =>
              Stranded' \subseteq Stranded \cup {job[w] : w \in Team(p) \cap AtRisk}
         /\ AtRisk' \subseteq AtRisk \ Team(p)
<1>0. /\ proc \in [Procs -> {"up", "stopping", "down"}]
      /\ job \in [Workers -> Jobs \cup {NoJob}]
  BY DEF IInv, TypeOK
<1>1. \A w \in Workers \ Team(p) : job'[w] = job[w] /\ pc'[w] = pc[w]
  BY DEF Vanish, Team
<1>2. ASSUME NEW k \in Stranded', k \notin Stranded
      PROVE  \E w \in Team(p) : job[w] = k
  BY <1>1, <1>2 DEF Stranded, OnQueue, Holds
<1>3. ASSUME NEW w \in Team(p), job[w] # NoJob, proc[p] = "stopping" PROVE w \in AtRisk
  BY <1>3 DEF Team, AtRisk, IInv, HeldJobs
<1>4. Stranded' \subseteq Jobs
  BY DEF Stranded
<1>5. proc[p] = "stopping" =>
        Stranded' \subseteq Stranded \cup {job[w] : w \in Team(p) \cap AtRisk}
  BY <1>2, <1>3, <1>4, JobQueueAssumption
<1>6. AtRisk' \subseteq AtRisk \ Team(p)
  BY <1>0, <1>1, JobQueueAssumption DEF AtRisk, Team, Vanish
<1> QED
  BY <1>2, <1>5, <1>6

LEMMA ProcDamage ==
  ASSUME NEW n \in Nat, IInv, IInv', Damage(n), NEW p \in Procs,
         Cardinality(Team(p)) <= n,
         Signal(p) \/ Exit(p) \/ Crash(p) \/ Start(p)
  PROVE  Damage(n)'
<1>0. /\ TypeOK /\ TypeOK' /\ proc \in [Procs -> {"up", "stopping", "down"}]
      /\ faults \in Nat /\ Stops \in Nat /\ stops.signal \in Nat /\ stops.crash \in Nat
  BY CountTypes DEF IInv, TypeOK
<1>1. UNCHANGED <<queue, hash, faults>>
  BY DEF Signal, Exit, Crash, Start, redis
<1>2. /\ Stops * n \in Nat
      /\ Stops' = Stops + 1 => Stops' * n = Stops * n + n
  <2>1. \A a \in Nat : a * n \in Nat /\ (a + 1) * n = a * n + n
    OBVIOUS
  <2> QED
    BY <1>0, <2>1
<1>3. IsFiniteSet({}) /\ Cardinality({}) = 0
  BY FS_EmptySet
<1>4. IsFiniteSet(Team(p)) /\ Cardinality(Team(p)) \in Nat /\ Team(p) \in SUBSET Workers
  BY TeamSize
<1>5. CASE Signal(p)
  <2>1. Stops' = Stops + 1 /\ UNCHANGED job
    BY <1>0, <1>5 DEF Signal, Stops, local
  <2>2. Stranded' \subseteq Stranded \cup {}
    BY <1>1, <2>1 DEF Stranded, OnQueue, Holds
  <2>3. AtRisk' \subseteq (AtRisk \ {}) \cup Team(p)
    BY <1>0, <1>5, JobQueueAssumption DEF AtRisk, Team, Signal, local
  <2>4. Cardinality({}) + Cardinality(Team(p)) + faults + Stops * n
          <= Cardinality({}) + faults' + Stops' * n
    BY <1>0, <1>1, <1>2, <1>3, <1>4, <2>1
  <2>5. {} \subseteq AtRisk
    OBVIOUS
  <2> QED
    BY <1>0, <1>3, <1>4, <2>2, <2>3, <2>4, <2>5, Charge
<1>6. CASE Exit(p)
  <2> DEFINE R == Team(p) \cap AtRisk
             N == {job[w] : w \in R}
  <2>1. Vanish(p) /\ proc[p] = "stopping" /\ Stops' = Stops
    BY <1>6 DEF Exit, Stops
  <2>2. Stranded' \subseteq Stranded \cup N /\ AtRisk' \subseteq (AtRisk \ R) \cup {}
    BY <1>1, <2>1, VanishStrands
  <2>3. R \in SUBSET Workers /\ R \subseteq AtRisk
    BY <1>4
  <2>4. IsFiniteSet(N) /\ IsFiniteSet(R) /\ Cardinality(N) <= Cardinality(R)
    BY <2>3, JobsOf
  <2> HIDE DEF N, R
  <2>5. Cardinality(N) \in Nat /\ Cardinality(R) \in Nat
    BY <2>4, FS_CardinalityType
  <2>6. Cardinality(N) + Cardinality({}) + faults + Stops * n
          <= Cardinality(R) + faults' + Stops' * n
    BY <1>0, <1>1, <1>2, <1>3, <2>1, <2>4, <2>5
  <2>7. {} \subseteq Workers
    OBVIOUS
  <2> QED
    BY <1>0, <2>2, <2>3, <2>4, <2>6, <2>7, Charge
<1>7. CASE Crash(p)
  <2> DEFINE N == {job[w] : w \in Team(p)}
  <2>1. Vanish(p) /\ Stops' = Stops + 1
    BY <1>0, <1>7 DEF Crash, Stops
  <2>2. Stranded' \subseteq Stranded \cup N /\ AtRisk' \subseteq (AtRisk \ {}) \cup {}
    BY <1>1, <2>1, VanishStrands
  <2>3. IsFiniteSet(N) /\ Cardinality(N) <= Cardinality(Team(p))
    BY <1>4, JobsOf
  <2> HIDE DEF N
  <2>4. Cardinality(N) \in Nat
    BY <2>3, FS_CardinalityType
  <2>5. Cardinality(N) + Cardinality({}) + faults + Stops * n
          <= Cardinality({}) + faults' + Stops' * n
    BY <1>0, <1>1, <1>2, <1>3, <1>4, <2>1, <2>3, <2>4
  <2>6. {} \subseteq Workers /\ {} \subseteq AtRisk
    OBVIOUS
  <2> QED
    BY <1>0, <2>2, <2>3, <2>5, <2>6, Charge
<1>8. CASE Start(p)
  <2>1. UNCHANGED <<job, stops>>
    BY <1>8 DEF Start
  <2>2. Stranded' \subseteq Stranded
    BY <1>1, <2>1 DEF Stranded, OnQueue, Holds
  <2>3. AtRisk' \subseteq AtRisk
    BY <1>0, <1>8, JobQueueAssumption DEF AtRisk, Start
  <2> QED
    BY <1>0, <1>1, <2>1, <2>2, <2>3, Costless
<1> QED
  BY <1>5, <1>6, <1>7, <1>8

LEMMA StepDamage ==
  ASSUME NEW n \in Nat, \A p \in Procs : Cardinality(Team(p)) <= n,
         IInv, IInv', Damage(n), [Next]_vars
  PROVE  Damage(n)'
<1>1. CASE Next
  BY <1>1, ExecDamage, LoopDamage, ProcessDamage, ExpireDamage, ProcDamage DEF Next
<1>2. CASE UNCHANGED vars
  BY <1>2 DEF vars, Damage, Stranded, OnQueue, Holds, AtRisk, Stops
<1> QED
  BY <1>1, <1>2

\* The damage of failures is bounded, for any number of processes, workers
\* and jobs: each failed Redis command costs at most one job, and each signal
\* or kill at most one per worker of its process.
THEOREM FewAreStranded == Spec => []StrandedBound
<1>1. PICK p \in Procs :
        \A q \in Procs : Cardinality(Team(q)) <= Cardinality(Team(p))
  BY LargestTeam
<1> DEFINE n == Cardinality(Team(p))
<1>2. n \in Nat
  BY TeamSize
<1>3. Init => Damage(n)
  <2> SUFFICES ASSUME Init PROVE Damage(n)
    OBVIOUS
  <2>1. Stranded = {} /\ AtRisk = {}
    BY JobQueueAssumption DEF Init, Stranded, AtRisk, NoHash
  <2>2. faults = 0 /\ Stops = 0
    BY DEF Init, Stops
  <2> HIDE DEF n
  <2> QED
    BY <1>2, <2>1, <2>2, FS_EmptySet DEF Damage
<1>4. IInv /\ IInv' /\ Damage(n) /\ [Next]_vars => Damage(n)'
  BY <1>1, <1>2, StepDamage
<1>5. IInv /\ Damage(n) => StrandedBound
  <2> SUFFICES ASSUME IInv, Damage(n) PROVE StrandedBound
    OBVIOUS
  <2>1. Cardinality(Stranded) \in Nat /\ Cardinality(AtRisk) \in Nat
    <3>1. AtRisk \in SUBSET Workers
      BY DEF AtRisk
    <3>2. IsFiniteSet(AtRisk) /\ IsFiniteSet(Stranded)
      BY <3>1, FS_Subset, JobQueueAssumption DEF Damage
    <3> QED
      BY <3>2, FS_CardinalityType
  <2>2. faults \in Nat /\ Stops \in Nat
    BY CountTypes DEF IInv
  <2>3. Cardinality(Stranded) <= faults + Stops * n
    <3>1. Stops * n \in Nat
      BY <1>2, <2>2
    <3>2. Cardinality(Stranded) + Cardinality(AtRisk) <= faults + Stops * n
      BY DEF Damage
    <3> QED
      BY <2>1, <2>2, <3>1, <3>2
  <2> QED
    BY <2>3 DEF StrandedBound, Stops, Team
<1> QED
  BY <1>3, <1>4, <1>5, Inductive, PTL DEF Spec
=============================================================================
