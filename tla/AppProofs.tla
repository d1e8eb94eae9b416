----------------------------- MODULE AppProofs -----------------------------
(***************************************************************************)
(* Proofs about the whole process, for any number of workers, jobs and     *)
(* languages and every configuration FromEnv accepts.                      *)
(***************************************************************************)
EXTENDS App, FiniteSetTheorems, TLAPS

-----------------------------------------------------------------------------
\* The configuration.

\* Every environment FromEnv accepts, with whatever numbers or junk in it,
\* gives a usable configuration (the floors at the end of FromEnv).
THEOREM AcceptedIsUsable ==
  \A e \in Environments : Accepted(e) => Usable(FromEnv(e), e)
<1> SUFFICES ASSUME NEW e \in Environments, Accepted(e)
             PROVE  Usable(FromEnv(e), e)
  OBVIOUS
<1>1. /\ e.poolSize \in Settings /\ e.bootConcurrency \in Settings
      /\ e.workerConcurrency \in Settings /\ e.resultTTL \in Settings
  BY DEF Environments
<1>2. \A s \in Settings, d \in Int : envInt(s, d) \in Int
  BY DEF Settings, envInt
<1>3. \A n \in Int : AtLeastOne(n) \in Nat \ {0}
  BY DEF AtLeastOne
<1>4. /\ strategyOf(e) \in Strategies
      /\ strategyOf(e) = "prewarmed_generic" => e.genericRootfs
  BY DEF Accepted
<1> QED
  BY <1>1, <1>2, <1>3, <1>4, SMTT(30) DEF Usable, FromEnv
-----------------------------------------------------------------------------
\* The components, with what is proved about each.

JP == INSTANCE JobQueueProofs WITH
        pc <- wpc, Procs <- {Self}, ProcOf <- [w \in Workers |-> Self],
        Registry <- [p \in {Self} |-> Langs], ResultTTL <- cfg.ResultTTL,
        MaxFaults <- 0

VP == INSTANCE VMPoolProofs WITH
        pc <- apc, Keys <- Langs, Callers <- Workers, Size <- cfg.PoolSize,
        BootConcurrency <- cfg.BootConcurrency,
        MaxCalls <- 2 * Cardinality(Jobs)

LEMMA ConfigUsable ==
  /\ cfg.PoolSize \in Nat \ {0} /\ cfg.BootConcurrency \in Nat \ {0}
  /\ cfg.ResultTTL \in Int
BY AcceptedIsUsable, AppAssumption DEF Usable, cfg

LEMMA JobAssumption == JP!JobQueueAssumption
BY ConfigUsable, AppAssumption DEF JP!JobQueueAssumption, JP!IsFiniteSet, IsFiniteSet

LEMMA PoolAssumption == VP!VMPoolAssumption
<1>1. Cardinality(Jobs) \in Nat
  BY FS_CardinalityType, AppAssumption
<1> QED
  BY <1>1, ConfigUsable, AppAssumption
     DEF VP!VMPoolAssumption, VP!IsFiniteSet, IsFiniteSet

-----------------------------------------------------------------------------
\* A step of the process is a step of its workers and clients, or leaves what
\* is theirs alone.

LEMMA JobLoop == ASSUME NEW w, J!loop(w) PROVE JP!loop(w)
BY DEF J!loop, JP!loop, J!Poll, JP!Poll, J!LoopExit, JP!LoopExit, J!Dequeue,
    JP!Dequeue, J!DequeueTimeout, JP!DequeueTimeout, J!DequeueError,
    JP!DequeueError, J!DequeueResend, JP!DequeueResend, J!redis, JP!redis,
    J!local, JP!local, J!At, JP!At, J!Goto, JP!Goto, J!Return, JP!Return,
    J!Fault, JP!Fault, J!Cancelled, JP!Cancelled, J!Works, JP!Works

LEMMA JobProcess ==
  ASSUME NEW w,
         \/ J!Load(w) \/ J!LoadError(w) \/ J!SetRunning(w) \/ J!SetRunningError(w)
         \/ J!Finish(w) \/ J!FinishError(w)
  PROVE  JP!process(w)
BY DEF JP!process, J!Load, JP!Load, J!LoadError, JP!LoadError, J!SetRunning,
    JP!SetRunning, J!SetRunningError, JP!SetRunningError, J!Finish, JP!Finish,
    J!FinishError, JP!FinishError, J!Running, JP!Running, J!Finished,
    JP!Finished, J!StatusFor, JP!StatusFor, J!Terminal, JP!Terminal, J!redis,
    JP!redis, J!local, JP!local, J!At, JP!At, J!Goto, JP!Goto, J!Return,
    JP!Return, J!Fault, JP!Fault, J!Cancelled, JP!Cancelled, J!Works, JP!Works

LEMMA JobExecute ==
  ASSUME NEW w, J!ExecuteError(w) \/ \E o \in Responses : J!ExecuteReturns(w, o)
  PROVE  JP!process(w)
BY AppAssumption DEF JP!process, J!ExecuteError, JP!ExecuteError,
    J!ExecuteReturns, JP!ExecuteReturns, J!maxAttempts, JP!maxAttempts,
    J!redis, JP!redis, J!local, JP!local, J!At, JP!At, J!Goto, JP!Goto,
    J!Return, JP!Return, J!Fault, JP!Fault, J!Cancelled, JP!Cancelled,
    J!Works, JP!Works

LEMMA JobAccept ==
  ASSUME NEW j, NEW r, J!ExecAccept(Self, j, r)
  PROVE  JP!exec(Self, j, r)
BY DEF JP!exec, J!ExecAccept, JP!ExecAccept, J!validate, JP!validate,
    J!Enqueue, JP!Enqueue, J!Queued, JP!Queued, J!redis, JP!redis, J!local,
    JP!local, J!At, JP!At, J!Goto, JP!Goto, J!Return, JP!Return, J!Fault,
    JP!Fault, J!Cancelled, JP!Cancelled, J!Works, JP!Works

LEMMA JobStop ==
  ASSUME J!Signal(Self) \/ J!Exit(Self) \/ J!Crash(Self)
  PROVE  JP!Signal(Self) \/ JP!Exit(Self) \/ JP!Crash(Self)
BY DEF J!Signal, JP!Signal, J!Exit, JP!Exit, J!Crash, JP!Crash, J!Vanish,
    JP!Vanish, J!redis, JP!redis, J!local, JP!local, J!At, JP!At, J!Goto,
    JP!Goto, J!Return, JP!Return, J!Fault, JP!Fault, J!Cancelled,
    JP!Cancelled, J!Works, JP!Works

LEMMA JobStep == ASSUME [Next]_vars PROVE [JP!Next]_JP!vars
<1>1. CASE UNCHANGED jobVars
  BY <1>1 DEF jobVars, JP!vars
<1>2. CASE J!Signal(Self) \/ J!Exit(Self) \/ J!Crash(Self)
  BY <1>2, JobStop DEF JP!Next
<1>3. ASSUME NEW w \in Workers, worker(w), ~UNCHANGED jobVars PROVE JP!Next
  <2>1. JP!loop(w) \/ JP!process(w)
    BY <1>3, JobLoop, JobProcess, JobExecute
       DEF worker, Loop, Acquire, AcquireGoesOn, AcquireError, Exchange, OwnExecute,
           Errs
  <2> QED
    BY <2>1 DEF JP!Next
<1>4. ASSUME NEW j \in Jobs, NEW l \in Langs, Request(j, l) PROVE JP!Next
  <2>1. [body |-> "ok", complete |-> TRUE, lang |-> l] \in JP!Requests
    BY DEF JP!Requests
  <2> QED
    BY <1>4, <2>1, JobAccept DEF Request, JP!Next
<1>5. ASSUME Listen \/ mainStep \/ ServeFails \/ Signal \/ Close \/ Refill
      PROVE  \/ UNCHANGED jobVars
             \/ J!Signal(Self) \/ J!Exit(Self) \/ J!Crash(Self)
  BY <1>5 DEF Listen, mainStep, ListenFails, NewFails, Shutdown, Exit, ServeFails,
       Signal, Close, Refill
<1>6. UNCHANGED vars => UNCHANGED jobVars
  BY DEF vars
<1> QED
  BY <1>1, <1>2, <1>3, <1>4, <1>5, <1>6 DEF Next

-----------------------------------------------------------------------------
\* ... and one of the pool, or leaves the pool alone.

LEMMA PoolRefill == ASSUME NEW v, P!refill(v) PROVE VP!Refill(v)
BY DEF P!refill, VP!Refill, P!SemAcquire, VP!SemAcquire, P!SemAbandon,
    VP!SemAbandon, P!BootOK, VP!BootOK, P!BootFail, VP!BootFail, P!Send,
    VP!Send, P!SendAbandon, VP!SendAbandon, P!Alive, VP!Alive, P!Set, VP!Set,
    P!shutdown, VP!shutdown, P!callers, VP!callers, P!boots, VP!boots,
    P!Booting, VP!Booting, P!VMs, VP!VMs, P!Slots, VP!Slots, P!Done, VP!Done,
    P!Refilling, VP!Refilling, P!Key, VP!Key, P!Cardinality, VP!Cardinality

LEMMA PoolCall ==
  ASSUME NEW w,
         \/ \E l \in Langs : P!AcquireEnter(w, l)
         \/ P!Receive(w) \/ P!ReceiveNil(w) \/ P!AcquireCancelled(w)
         \/ P!CheckClosed(w) \/ P!Respawn(w) \/ P!ReleaseOrDiscard(w)
  PROVE  VP!Call(w)
BY DEF VP!Call, P!AcquireEnter, VP!AcquireEnter, P!Receive, VP!Receive,
    P!ReceiveNil, VP!ReceiveNil, P!AcquireCancelled, VP!AcquireCancelled,
    P!CheckClosed, VP!CheckClosed, P!Respawn, VP!Respawn, P!ReleaseOrDiscard,
    VP!ReleaseOrDiscard, P!Start, VP!Start, P!Alive, VP!Alive, P!Set, VP!Set,
    P!shutdown, VP!shutdown, P!callers, VP!callers, P!boots, VP!boots

LEMMA PoolClose == ASSUME P!Close \/ P!CloseStore PROVE VP!Closing
BY DEF P!Close, VP!Closing, P!CloseStore, VP!CloseStore, P!CloseCancel,
    VP!CloseCancel, P!CloseWait, VP!CloseWait, P!CloseWoken, VP!CloseWoken,
    P!CloseDrain, VP!CloseDrain, P!CloseReturn, VP!CloseReturn, P!Refilling,
    VP!Refilling, P!VMs, VP!VMs, P!Alive, VP!Alive, P!Set, VP!Set, P!shutdown,
    VP!shutdown, P!callers, VP!callers, P!boots, VP!boots

LEMMA PoolCancel == ASSUME P!CancelCallers PROVE VP!CancelCallers
BY DEF P!CancelCallers, VP!CancelCallers, P!Alive, VP!Alive, P!Set, VP!Set,
    P!shutdown, VP!shutdown, P!callers, VP!callers, P!boots, VP!boots

\* A worker asks the pool for a language the pool has a channel for.
AsksForLang == \A w \in Workers : wpc[w] = "exec" => lang[w] \in Langs

LEMMA PoolStep == ASSUME AsksForLang, [Next]_vars PROVE [VP!PrewarmedStep]_VP!vars
<1>1. CASE UNCHANGED poolVars
  BY <1>1 DEF poolVars, VP!vars
<1>2. CASE P!CloseStore \/ P!Close
  BY <1>2, PoolClose DEF VP!PrewarmedStep
<1>3. CASE P!CancelCallers
  BY <1>3, PoolCancel DEF VP!PrewarmedStep
<1>4. CASE \E v \in P!VMs : P!refill(v)
  BY <1>4, PoolRefill DEF VP!PrewarmedStep, P!VMs, VP!VMs
<1>5. ASSUME NEW w \in Workers, worker(w), ~UNCHANGED poolVars PROVE VP!PrewarmedStep
  <2>1. CASE Acquire(w)
    <3>1. lang[w] \in Langs /\ P!AcquireEnter(w, lang[w])
      BY <2>1 DEF Acquire, AsksForLang
    <3> QED
      BY <3>1, PoolCall DEF VP!PrewarmedStep
  <2>2. CASE AcquireGoesOn(w) \/ AcquireError(w) \/ Exchange(w)
    BY <2>2, PoolCall DEF AcquireGoesOn, AcquireError, Exchange, VP!PrewarmedStep
  <2> QED
    BY <1>5, <2>1, <2>2 DEF worker, Loop, OwnExecute
<1>6. ASSUME NEW j \in Jobs, NEW l \in Langs, Request(j, l) PROVE UNCHANGED poolVars
  BY <1>6 DEF Request
<1>7. ASSUME Listen \/ mainStep \/ ServeFails \/ Signal \/ Close \/ Refill
      PROVE  \/ UNCHANGED poolVars
             \/ P!CloseStore \/ P!Close \/ P!CancelCallers
             \/ \E v \in P!VMs : P!refill(v)
  BY <1>7 DEF Listen, mainStep, ListenFails, NewFails, Shutdown, Exit, ServeFails,
       Signal, Close, Refill
<1>8. UNCHANGED vars => UNCHANGED poolVars
  BY DEF vars
<1> QED
  BY <1>1, <1>2, <1>3, <1>4, <1>5, <1>6, <1>7, <1>8 DEF Next

-----------------------------------------------------------------------------
\* The workers only execute jobs of a language that is there.

LEMMA StepAsks ==
  ASSUME AsksForLang, JP!TypeOK, [JP!Next]_JP!vars
  PROVE  AsksForLang'
<1>0. wpc \in [Workers -> JP!PCs] /\ lang \in [Workers -> Langs \cup {NoLang}]
  BY DEF JP!TypeOK
<1>1. CASE UNCHANGED <<wpc, lang>>
  BY <1>1 DEF AsksForLang
<1>2. ASSUME NEW w \in Workers, JP!loop(w) \/ JP!process(w) PROVE AsksForLang'
  <2>1. \A v \in Workers \ {w} : wpc'[v] = wpc[v] /\ lang'[v] = lang[v]
    BY <1>0, <1>2
       DEF JP!loop, JP!Poll, JP!LoopExit, JP!Dequeue, JP!DequeueTimeout,
           JP!DequeueError, JP!DequeueResend, JP!process, JP!Load, JP!LoadError,
           JP!SetRunning, JP!SetRunningError, JP!ExecuteReturns, JP!ExecuteError,
           JP!Finish, JP!FinishError, JP!Goto, JP!Return, JP!local
  <2>2. wpc'[w] = "exec" => lang'[w] = lang[w] /\ (wpc[w] = "exec" \/ lang[w] \in Langs)
    BY <1>0, <1>2
       DEF JP!loop, JP!Poll, JP!LoopExit, JP!Dequeue, JP!DequeueTimeout,
           JP!DequeueError, JP!DequeueResend, JP!process, JP!Load, JP!LoadError,
           JP!SetRunning, JP!SetRunningError, JP!ExecuteReturns, JP!ExecuteError,
           JP!Finish, JP!FinishError, JP!Goto, JP!Return, JP!local, JP!At
  <2> QED
    BY <2>1, <2>2 DEF AsksForLang
<1>3. ASSUME NEW j \in Jobs, NEW r, JP!exec(Self, j, r) PROVE UNCHANGED <<wpc, lang>>
  BY <1>3 DEF JP!exec, JP!ExecReject, JP!ExecAccept, JP!ExecError, JP!local
<1>4. ASSUME NEW j \in Jobs, JP!Expire(j) PROVE UNCHANGED <<wpc, lang>>
  BY <1>4 DEF JP!Expire, JP!local
<1>5. CASE JP!Signal(Self) \/ JP!Exit(Self) \/ JP!Crash(Self) \/ JP!Start(Self)
  <2>1. \A w \in Workers : wpc'[w] = "exec" => lang'[w] = lang[w] /\ wpc[w] = "exec"
    BY <1>5 DEF JP!Signal, JP!Exit, JP!Crash, JP!Start, JP!Vanish, JP!local
  <2> QED
    BY <2>1 DEF AsksForLang
<1>6. UNCHANGED JP!vars => UNCHANGED <<wpc, lang>>
  BY DEF JP!vars
<1> QED
  BY <1>1, <1>2, <1>3, <1>4, <1>5, <1>6 DEF JP!Next

-----------------------------------------------------------------------------
\* The images of DockerExecutor: the mutex is held from the check to the end
\* of the pull, so what is being pulled is not yet known to be there.

ImagesOK ==
  /\ T!TypeOK
  /\ \A w \in Workers :
       /\ at[w] \in {"check", "pull"} => ensureMu = w
       /\ at[w] # "out" => image[w] \in Langs
       /\ at[w] = "pull" => image[w] \notin pulled
  /\ \A l \in Langs : pulls[l] <= 1 /\ (pulls[l] # 0 => l \in pulled)

LEMMA InitImages == ASSUME T!Init PROVE ImagesOK
BY AppAssumption DEF T!Init, T!Prepared, ImagesOK, T!TypeOK

LEMMA StepImages == ASSUME ImagesOK, [Next]_vars PROVE ImagesOK'
<1>0. /\ at \in [Workers -> {"out", "lock", "check", "pull", "run"}]
      /\ image \in [Workers -> Langs \cup {NoLang}]
      /\ failuresLeft \in Int
      /\ ensureMu \in Workers \cup {NoCaller}
      /\ pulled \subseteq Langs /\ present \subseteq Langs
      /\ pulls \in [Langs -> Nat]
      /\ mishaps \in 0..MaxMishaps
  BY DEF ImagesOK, T!TypeOK
<1>1. CASE UNCHANGED ownVars
  BY <1>1 DEF ownVars, ImagesOK, T!TypeOK
<1>2. ASSUME NEW w \in Workers, OwnExecute(w) PROVE ImagesOK'
  <2>1. CASE T!FlakyFails(w)
    BY <1>0, <2>1, AppAssumption DEF T!FlakyFails, T!docker, ImagesOK, T!TypeOK
  <2>2. CASE T!FlakyPasses(w, lang[w])
    BY <1>0, <2>2, AppAssumption
       DEF T!FlakyPasses, T!Here, T!Goto, T!docker, ImagesOK, T!TypeOK
  <2>3. CASE T!Lock(w)
    BY <1>0, <2>3, AppAssumption DEF T!Lock, T!Here, T!Goto, ImagesOK, T!TypeOK
  <2>4. CASE T!Have(w, ctxDone)
    BY <1>0, <2>4, AppAssumption DEF T!Have, T!Here, T!Goto, ImagesOK, T!TypeOK
  <2>5. CASE T!HaveNot(w, ctxDone)
    BY <1>0, <2>5, AppAssumption
       DEF T!HaveNot, T!Here, T!Goto, T!docker, ImagesOK, T!TypeOK
  <2>6. CASE T!PullOK(w, ctxDone)
    <3>1. image[w] \in Langs /\ image[w] \notin pulled /\ pulls[image[w]] = 0
      BY <1>0, <2>6 DEF T!PullOK, T!Here, ImagesOK
    <3> QED
      BY <1>0, <2>6, <3>1, AppAssumption DEF T!PullOK, T!Here, T!Goto, ImagesOK, T!TypeOK
  <2>7. CASE T!PullFails(w, ctxDone)
    BY <1>0, <2>7, AppAssumption DEF T!PullFails, T!Here, T!Goto, ImagesOK, T!TypeOK
  <2>8. CASE T!RunFails(w)
    BY <1>0, <2>8, AppAssumption DEF T!RunFails, T!Here, T!Goto, T!docker, ImagesOK, T!TypeOK
  <2>9. CASE T!Run(w)
    BY <1>0, <2>9, AppAssumption DEF T!Run, T!Here, T!Goto, T!docker, ImagesOK, T!TypeOK
  <2> QED
    BY <1>2, <2>1, <2>2, <2>3, <2>4, <2>5, <2>6, <2>7, <2>8, <2>9
       DEF OwnExecute, T!ensureImage
<1>3. UNCHANGED ownVars \/ \E w \in Workers : OwnExecute(w)
  BY DEF Next, Listen, mainStep, ListenFails, NewFails, Shutdown, Exit, ServeFails,
       Signal, Close, Refill, worker, Loop, Acquire, AcquireGoesOn, AcquireError,
       Exchange, Request, vars
<1> QED
  BY <1>1, <1>2, <1>3

-----------------------------------------------------------------------------
\* main: what it has closed, and when the pool is used.

MainOK ==
  /\ executor \in {"pool", "own"}
  /\ main \in {"new", "serving", "unwinding", "refused", "closing", "closed",
               "exited", "fatal"}
  /\ ctxDone => proc[Self] # "up"
  /\ main \in {"new", "unwinding", "refused"} \/ executor = "own" => calls = 0
  /\ main = "closed" => executor = "own"
  /\ executor = "pool" /\ main \in {"exited", "refused"} => closer = "done"

LEMMA InitMain == ASSUME Init PROVE MainOK
BY DEF Init, P!Init, MainOK

LEMMA StepMain ==
  ASSUME MainOK, VP!OwnInv, VP!LateInv, JP!TypeOK, [Next]_vars
  PROVE  MainOK'
<1> USE DEF MainOK
<1>0. proc \in [{Self} -> {"up", "stopping", "down"}] /\ wpc \in [Workers -> JP!PCs]
      /\ (calls = 0 => \A w \in Workers : apc[w] = "out")
  BY DEF JP!TypeOK, VP!LateInv
<1>1. CASE Listen \/ NewFails
  BY <1>1 DEF Listen, NewFails, jobVars, poolVars
<1>2. CASE ListenFails \/ Shutdown
  BY <1>2 DEF ListenFails, Shutdown, Running, P!CloseStore, P!callers, jobVars, poolVars
<1>3. CASE Exit \/ ServeFails
  BY <1>0, <1>3 DEF Exit, ServeFails, J!Exit, J!Crash, J!Vanish, poolVars
<1>4. CASE Signal
  BY <1>0, <1>4 DEF Signal, J!Signal, P!CancelCallers, P!shutdown, appVars
<1>5. CASE Close
  <2>1. UNCHANGED <<calls, ctxDone, jobVars, appVars>>
    BY <1>5 DEF Close, P!Close, P!CloseCancel, P!CloseWait, P!CloseWoken, P!CloseDrain,
         P!CloseReturn, P!callers
  <2>2. main \in {"unwinding", "closing"}
    BY <1>5 DEF Close
  <2> QED
    BY <2>1, <2>2 DEF jobVars, appVars
<1>6. CASE Refill
  <2>1. UNCHANGED <<calls, ctxDone, jobVars, appVars>> /\ Running
    BY <1>6 DEF Refill, P!refill, P!SemAcquire, P!SemAbandon, P!BootOK, P!BootFail,
         P!Send, P!SendAbandon, P!callers
  <2> QED
    BY <2>1 DEF jobVars, appVars, Running
<1>7. ASSUME NEW w \in Workers, worker(w) PROVE MainOK'
  <2>1. UNCHANGED <<proc, ctxDone, closer, executor, main>>
    <3>1. UNCHANGED proc
      BY <1>7
         DEF worker, Loop, Acquire, AcquireGoesOn, AcquireError, Exchange, OwnExecute,
             J!loop, J!Poll, J!LoopExit, J!Dequeue, J!DequeueTimeout, J!DequeueError,
             J!DequeueResend, J!Load, J!LoadError, J!SetRunning, J!SetRunningError,
             J!ExecuteReturns, J!ExecuteError, J!Finish, J!FinishError, jobVars, Errs
    <3>2. UNCHANGED <<ctxDone, closer>>
      BY <1>7
         DEF worker, Loop, Acquire, AcquireGoesOn, AcquireError, Exchange, OwnExecute,
             P!AcquireEnter, P!Receive, P!ReceiveNil, P!CheckClosed, P!Respawn,
             P!AcquireCancelled, P!ReleaseOrDiscard, P!shutdown, poolVars
    <3>3. UNCHANGED <<executor, main>>
      BY <1>7
         DEF worker, Loop, Acquire, AcquireGoesOn, AcquireError, Exchange, OwnExecute,
             appVars
    <3> QED
      BY <3>1, <3>2, <3>3
  <2>2. main \in {"serving", "closing", "closed"}
    BY <1>7 DEF worker, Loop, Acquire, AcquireGoesOn, AcquireError, Exchange, OwnExecute,
         WorkersRun
  <2>3. executor = "own" => UNCHANGED calls
    BY <1>7
       DEF worker, Loop, Acquire, AcquireGoesOn, AcquireError, Exchange, OwnExecute,
           P!Receive, P!ReceiveNil, P!CheckClosed, P!Respawn,
           P!AcquireCancelled, P!ReleaseOrDiscard, poolVars
  <2> QED
    BY <2>1, <2>2, <2>3
<1>8. ASSUME NEW j \in Jobs, NEW l \in Langs, Request(j, l) PROVE MainOK'
  BY <1>8 DEF Request, J!ExecAccept, poolVars, appVars
<1>9. CASE UNCHANGED vars
  BY <1>9 DEF vars, jobVars, poolVars, appVars
<1> QED
  BY <1>1, <1>2, <1>3, <1>4, <1>5, <1>6, <1>7, <1>8, <1>9 DEF Next, mainStep

-----------------------------------------------------------------------------
\* A VM that has run something is dead.

RunsOK ==
  /\ ranOn \in [P!VMs -> Nat]
  /\ \A v \in P!VMs : ranOn[v] <= 1 /\ (ranOn[v] # 0 => stage[v] = "dead")

LEMMA StepRuns ==
  ASSUME RunsOK, VP!OwnInv, AsksForLang, [Next]_vars
  PROVE  RunsOK'
<1>0. /\ P!VMs = VP!VMs
      /\ stage \in [VP!VMs -> VP!Stages] /\ got \in [Workers -> VP!VMs \cup {NoVM}]
  BY DEF P!VMs, VP!VMs, VP!OwnInv, VP!TypeOK
<1>1. \A v \in VP!VMs : stage[v] = "dead" => stage'[v] = "dead"
  <2>1. CASE UNCHANGED VP!vars
    BY <2>1 DEF VP!vars
  <2>2. CASE VP!PrewarmedStep
    BY <2>2, PoolAssumption, VP!StepUsedOnce DEF VP!UsedOnce, VP!PoolStep
  <2> QED
    BY <2>1, <2>2, PoolStep
<1>2. CASE UNCHANGED ranOn
  BY <1>0, <1>1, <1>2 DEF RunsOK
<1>3. ASSUME NEW w \in Workers, Exchange(w), ~UNCHANGED ranOn PROVE RunsOK'
  <2>1. /\ got[w] # NoVM /\ apc[w] = "use"
        /\ stage' = [stage EXCEPT ![got[w]] = "dead"]
        /\ ranOn' = [ranOn EXCEPT ![got[w]] = @ + 1]
    BY <1>3 DEF Exchange, history, P!ReleaseOrDiscard, P!Set
  <2>2. got[w] \in VP!VMs /\ stage[got[w]] = "held"
    BY <1>0, <2>1 DEF VP!OwnInv, VP!HoldingOK
  <2>3. ranOn[got[w]] = 0
    BY <1>0, <2>2 DEF RunsOK
  <2> QED
    BY <1>0, <2>1, <2>2, <2>3 DEF RunsOK
<1>4. UNCHANGED ranOn \/ \E w \in Workers : Exchange(w)
  BY DEF Next, Listen, mainStep, ListenFails, NewFails, Shutdown, Exit, ServeFails,
       Signal, Close, Refill, worker, Loop, Acquire, AcquireGoesOn, AcquireError,
       OwnExecute, Request, vars, appVars, history
<1> QED
  BY <1>2, <1>3, <1>4

-----------------------------------------------------------------------------
(***************************************************************************)
(* Who pays for a job that is failed for the VM's sake.  FailedTwice only  *)
(* counts the jobs that are written; the invariant also counts the first   *)
(* failures of jobs in progress, and the jobs about to be written.         *)
(***************************************************************************)

Blamed == {j \in Jobs : hash[j].outcome = "vm_error"}

SecondTry == {w \in Workers : wpc[w] = "exec" /\ attempt[w] = 2}

GaveUp == {w \in Workers : wpc[w] = "finish" /\ outcome[w] = "vm_error"}

Owed == 2 * Cardinality(Blamed) + Cardinality(SecondTry) + 2 * Cardinality(GaveUp)

\* The failures there were: those FlakyExecutor made up, and real ones.
Paid == (Failures - (IF failuresLeft > 0 THEN failuresLeft ELSE 0)) + mishaps

BlameOK == executor = "own" /\ proc[Self] = "up" => Owed <= Paid

\* Sizes of finite sets that differ in one element.
LEMMA OneMore ==
  ASSUME NEW S, NEW U, NEW x, IsFiniteSet(S), U \subseteq S \cup {x}
  PROVE  /\ IsFiniteSet(U) /\ Cardinality(U) \in Nat /\ Cardinality(S) \in Nat
         /\ Cardinality(U) <= Cardinality(S) + 1
         /\ U \subseteq S => Cardinality(U) <= Cardinality(S)
         /\ x \in S /\ U \subseteq S \ {x} => Cardinality(U) <= Cardinality(S) - 1
<1>1. IsFiniteSet(S \cup {x}) /\ IsFiniteSet(S \ {x}) /\ Cardinality(S) \in Nat
  BY FS_AddElement, FS_RemoveElement, FS_CardinalityType
<1>2. Cardinality(S \cup {x}) <= Cardinality(S) + 1
  BY <1>1, FS_AddElement
<1>3. x \in S => Cardinality(S \ {x}) = Cardinality(S) - 1
  BY FS_RemoveElement
<1>4. IsFiniteSet(U) /\ Cardinality(U) <= Cardinality(S \cup {x})
  BY <1>1, FS_Subset
<1>5. Cardinality(U) \in Nat /\ Cardinality(S \cup {x}) \in Nat
  BY <1>1, <1>4, FS_CardinalityType
<1>6. Cardinality(U) <= Cardinality(S) + 1
  BY <1>1, <1>2, <1>4, <1>5
<1>7. U \subseteq S => Cardinality(U) <= Cardinality(S)
  BY FS_Subset
<1>8. ASSUME x \in S, U \subseteq S \ {x} PROVE Cardinality(U) <= Cardinality(S) - 1
  <2>1. Cardinality(U) <= Cardinality(S \ {x})
    BY <1>1, <1>8, FS_Subset
  <2> QED
    BY <1>3, <1>8, <2>1
<1> QED
  BY <1>1, <1>4, <1>5, <1>6, <1>7, <1>8

LEMMA BlameSets == IsFiniteSet(Blamed) /\ IsFiniteSet(SecondTry) /\ IsFiniteSet(GaveUp)
<1>1. Blamed \in SUBSET Jobs /\ SecondTry \in SUBSET Workers /\ GaveUp \in SUBSET Workers
  BY DEF Blamed, SecondTry, GaveUp
<1> QED
  BY <1>1, FS_Subset, AppAssumption

\* The four ways the books change.
LEMMA Tally ==
  ASSUME NEW w, NEW j,
         \/ Blamed' \subseteq Blamed /\ SecondTry' \subseteq SecondTry
            /\ GaveUp' \subseteq GaveUp /\ Paid' >= Paid
         \/ Blamed' \subseteq Blamed /\ SecondTry' \subseteq SecondTry \cup {w}
            /\ GaveUp' \subseteq GaveUp /\ Paid' >= Paid + 1
         \/ Blamed' \subseteq Blamed /\ w \in SecondTry /\ SecondTry' \subseteq SecondTry \ {w}
            /\ GaveUp' \subseteq GaveUp \cup {w} /\ Paid' >= Paid + 1
         \/ Blamed' \subseteq Blamed \cup {j} /\ SecondTry' \subseteq SecondTry
            /\ w \in GaveUp /\ GaveUp' \subseteq GaveUp \ {w} /\ Paid' >= Paid,
         Paid \in Int, Paid' \in Int, Owed <= Paid
  PROVE  Owed' <= Paid'
<1>1. /\ Cardinality(Blamed') \in Nat /\ Cardinality(Blamed) \in Nat
      /\ Cardinality(Blamed') <= Cardinality(Blamed) + 1
      /\ Blamed' \subseteq Blamed => Cardinality(Blamed') <= Cardinality(Blamed)
  <2>1. Blamed' \subseteq Blamed \cup {j}
    OBVIOUS
  <2> QED
    BY <2>1, BlameSets, OneMore
<1>2. /\ Cardinality(SecondTry') \in Nat /\ Cardinality(SecondTry) \in Nat
      /\ Cardinality(SecondTry') <= Cardinality(SecondTry) + 1
      /\ SecondTry' \subseteq SecondTry => Cardinality(SecondTry') <= Cardinality(SecondTry)
      /\ w \in SecondTry /\ SecondTry' \subseteq SecondTry \ {w} =>
           Cardinality(SecondTry') <= Cardinality(SecondTry) - 1
  <2>1. SecondTry' \subseteq SecondTry \cup {w}
    OBVIOUS
  <2> QED
    BY <2>1, BlameSets, OneMore
<1>3. /\ Cardinality(GaveUp') \in Nat /\ Cardinality(GaveUp) \in Nat
      /\ Cardinality(GaveUp') <= Cardinality(GaveUp) + 1
      /\ GaveUp' \subseteq GaveUp => Cardinality(GaveUp') <= Cardinality(GaveUp)
      /\ w \in GaveUp /\ GaveUp' \subseteq GaveUp \ {w} =>
           Cardinality(GaveUp') <= Cardinality(GaveUp) - 1
  <2>1. GaveUp' \subseteq GaveUp \cup {w}
    OBVIOUS
  <2> QED
    BY <2>1, BlameSets, OneMore
<1> QED
  BY <1>1, <1>2, <1>3 DEF Owed

\* The steps of a worker around Execute: only Finish writes an outcome, and it
\* settles what the worker had to write.
LEMMA LoopTally ==
  ASSUME JP!IInv, NEW w \in Workers, Loop(w), proc[Self] = "up"
  PROVE  \/ Blamed' \subseteq Blamed /\ SecondTry' \subseteq SecondTry
            /\ GaveUp' \subseteq GaveUp
         \/ Blamed' \subseteq Blamed \cup {job[w]} /\ SecondTry' \subseteq SecondTry
            /\ w \in GaveUp /\ GaveUp' \subseteq GaveUp \ {w}
<1>0. /\ wpc \in [Workers -> JP!PCs] /\ attempt \in [Workers -> 0..2]
      /\ outcome \in [Workers -> JP!Outcomes] /\ hash \in [Jobs -> JP!Hashes]
      /\ faults = 0 /\ [v \in Workers |-> Self][w] = Self
      /\ (wpc[w] \in {"popped", "loaded", "exec", "finish"} => job[w] \in Jobs)
  BY DEF JP!IInv, JP!TypeOK, JP!maxAttempts, JP!HeldJobs, JP!Holding
<1>1. ~J!Fault(Self) /\ ~J!Cancelled(Self)
  BY <1>0 DEF J!Fault, J!Cancelled
<1>2. CASE J!loop(w) \/ J!Load(w)
  <2>1. UNCHANGED <<hash, attempt, outcome>> \/ (UNCHANGED hash /\ J!Return(w))
    BY <1>0, <1>1, <1>2
       DEF J!loop, J!Poll, J!LoopExit, J!Dequeue, J!DequeueTimeout, J!DequeueError,
           J!DequeueResend, J!Load, J!redis
  <2>2. \A v \in Workers : wpc'[v] \in {"exec", "finish"} => wpc'[v] = wpc[v]
    BY <1>0, <1>1, <1>2
       DEF J!loop, J!Poll, J!LoopExit, J!Dequeue, J!DequeueTimeout, J!DequeueError,
           J!DequeueResend, J!Load, J!Goto, J!Return
  <2>3. J!Return(w) => /\ \A v \in Workers \ {w} : attempt'[v] = attempt[v]
                                                /\ outcome'[v] = outcome[v]
                       /\ wpc'[w] = "idle"
    BY <1>0 DEF J!Return, J!Goto
  <2> QED
    BY <2>1, <2>2, <2>3 DEF Blamed, SecondTry, GaveUp
<1>3. CASE J!SetRunning(w)
  <2>1. job[w] \in Jobs /\ wpc[w] = "loaded"
    BY <1>0, <1>3 DEF J!SetRunning, J!At
  <2>2. \A j \in Jobs : hash'[j].outcome = hash[j].outcome
    BY <1>0, <1>3, <2>1 DEF J!SetRunning, J!Running
  <2>3. /\ \A v \in Workers \ {w} : /\ wpc'[v] = wpc[v] /\ attempt'[v] = attempt[v]
                                    /\ outcome'[v] = outcome[v]
        /\ wpc'[w] = "exec" => attempt'[w] = 1
        /\ wpc'[w] = "finish" => outcome'[w] = "unknown_language"
    BY <1>0, <1>3 DEF J!SetRunning, J!Goto
  <2> QED
    BY <2>2, <2>3 DEF Blamed, SecondTry, GaveUp
<1>4. CASE J!Finish(w)
  <2>1. job[w] \in Jobs /\ wpc[w] = "finish"
    BY <1>0, <1>4 DEF J!Finish, J!At
  <2>2. /\ hash'[job[w]].outcome = outcome[w]
        /\ \A j \in Jobs \ {job[w]} : hash'[j] = hash[j]
    BY <1>0, <1>4, <2>1 DEF J!Finish, J!Finished
  <2>3. /\ \A v \in Workers \ {w} : /\ wpc'[v] = wpc[v] /\ attempt'[v] = attempt[v]
                                    /\ outcome'[v] = outcome[v]
        /\ wpc'[w] = "idle"
    BY <1>0, <1>4 DEF J!Finish, J!Return, J!Goto
  <2> QED
    BY <2>1, <2>2, <2>3 DEF Blamed, SecondTry, GaveUp
<1>5. ~J!LoadError(w) /\ ~J!SetRunningError(w) /\ ~J!FinishError(w)
  BY <1>0, <1>1 DEF J!LoadError, J!SetRunningError, J!FinishError
<1> QED
  BY <1>2, <1>3, <1>4, <1>5 DEF Loop

\* Execute fails: the first failure of a job is owed once, the second once more.
LEMMA ErrorTally ==
  ASSUME JP!IInv, NEW w \in Workers, J!ExecuteError(w)
  PROVE  /\ Blamed' = Blamed
         /\ \/ SecondTry' \subseteq SecondTry \cup {w} /\ GaveUp' \subseteq GaveUp
            \/ w \in SecondTry /\ SecondTry' \subseteq SecondTry \ {w}
               /\ GaveUp' \subseteq GaveUp \cup {w}
<1>0. /\ wpc \in [Workers -> JP!PCs] /\ attempt \in [Workers -> 0..2]
      /\ outcome \in [Workers -> JP!Outcomes]
      /\ wpc[w] = "exec" /\ attempt[w] \in 1..2 /\ UNCHANGED hash
  BY DEF JP!IInv, JP!TypeOK, JP!maxAttempts, JP!WorkerOK, JP!WorkerFits,
         J!ExecuteError, J!At, J!redis
<1>1. \A v \in Workers \ {w} : /\ wpc'[v] = wpc[v] /\ attempt'[v] = attempt[v]
                               /\ outcome'[v] = outcome[v]
  BY <1>0 DEF J!ExecuteError, J!Goto
<1>2. CASE attempt[w] = 1
  <2>1. wpc'[w] = "exec"
    BY <1>0, <1>2 DEF J!ExecuteError, J!maxAttempts
  <2> QED
    BY <1>0, <1>1, <2>1 DEF Blamed, SecondTry, GaveUp
<1>3. CASE attempt[w] = 2
  <2>1. wpc'[w] = "finish"
    BY <1>0, <1>3 DEF J!ExecuteError, J!maxAttempts, J!Goto
  <2> QED
    BY <1>0, <1>1, <1>3, <2>1 DEF Blamed, SecondTry, GaveUp
<1> QED
  BY <1>0, <1>2, <1>3

\* Execute returns a response: nothing is owed for it.
LEMMA ReturnTally ==
  ASSUME JP!IInv, NEW w \in Workers, NEW o \in Responses, J!ExecuteReturns(w, o)
  PROVE  Blamed' = Blamed /\ SecondTry' \subseteq SecondTry /\ GaveUp' \subseteq GaveUp
<1>0. /\ wpc \in [Workers -> JP!PCs] /\ outcome \in [Workers -> JP!Outcomes]
      /\ UNCHANGED <<hash, attempt>>
  BY DEF JP!IInv, JP!TypeOK, J!ExecuteReturns, J!redis
<1>1. /\ \A v \in Workers \ {w} : wpc'[v] = wpc[v] /\ outcome'[v] = outcome[v]
      /\ wpc'[w] = "finish" /\ outcome'[w] = o /\ o # "vm_error"
  BY <1>0, AppAssumption DEF J!ExecuteReturns, J!Goto
<1> QED
  BY <1>0, <1>1 DEF Blamed, SecondTry, GaveUp

\* An error of an Executor is one more failure while the context is live.
LEMMA Pays ==
  ASSUME T!TypeOK, NEW w, ~ctxDone
  PROVE  /\ Paid \in Int
         /\ T!FlakyFails(w) \/ T!PullFails(w, ctxDone) \/ T!RunFails(w) =>
              Paid' \in Int /\ Paid' >= Paid + 1
         /\ T!FlakyPasses(w, lang[w]) \/ T!ensureImage(w, ctxDone) \/ T!Run(w) =>
              Paid' \in Int /\ Paid' >= Paid
<1>0. failuresLeft \in Int /\ mishaps \in Int /\ Failures \in Int
  BY AppAssumption DEF T!TypeOK
<1>1. T!FlakyFails(w) \/ T!PullFails(w, ctxDone) \/ T!RunFails(w) =>
        Paid' \in Int /\ Paid' >= Paid + 1
  BY <1>0 DEF Paid, T!FlakyFails, T!PullFails, T!RunFails
<1>2. T!FlakyPasses(w, lang[w]) \/ T!ensureImage(w, ctxDone) \/ T!Run(w) =>
        Paid' \in Int /\ Paid' >= Paid
  BY <1>0 DEF Paid, T!FlakyPasses, T!ensureImage, T!Lock, T!Have, T!HaveNot, T!PullOK,
         T!Run
<1> QED
  BY <1>0, <1>1, <1>2 DEF Paid

LEMMA StepBlame ==
  ASSUME BlameOK, JP!IInv, ImagesOK, MainOK, VP!LateInv, [Next]_vars
  PROVE  BlameOK'
<1> SUFFICES ASSUME executor' = "own", proc'[Self] = "up" PROVE Owed' <= Paid'
  BY DEF BlameOK
<1>0. /\ T!TypeOK /\ Paid \in Int
      /\ proc \in [{Self} -> {"up", "stopping", "down"}]
      /\ hash \in [Jobs -> JP!Hashes]
  BY AppAssumption DEF ImagesOK, T!TypeOK, Paid, JP!IInv, JP!TypeOK
<1>1. UNCHANGED ownVars => Paid' = Paid
  BY DEF ownVars, Paid
<1>2. UNCHANGED executor
  BY DEF Next, Listen, mainStep, ListenFails, NewFails, Shutdown, Exit, ServeFails,
       Signal, Close, Refill, worker, Loop, Acquire, AcquireGoesOn, AcquireError,
       Exchange, OwnExecute, Request, vars, appVars
<1>3. executor = "own" /\ \A w \in Workers : apc[w] = "out"
  BY <1>2 DEF MainOK, VP!LateInv
<1>4. ~Exit /\ ~ServeFails /\ ~Signal
  BY <1>0 DEF Exit, ServeFails, Signal, J!Exit, J!Crash, J!Vanish, J!Signal
<1>5. ASSUME UNCHANGED <<jobVars, ownVars>> PROVE Owed' <= Paid'
  <2>1. Blamed' = Blamed /\ SecondTry' = SecondTry /\ GaveUp' = GaveUp /\ UNCHANGED proc
    BY <1>5 DEF jobVars, Blamed, SecondTry, GaveUp
  <2> QED
    BY <1>0, <1>1, <1>3, <1>5, <2>1 DEF BlameOK, Owed
<1>6. ASSUME NEW w \in Workers, worker(w) PROVE Owed' <= Paid'
  <2>1. ~Acquire(w) /\ ~AcquireError(w) /\ ~Exchange(w)
    BY <1>3 DEF Acquire, AcquireError, Exchange, P!AcquireCancelled, P!ReleaseOrDiscard
  <2>2. CASE Loop(w)
    <3>1. UNCHANGED <<proc, ownVars>>
      BY <2>2
         DEF Loop, J!loop, J!Poll, J!LoopExit, J!Dequeue, J!DequeueTimeout, J!DequeueError,
             J!DequeueResend, J!Load, J!LoadError, J!SetRunning, J!SetRunningError,
             J!Finish, J!FinishError
    <3>2. Owed <= Paid /\ proc[Self] = "up"
      BY <1>3, <3>1 DEF BlameOK
    <3>3. Paid' \in Int /\ Paid' >= Paid
      BY <1>0, <1>1, <3>1
    <3>4. \/ Blamed' \subseteq Blamed /\ SecondTry' \subseteq SecondTry
             /\ GaveUp' \subseteq GaveUp
          \/ Blamed' \subseteq Blamed \cup {job[w]} /\ SecondTry' \subseteq SecondTry
             /\ w \in GaveUp /\ GaveUp' \subseteq GaveUp \ {w}
      BY <2>2, <3>2, LoopTally
    <3> QED
      BY <1>0, <3>2, <3>3, <3>4, Tally
  <2>3. CASE OwnExecute(w)
    <3>1. UNCHANGED proc
      BY <2>3 DEF OwnExecute, Errs, J!ExecuteReturns, J!ExecuteError, jobVars
    <3>2. Owed <= Paid /\ ~ctxDone
      BY <1>3, <3>1 DEF BlameOK, MainOK
    <3>3. ASSUME T!FlakyFails(w) \/ T!PullFails(w, ctxDone) \/ T!RunFails(w),
                 J!ExecuteError(w)
          PROVE  Owed' <= Paid'
      BY <1>0, <3>2, <3>3, Pays, ErrorTally, Tally
    <3>4. ASSUME T!FlakyPasses(w, lang[w]) \/ T!ensureImage(w, ctxDone), UNCHANGED jobVars
          PROVE  Owed' <= Paid'
      <4>1. Blamed' = Blamed /\ SecondTry' = SecondTry /\ GaveUp' = GaveUp
        BY <3>4 DEF jobVars, Blamed, SecondTry, GaveUp
      <4> QED
        BY <1>0, <3>2, <3>4, <4>1, Pays, Tally
    <3>5. ASSUME T!Run(w), NEW o \in Responses, J!ExecuteReturns(w, o)
          PROVE  Owed' <= Paid'
      BY <1>0, <3>2, <3>5, Pays, ReturnTally, Tally
    <3> QED
      BY <2>3, <3>3, <3>4, <3>5 DEF OwnExecute, Errs
  <2>4. AcquireGoesOn(w) => UNCHANGED <<jobVars, ownVars>>
    BY DEF AcquireGoesOn
  <2> QED
    BY <1>5, <1>6, <2>1, <2>2, <2>3, <2>4 DEF worker
<1>7. ASSUME NEW j \in Jobs, NEW l \in Langs, Request(j, l) PROVE Owed' <= Paid'
  <2>1. UNCHANGED <<wpc, attempt, outcome, proc, ownVars>>
    BY <1>7 DEF Request, J!ExecAccept, J!local
  <2>2. \A i \in Jobs : hash'[i].outcome = hash[i].outcome
    BY <1>0, <1>7 DEF Request, J!ExecAccept, J!Enqueue, J!Queued
  <2>3. Blamed' = Blamed /\ SecondTry' = SecondTry /\ GaveUp' = GaveUp
    BY <2>1, <2>2 DEF Blamed, SecondTry, GaveUp
  <2> QED
    BY <1>0, <1>1, <1>3, <2>1, <2>3 DEF BlameOK, Owed
<1>8. ASSUME Listen \/ ListenFails \/ NewFails \/ Shutdown \/ Close \/ Refill
      PROVE  UNCHANGED <<jobVars, ownVars>>
  BY <1>8 DEF Listen, ListenFails, NewFails, Shutdown, Close, Refill
<1>9. UNCHANGED vars => UNCHANGED <<jobVars, ownVars>>
  BY DEF vars
<1> QED
  BY <1>4, <1>5, <1>6, <1>7, <1>8, <1>9 DEF Next, mainStep

-----------------------------------------------------------------------------
(***************************************************************************)
(* Whose failures a job is failed for.  The errors Execute gave for a job  *)
(* are the attempts at it before the present one, and two of them are what *)
(* a worker about to write "vm_error" has seen.                            *)
(***************************************************************************)

JobLost(j) ==
  /\ lost[j] <= execs[j]
  /\ J!Terminal(hash[j].status) => (hash[j].outcome = "vm_error" <=> lost[j] = 2)

WorkerLost(w) ==
  /\ wpc[w] = "exec" => lost[job[w]] = attempt[w] - 1
  /\ wpc[w] = "finish" => (outcome[w] = "vm_error" <=> lost[job[w]] = 2)

LostOK ==
  /\ lost \in [Jobs -> Nat]
  /\ \A j \in Jobs : JobLost(j)
  /\ \A w \in Workers : WorkerLost(w)

\* What LostOK rests on, as JobQueue has it.
LEMMA JobFacts ==
  ASSUME JP!IInv
  PROVE  /\ wpc \in [Workers -> JP!PCs] /\ job \in [Workers -> Jobs \cup {NoJob}]
         /\ attempt \in [Workers -> 0..2] /\ outcome \in [Workers -> JP!Outcomes]
         /\ hash \in [Jobs -> JP!Hashes] /\ execs \in [Jobs -> Nat]
         /\ faults = 0
         /\ \A w \in Workers :
              /\ wpc[w] \in {"popped", "loaded", "exec", "finish"} => job[w] \in Jobs
              /\ wpc[w] \in {"popped", "loaded"} => execs[job[w]] = 0
              /\ wpc[w] = "exec" => attempt[w] \in 1..2 /\ execs[job[w]] = attempt[w]
              /\ wpc[w] \in {"exec", "finish"} => hash[job[w]].status = "running"
         /\ \A v, w \in Workers :
              job[v] = job[w] /\ job[v] \in Jobs => v = w
<1>1. /\ wpc \in [Workers -> JP!PCs] /\ job \in [Workers -> Jobs \cup {NoJob}]
      /\ attempt \in [Workers -> 0..2] /\ outcome \in [Workers -> JP!Outcomes]
      /\ hash \in [Jobs -> JP!Hashes] /\ execs \in [Jobs -> Nat]
      /\ faults = 0
  BY DEF JP!IInv, JP!TypeOK, JP!maxAttempts
<1>2. \A w \in Workers :
        wpc[w] \in {"popped", "loaded", "exec", "finish"} => job[w] \in Jobs
  BY <1>1 DEF JP!IInv, JP!HeldJobs, JP!Holding
<1>3. \A w \in Workers :
        /\ wpc[w] \in {"popped", "loaded"} => execs[job[w]] = 0
        /\ wpc[w] = "exec" => attempt[w] \in 1..2 /\ execs[job[w]] = attempt[w]
        /\ wpc[w] \in {"exec", "finish"} => hash[job[w]].status = "running"
  BY DEF JP!IInv, JP!WorkerOK, JP!WorkerFits
<1>4. \A v, w \in Workers : job[v] = job[w] /\ job[v] \in Jobs => v = w
  BY DEF JP!IInv, JP!SingleOwner, JP!Holds
<1> QED
  BY <1>1, <1>2, <1>3, <1>4

\* Execute gives w an error: the attempt it ends is the last one, or the next
\* begins.  No other worker has this job, and it is not written yet.
LEMMA ErrsLost ==
  ASSUME LostOK, JP!IInv, NEW w \in Workers, Errs(w)
  PROVE  LostOK'
<1> USE JobFacts
<1>0. /\ wpc[w] = "exec" /\ job[w] \in Jobs /\ UNCHANGED <<hash, job>>
      /\ lost' = [lost EXCEPT ![job[w]] = @ + 1]
      /\ ~J!Terminal(hash[job[w]].status)
  BY DEF Errs, J!ExecuteError, J!At, J!redis, J!Terminal
<1>1. /\ lost' \in [Jobs -> Nat]
      /\ lost'[job[w]] = attempt[w]
      /\ \A j \in Jobs \ {job[w]} : lost'[j] = lost[j]
  BY <1>0 DEF LostOK, WorkerLost
<1>2. /\ \A j \in Jobs \ {job[w]} : execs'[j] = execs[j]
      /\ \A v \in Workers \ {w} : /\ wpc'[v] = wpc[v] /\ attempt'[v] = attempt[v]
                                  /\ outcome'[v] = outcome[v]
  BY <1>0 DEF Errs, J!ExecuteError, J!Goto
<1>3. /\ execs'[job[w]] >= attempt[w]
      /\ \/ wpc'[w] = "exec" /\ attempt'[w] = attempt[w] + 1
         \/ wpc'[w] = "finish" /\ outcome'[w] = "vm_error" /\ attempt[w] = 2
  <2>1. CASE attempt[w] = 1
    BY <1>0, <2>1 DEF Errs, J!ExecuteError, J!maxAttempts
  <2>2. CASE attempt[w] = 2
    BY <1>0, <2>2 DEF Errs, J!ExecuteError, J!maxAttempts, J!Goto
  <2> QED
    BY <1>0, <2>1, <2>2
<1>4. ASSUME NEW j \in Jobs PROVE JobLost(j)'
  BY <1>0, <1>1, <1>2, <1>3 DEF LostOK, JobLost, J!Terminal
<1>5. ASSUME NEW v \in Workers PROVE WorkerLost(v)'
  <2>1. CASE v = w
    BY <1>0, <1>1, <1>3, <2>1 DEF WorkerLost
  <2>2. CASE v # w
    <3>1. wpc[v] \in {"exec", "finish"} => job[v] \in Jobs \ {job[w]}
      BY <1>0, <2>2
    <3> QED
      BY <1>0, <1>1, <1>2, <2>2, <3>1 DEF LostOK, WorkerLost
  <2> QED
    BY <2>1, <2>2
<1> QED
  BY <1>1, <1>4, <1>5 DEF LostOK

\* Execute gives w a response: fewer than two errors came before it.
LEMMA ReturnLost ==
  ASSUME LostOK, JP!IInv, UNCHANGED lost,
         NEW w \in Workers, NEW o \in Responses, J!ExecuteReturns(w, o)
  PROVE  LostOK'
<1> USE JobFacts
<1>0. wpc[w] = "exec" /\ job[w] \in Jobs /\ UNCHANGED <<hash, job, execs>>
  BY DEF J!ExecuteReturns, J!At, J!redis
<1>1. /\ wpc'[w] = "finish" /\ outcome'[w] = o /\ o # "vm_error"
      /\ \A v \in Workers \ {w} : /\ wpc'[v] = wpc[v] /\ attempt'[v] = attempt[v]
                                  /\ outcome'[v] = outcome[v]
  BY AppAssumption DEF J!ExecuteReturns, J!Goto
<1>2. lost[job[w]] # 2
  BY <1>0 DEF LostOK, WorkerLost
<1>3. \A j \in Jobs : JobLost(j)'
  BY <1>0 DEF LostOK, JobLost, J!Terminal
<1>4. \A v \in Workers : WorkerLost(v)'
  BY <1>0, <1>1, <1>2 DEF LostOK, WorkerLost
<1> QED
  BY <1>3, <1>4 DEF LostOK

\* What a worker does around Execute: a job starts with no error, and Finish
\* writes the outcome the worker has.
LEMMA LoopLost ==
  ASSUME LostOK, JP!IInv, NEW w \in Workers, Loop(w)
  PROVE  LostOK'
<1> USE JobFacts
<1>0. UNCHANGED lost /\ [v \in Workers |-> Self][w] = Self /\ ~J!Fault(Self)
  BY DEF Loop, appVars, J!Fault
<1>1. CASE J!loop(w) \/ J!Load(w) \/ J!LoadError(w) \/ J!SetRunningError(w)
             \/ J!FinishError(w)
  <2>1. UNCHANGED <<hash, execs>>
    BY <1>0, <1>1
       DEF J!loop, J!Poll, J!LoopExit, J!Dequeue, J!DequeueTimeout, J!DequeueError,
           J!DequeueResend, J!Load, J!LoadError, J!SetRunningError, J!FinishError,
           J!redis
  <2>2. wpc'[w] \notin {"exec", "finish"}
    BY <1>0, <1>1
       DEF J!loop, J!Poll, J!LoopExit, J!Dequeue, J!DequeueTimeout, J!DequeueError,
           J!DequeueResend, J!Load, J!LoadError, J!SetRunningError, J!FinishError,
           J!Goto, J!Return, J!At
  <2>3. \A v \in Workers \ {w} : /\ wpc'[v] = wpc[v] /\ job'[v] = job[v]
                                /\ attempt'[v] = attempt[v] /\ outcome'[v] = outcome[v]
    BY <1>0, <1>1
       DEF J!loop, J!Poll, J!LoopExit, J!Dequeue, J!DequeueTimeout, J!DequeueError,
           J!DequeueResend, J!Load, J!LoadError, J!SetRunningError, J!FinishError,
           J!Goto, J!Return
  <2>4. \A j \in Jobs : JobLost(j)'
    BY <1>0, <2>1 DEF LostOK, JobLost, J!Terminal
  <2>5. \A v \in Workers : WorkerLost(v)'
    BY <1>0, <2>2, <2>3 DEF LostOK, WorkerLost
  <2> QED
    BY <1>0, <2>4, <2>5 DEF LostOK
<1>2. CASE J!SetRunning(w)
  <2>1. /\ wpc[w] = "loaded" /\ job[w] \in Jobs /\ UNCHANGED job
        /\ lost[job[w]] = 0
    BY <1>2 DEF J!SetRunning, J!At, LostOK, JobLost
  <2>2. /\ hash'[job[w]].status = "running" /\ execs'[job[w]] \in Nat
        /\ \A j \in Jobs \ {job[w]} : hash'[j] = hash[j] /\ execs'[j] = execs[j]
    BY <1>2, <2>1 DEF J!SetRunning, J!Running
  <2>3. /\ \A v \in Workers \ {w} : /\ wpc'[v] = wpc[v] /\ attempt'[v] = attempt[v]
                                    /\ outcome'[v] = outcome[v]
        /\ wpc'[w] = "exec" => attempt'[w] = 1
        /\ wpc'[w] = "finish" => outcome'[w] = "unknown_language"
    BY <1>2 DEF J!SetRunning, J!Goto
  <2>4. \A j \in Jobs : JobLost(j)'
    BY <1>0, <2>1, <2>2 DEF LostOK, JobLost, J!Terminal
  <2>5. \A v \in Workers : WorkerLost(v)'
    BY <1>0, <2>1, <2>3 DEF LostOK, WorkerLost
  <2> QED
    BY <1>0, <2>4, <2>5 DEF LostOK
<1>3. CASE J!Finish(w)
  <2>1. wpc[w] = "finish" /\ job[w] \in Jobs /\ UNCHANGED execs
    BY <1>3 DEF J!Finish, J!At
  <2>2. /\ hash'[job[w]].outcome = outcome[w]
        /\ \A j \in Jobs \ {job[w]} : hash'[j] = hash[j]
    BY <1>3, <2>1 DEF J!Finish, J!Finished
  <2>3. /\ \A v \in Workers \ {w} : /\ wpc'[v] = wpc[v] /\ job'[v] = job[v]
                                    /\ attempt'[v] = attempt[v] /\ outcome'[v] = outcome[v]
        /\ wpc'[w] = "idle"
    BY <1>3 DEF J!Finish, J!Return, J!Goto
  <2>4. \A j \in Jobs : JobLost(j)'
    BY <1>0, <2>1, <2>2 DEF LostOK, JobLost, WorkerLost, J!Terminal
  <2>5. \A v \in Workers : WorkerLost(v)'
    BY <1>0, <2>3 DEF LostOK, WorkerLost
  <2> QED
    BY <1>0, <2>4, <2>5 DEF LostOK
<1> QED
  BY <1>1, <1>2, <1>3 DEF Loop

LEMMA StepLost == ASSUME LostOK, JP!IInv, [Next]_vars PROVE LostOK'
<1>1. ASSUME UNCHANGED <<jobVars, lost>> PROVE LostOK'
  BY <1>1 DEF jobVars, LostOK, JobLost, WorkerLost, J!Terminal
<1>2. ASSUME NEW w \in Workers, worker(w)
      PROVE  \/ UNCHANGED <<jobVars, lost>>
             \/ Loop(w) \/ Errs(w)
             \/ UNCHANGED lost /\ \E o \in Responses : J!ExecuteReturns(w, o)
  BY <1>2 DEF worker, Acquire, AcquireGoesOn, AcquireError, Exchange, OwnExecute,
       appVars, history
<1>3. ASSUME NEW w \in Workers, worker(w) PROVE LostOK'
  BY <1>1, <1>2, <1>3, LoopLost, ErrsLost, ReturnLost
<1>4. ASSUME UNCHANGED lost, J!Signal(Self) \/ J!Exit(Self) \/ J!Crash(Self)
      PROVE  LostOK'
  <2>1. UNCHANGED <<hash, execs>>
    BY <1>4 DEF J!Signal, J!Exit, J!Crash, J!redis
  <2>2. \/ UNCHANGED <<wpc, job, attempt, outcome>>
        \/ \A w \in Workers : wpc'[w] = "exited"
    BY <1>4 DEF J!Signal, J!Exit, J!Crash, J!Vanish, J!local
  <2>3. \A j \in Jobs : JobLost(j)'
    BY <1>4, <2>1 DEF LostOK, JobLost, J!Terminal
  <2>4. \A w \in Workers : WorkerLost(w)'
    BY <1>4, <2>2 DEF LostOK, WorkerLost
  <2> QED
    BY <1>4, <2>3, <2>4 DEF LostOK
<1>5. ASSUME NEW j \in Jobs, NEW l \in Langs, Request(j, l) PROVE LostOK'
  <2>1. UNCHANGED <<wpc, job, attempt, outcome, execs, lost>>
    BY <1>5 DEF Request, J!ExecAccept, J!local, appVars
  <2>2. /\ hash'[j].status = "queued"
        /\ \A i \in Jobs \ {j} : hash'[i] = hash[i]
    BY <1>5, JobFacts DEF Request, J!ExecAccept, J!Enqueue, J!Queued
  <2>3. \A i \in Jobs : JobLost(i)'
    BY <2>1, <2>2 DEF LostOK, JobLost, J!Terminal
  <2>4. \A w \in Workers : WorkerLost(w)'
    BY <2>1 DEF LostOK, WorkerLost
  <2> QED
    BY <2>1, <2>3, <2>4 DEF LostOK
<1>6. ASSUME Listen \/ mainStep \/ ServeFails \/ Signal \/ Close \/ Refill
      PROVE  /\ UNCHANGED lost
             /\ \/ UNCHANGED jobVars
                \/ J!Signal(Self) \/ J!Exit(Self) \/ J!Crash(Self)
  BY <1>6 DEF Listen, mainStep, ListenFails, NewFails, Shutdown, Exit, ServeFails,
       Signal, Close, Refill, appVars, history
<1>7. UNCHANGED vars => UNCHANGED <<jobVars, lost>>
  BY DEF vars, appVars
<1> QED
  BY <1>1, <1>3, <1>4, <1>5, <1>6, <1>7 DEF Next

-----------------------------------------------------------------------------
(***************************************************************************)
(* The invariant of the process: those of its two big components, that     *)
(* they are used the way they require, and the books above.                *)
(***************************************************************************)

AInv ==
  /\ JP!IInv /\ VP!OwnInv /\ VP!LateInv
  /\ AsksForLang /\ ImagesOK /\ MainOK /\ RunsOK /\ BlameOK /\ LostOK

LEMMA InitAInv == ASSUME Init PROVE AInv
<1>1. JP!Init
  BY DEF Init, J!Init, JP!Init, J!NoHash, JP!NoHash
<1>2. VP!Init
  BY DEF Init, P!Init, VP!Init, P!VMs, VP!VMs
<1>3. JP!IInv
  BY <1>1, JP!InitInv, JobAssumption
<1>4. VP!OwnInv /\ VP!LateInv
  BY <1>2, VP!InitOwnInv, VP!InitLate, PoolAssumption
<1>5. ImagesOK /\ MainOK
  BY InitImages, InitMain DEF Init
<1>6. AsksForLang
  BY <1>1 DEF JP!Init, AsksForLang
<1>7. RunsOK
  BY DEF Init, RunsOK
<1>8. BlameOK
  <2>1. Blamed = {} /\ SecondTry = {} /\ GaveUp = {}
    BY <1>1 DEF JP!Init, JP!NoHash, Blamed, SecondTry, GaveUp
  <2>2. Owed = 0
    BY <2>1, FS_EmptySet DEF Owed
  <2>3. Paid = 0
    BY AppAssumption DEF Init, T!Init, Paid
  <2> QED
    BY <2>2, <2>3 DEF BlameOK
<1>9. LostOK
  BY <1>1 DEF Init, JP!Init, JP!NoHash, LostOK, JobLost, WorkerLost, J!Terminal
<1> QED
  BY <1>3, <1>4, <1>5, <1>6, <1>7, <1>8, <1>9 DEF AInv

LEMMA StepAInv == ASSUME AInv, [Next]_vars PROVE AInv'
<1>0. JP!TypeOK
  BY DEF AInv, JP!IInv
<1>1. [JP!Next]_JP!vars /\ [VP!PrewarmedStep]_VP!vars
  BY JobStep, PoolStep DEF AInv
<1>2. JP!IInv'
  BY <1>1, JP!StepInv, JobAssumption DEF AInv
<1>3. VP!OwnInv' /\ VP!LateInv'
  BY <1>1, VP!StepOwnInv, VP!StepLate, PoolAssumption DEF AInv
<1>4. AsksForLang' /\ ImagesOK' /\ MainOK'
  BY <1>0, <1>1, StepAsks, StepImages, StepMain DEF AInv
<1>5. RunsOK' /\ BlameOK' /\ LostOK'
  BY StepRuns, StepBlame, StepLost DEF AInv
<1> QED
  BY <1>2, <1>3, <1>4, <1>5 DEF AInv

LEMMA AlwaysAInv == Spec => []AInv
<1>1. Init => AInv
  BY InitAInv
<1>2. AInv /\ [Next]_vars => AInv'
  BY StepAInv
<1> QED
  BY <1>1, <1>2, PTL DEF Spec

-----------------------------------------------------------------------------
\* What it is for.

\* The variables of every component keep their types, and the callers' context
\* is done only when a signal has stopped the process, whatever main, the
\* workers, the pool and an Executor do.
THEOREM TypeCorrect == Spec => []TypeOK
<1>1. ASSUME AInv PROVE TypeOK
  <2>1. J!TypeOK
    BY <1>1 DEF AInv, JP!IInv, JP!TypeOK, J!TypeOK, JP!Hashes, J!Hashes, JP!Statuses,
         J!Statuses, JP!Outcomes, J!Outcomes, JP!PCs, J!PCs, JP!maxAttempts, J!maxAttempts
  <2>2. P!TypeOK
    BY <1>1 DEF AInv, VP!OwnInv, VP!TypeOK, P!TypeOK, VP!VMs, P!VMs, VP!Stages, P!Stages,
         VP!PCs, P!PCs, VP!Panics, P!Panics
  <2> QED
    BY <1>1, <2>1, <2>2 DEF AInv, ImagesOK, MainOK, RunsOK, LostOK, TypeOK
<1> QED
  BY <1>1, AlwaysAInv, PTL

\* The isolation the system is there for (Exchange, worker.go's retry rule): no
\* two jobs, and no two attempts at one, ever run on the same VM.  A VM that
\* has run something is dead, dead VMs stay dead, and an exchange needs a VM
\* its worker holds.
THEOREM AttemptsOwnVM == Spec => []OwnVM
<1>1. AInv => OwnVM
  BY DEF AInv, RunsOK, OwnVM
<1> QED
  BY <1>1, AlwaysAInv, PTL

\* Shutdown leaves no pooled VM behind, and at most one late boot for each
\* worker; a New that cannot listen leaves nothing at all.
THEOREM ExitIsClean == Spec => []ExitLeavesOnlyRaced
<1>1. ASSUME AInv, executor = "pool", main \in {"exited", "refused"}
      PROVE  /\ \A v \in P!VMs : stage[v] \notin {"idle", "ready"}
             /\ Cardinality(P!Refilling) <= Cardinality(Workers)
             /\ main = "refused" => P!Refilling = {}
  <2>0. P!VMs = VP!VMs /\ P!Refilling = VP!Refilling
    BY DEF P!VMs, VP!VMs, P!Refilling, VP!Refilling
  <2>1. closer = "done"
    BY <1>1 DEF AInv, MainOK
  <2>2. VP!NothingLeftIdle
    BY <1>1, VP!PInvNothingLeft, PoolAssumption DEF AInv, VP!OwnInv
  <2>3. /\ IsFiniteSet(VP!Refilling)
        /\ Cardinality(VP!Refilling) + Cardinality(VP!Late) <= Cardinality(Workers)
        /\ calls = 0 => VP!Refilling = {}
    BY <1>1, <2>1 DEF AInv, VP!LateInv, VP!PastWait, VP!IsFiniteSet, IsFiniteSet,
         VP!Cardinality, Cardinality
  <2>4. IsFiniteSet(VP!Late)
    BY FS_Subset, AppAssumption, VP!Late \subseteq Workers DEF VP!Late
  <2>5. Cardinality(VP!Refilling) \in Nat /\ Cardinality(VP!Late) \in Nat
        /\ Cardinality(Workers) \in Nat
    BY <2>3, <2>4, FS_CardinalityType, AppAssumption
  <2>6. main = "refused" => calls = 0
    BY <1>1 DEF AInv, MainOK
  <2> QED
    BY <2>0, <2>1, <2>2, <2>3, <2>5, <2>6 DEF VP!NothingLeftIdle
<1>2. ASSUME AInv, executor = "pool", main = "refused", NEW v \in P!VMs
      PROVE  stage[v] \in {"unused", "dead", "failed"}
  <2>0. P!VMs = VP!VMs /\ v \notin P!Refilling /\ stage[v] \in VP!Stages
    BY <1>1, <1>2 DEF P!VMs, VP!VMs, AInv, VP!OwnInv, VP!TypeOK
  <2>1. stage[v] # "held"
    <3>1. \A w \in Workers : apc[w] = "out"
      BY <1>2 DEF AInv, MainOK, VP!LateInv
    <3> QED
      BY <1>2, <2>0, <3>1, VP!NoVMIsNoVM, PoolAssumption
         DEF AInv, VP!OwnInv, VP!HeldOK, VP!HoldingOK
  <2>2. stage[v] \notin {"asked", "callboot", "idle", "ready"}
    BY <1>1, <1>2, <2>0 DEF AInv, VP!LateInv
  <2> QED
    BY <2>0, <2>1, <2>2 DEF VP!Stages, P!Refilling
<1>3. AInv => ExitLeavesOnlyRaced
  BY <1>1, <1>2 DEF ExitLeavesOnlyRaced
<1> QED
  BY <1>3, AlwaysAInv, PTL

\* A job is failed for the VM's sake exactly if two Execute calls for it gave an
\* error, whoever else fails, is cancelled or finds the pool closed; and with an
\* Executor of its own no failure is used twice: what is owed for the jobs that
\* are written, about to be written or in progress never exceeds the failures
\* there were.
THEOREM BlamedAfterTwo == Spec => []FailedTwice
<1>1. ASSUME AInv, executor = "own", proc[Self] = "up"
      PROVE  2 * Cardinality(Blamed) <= Paid
  <2>1. /\ Cardinality(Blamed) \in Nat /\ Cardinality(SecondTry) \in Nat
        /\ Cardinality(GaveUp) \in Nat
    BY BlameSets, FS_CardinalityType
  <2>2. Paid \in Int
    BY <1>1, AppAssumption DEF AInv, ImagesOK, T!TypeOK, Paid
  <2>3. Owed <= Paid
    BY <1>1 DEF AInv, BlameOK
  <2> QED
    BY <2>1, <2>2, <2>3 DEF Owed
<1>2. ASSUME AInv, NEW j \in Jobs, J!Terminal(hash[j].status)
      PROVE  hash[j].outcome = "vm_error" <=> lost[j] = 2
  BY <1>2 DEF AInv, LostOK, JobLost
<1>3. AInv => FailedTwice
  BY <1>1, <1>2 DEF FailedTwice, Blamed, Paid
<1> QED
  BY <1>3, AlwaysAInv, PTL

\* However many workers need an image at once, DockerExecutor pulls it once:
\* ensureMu is held from the look at pulled to the end of the pull.
THEOREM ImagePulledOnce == Spec => []PulledOnce
<1>1. AInv => PulledOnce
  BY DEF AInv, ImagesOK, PulledOnce, T!PulledOnce, T!Here
<1> QED
  BY <1>1, AlwaysAInv, PTL

\* The composition adds no behaviour to its parts: what the workers and clients
\* of a process do is a behaviour of JobQueue and what its pool does one of
\* PrewarmedPerLang, so everything shown of either holds in the whole process.
THEOREM PartsAreKept == Spec => J!Spec /\ P!Spec
<1>1. ASSUME [Next]_vars PROVE [J!Next]_J!vars
  <2>1. CASE UNCHANGED jobVars
    BY <2>1 DEF jobVars, J!vars
  <2>2. CASE J!Signal(Self) \/ J!Exit(Self) \/ J!Crash(Self)
    BY <2>2 DEF J!Next
  <2>3. ASSUME NEW w \in Workers, worker(w), ~UNCHANGED jobVars PROVE J!Next
    <3>1. J!loop(w) \/ J!process(w)
      BY <2>3, AppAssumption
         DEF worker, Loop, Acquire, AcquireGoesOn, AcquireError, Exchange, OwnExecute,
             Errs, J!process
    <3> QED
      BY <3>1 DEF J!Next
  <2>4. ASSUME NEW j \in Jobs, NEW l \in Langs, Request(j, l) PROVE J!Next
    <3>1. [body |-> "ok", complete |-> TRUE, lang |-> l] \in J!Requests
      BY DEF J!Requests
    <3> QED
      BY <2>4, <3>1 DEF Request, J!Next, J!exec
  <2>5. ASSUME Listen \/ mainStep \/ ServeFails \/ Signal \/ Close \/ Refill
        PROVE  \/ UNCHANGED jobVars
               \/ J!Signal(Self) \/ J!Exit(Self) \/ J!Crash(Self)
    BY <2>5 DEF Listen, mainStep, ListenFails, NewFails, Shutdown, Exit, ServeFails,
         Signal, Close, Refill
  <2> QED
    BY <1>1, <2>1, <2>2, <2>3, <2>4, <2>5 DEF Next, vars
<1>2. ASSUME AInv, [Next]_vars PROVE [P!Next]_P!vars
  <2>1. CASE UNCHANGED poolVars
    BY <2>1 DEF poolVars, P!vars
  <2>2. CASE P!CloseStore \/ P!Close \/ P!CancelCallers \/ \E v \in P!VMs : P!refill(v)
    BY <2>2 DEF P!Next
  <2>3. ASSUME NEW w \in Workers, worker(w), ~UNCHANGED poolVars PROVE P!Next
    <3>1. CASE Acquire(w)
      BY <1>2, <3>1 DEF Acquire, AInv, AsksForLang, P!Next
    <3>2. CASE AcquireGoesOn(w) \/ AcquireError(w) \/ Exchange(w)
      BY <3>2 DEF AcquireGoesOn, AcquireError, Exchange, P!Acquire, P!Next
    <3> QED
      BY <2>3, <3>1, <3>2 DEF worker, Loop, OwnExecute
  <2>4. ASSUME Listen \/ mainStep \/ ServeFails \/ Signal \/ Close \/ Refill
        PROVE  \/ UNCHANGED poolVars
               \/ P!CloseStore \/ P!Close \/ P!CancelCallers
               \/ \E v \in P!VMs : P!refill(v)
    BY <2>4 DEF Listen, mainStep, ListenFails, NewFails, Shutdown, Exit, ServeFails,
         Signal, Close, Refill
  <2>5. ASSUME NEW j \in Jobs, NEW l \in Langs, Request(j, l) PROVE UNCHANGED poolVars
    BY <2>5 DEF Request
  <2> QED
    BY <1>2, <2>1, <2>2, <2>3, <2>4, <2>5 DEF Next, vars
<1>3. Init => J!Init /\ P!newPrewarmedPerLang
  BY DEF Init, P!newPrewarmedPerLang
<1> QED
  BY <1>1, <1>2, <1>3, AlwaysAInv, PTL DEF Spec, J!Spec, P!Spec
=============================================================================
