------------------------------- MODULE Config -------------------------------
(***************************************************************************)
(* config/config.go: what FromEnv makes of the environment.  Only the      *)
(* settings that control depends on are kept: the required paths as        *)
(* whether they are there, the pool strategy, and the numbers that become  *)
(* sizes of pools and counts of goroutines.                                *)
(***************************************************************************)
EXTENDS Integers

Strategies == {"prewarmed_per_lang", "ondemand_spare", "prewarmed_generic"}

\* A variable that should hold a number: unset or empty, not a number, or one.
Settings == [kind: {"unset", "junk", "number"}, n: Int]

Unset == [kind |-> "unset", n |-> 0]

Number(i) == [kind |-> "number", n |-> i]

Environments ==
  [languagesFile: BOOLEAN, kernelPath: BOOLEAN, genericRootfs: BOOLEAN,
   strategy: Strategies \cup {"unset", "other"},
   poolSize: Settings, bootConcurrency: Settings, workerConcurrency: Settings,
   resultTTL: Settings]

\* A number that does not parse is replaced by the default, not refused.
envInt(s, def) == IF s.kind = "number" THEN s.n ELSE def

AtLeastOne(n) == IF n < 1 THEN 1 ELSE n

strategyOf(e) == IF e.strategy = "unset" THEN "prewarmed_per_lang" ELSE e.strategy

\* FromEnv returns an error, and main exits, unless all of these hold.
Accepted(e) ==
  /\ e.languagesFile
  /\ e.kernelPath
  /\ strategyOf(e) \in Strategies
  /\ strategyOf(e) = "prewarmed_generic" => e.genericRootfs

FromEnv(e) ==
  [PoolStrategy      |-> strategyOf(e),
   PoolSize          |-> AtLeastOne(envInt(e.poolSize, 1)),
   BootConcurrency   |-> AtLeastOne(envInt(e.bootConcurrency, 8)),
   WorkerConcurrency |-> AtLeastOne(envInt(e.workerConcurrency, 4)),
   ResultTTL         |-> envInt(e.resultTTL, 300)]

-----------------------------------------------------------------------------
\* What the pools and the workers assume of a configuration: New and Run never
\* make a channel without capacity, a semaphore without slots or a process
\* without workers.
Usable(cfg, e) ==
  /\ cfg.PoolStrategy \in Strategies
  /\ cfg.PoolSize \in Nat \ {0}
  /\ cfg.BootConcurrency \in Nat \ {0}
  /\ cfg.WorkerConcurrency \in Nat \ {0}
  /\ cfg.ResultTTL \in Int
  /\ cfg.PoolStrategy = "prewarmed_generic" => e.genericRootfs
=============================================================================
