----------------------------- MODULE MCJobQueue -----------------------------
(* Instance of JobQueue for TLC: worker goroutines in one or two processes. *)
EXTENDS JobQueue, TLC

CONSTANTS p1, p2, w1, w2, py, c

\* w1 and w2 run in p1.
OneProcess == (w1 :> p1) @@ (w2 :> p1)

\* Each process has one worker.
TwoProcesses == (w1 :> p1) @@ (w2 :> p2)

\* p1 knows both languages.
FullRegistry == (p1 :> {py, c})

\* p2 was started with an older languages file.
SkewedRegistry == (p1 :> {py, c}) @@ (p2 :> {py})

Symmetry == Permutations(Jobs)
=============================================================================
