--------------------------- MODULE TestExecutors ---------------------------
(***************************************************************************)
(* The Executor an embedding program gives to New instead of the pool      *)
(* (dreddtest/): FlakyExecutor, which fails its first Failures calls,      *)
(* around DockerExecutor, which pulls the image of a language once, under  *)
(* a mutex, and runs the request in containers.  LocalExecutor is the same *)
(* without the image.                                                      *)
(*                                                                         *)
(* A step is one access to what the callers share: the atomic counter, the *)
(* mutex with the map it guards, and the images of the docker host.        *)
(***************************************************************************)
EXTENDS Integers, FiniteSets

CONSTANTS
  Callers,      \* goroutines that call Execute
  Images,       \* one image per language of the catalogue
  NoImage,      \* no image
  NoCaller,     \* nobody
  Failures,     \* NewFlakyExecutor's failures
  MaxMishaps    \* bound: pulls and temp dirs that fail

VARIABLES
  at,            \* where each caller is in Execute
  image,         \* the image it needs
  failuresLeft,  \* FlakyExecutor.FailuresLeft
  ensureMu,      \* who holds the mutex
  pulled,        \* images known to be present
  present,       \* images on the docker host
  pulls,         \* history: successful pulls of each image
  mishaps        \* how many pulls and temp dirs have failed

docker == <<ensureMu, pulled, present, pulls>>
vars == <<at, image, failuresLeft, ensureMu, pulled, present, pulls, mishaps>>

Here(c, here) == at[c] = here

Goto(c, there) == at' = [at EXCEPT ![c] = there]

-----------------------------------------------------------------------------
\* FlakyExecutor.Execute: one atomic decrement decides.

FlakyFails(c) ==
  /\ Here(c, "out")
  /\ failuresLeft - 1 >= 0
  /\ failuresLeft' = failuresLeft - 1
  /\ UNCHANGED <<at, image, docker, mishaps>>

\* DockerExecutor.Execute begins, with the image of the language.
FlakyPasses(c, i) ==
  /\ Here(c, "out")
  /\ failuresLeft - 1 < 0
  /\ failuresLeft' = failuresLeft - 1
  /\ i \in Images
  /\ image' = [image EXCEPT ![c] = i]
  /\ Goto(c, "lock")
  /\ UNCHANGED <<docker, mishaps>>

-----------------------------------------------------------------------------
\* ensureImage.

\* Mutant: the mutex is not taken.
LockNot(c) ==
  /\ Here(c, "lock")
  /\ Goto(c, "check")
  /\ UNCHANGED <<image, failuresLeft, docker, mishaps>>

Lock(c) ==
  /\ Here(c, "lock")
  /\ ensureMu = NoCaller
  /\ ensureMu' = c
  /\ Goto(c, "check")
  /\ UNCHANGED <<image, failuresLeft, pulled, present, pulls, mishaps>>

\* The image is known, or docker image inspect finds it: the deferred Unlock.
Have(c, done) ==
  /\ Here(c, "check")
  /\ image[c] \in pulled \/ (image[c] \in present /\ ~done)
  /\ pulled' = pulled \cup {image[c]}
  /\ ensureMu' = NoCaller
  /\ Goto(c, "run")
  /\ UNCHANGED <<image, failuresLeft, present, pulls, mishaps>>

\* The image is not there, or the context is done and the command that would
\* look for it does not run.
HaveNot(c, done) ==
  /\ Here(c, "check")
  /\ image[c] \notin pulled
  /\ image[c] \in present => done
  /\ Goto(c, "pull")
  /\ UNCHANGED <<image, failuresLeft, docker, mishaps>>

PullOK(c, done) ==
  /\ Here(c, "pull")
  /\ ~done
  /\ present' = present \cup {image[c]}
  /\ pulled' = pulled \cup {image[c]}
  /\ pulls' = [pulls EXCEPT ![image[c]] = @ + 1]
  /\ ensureMu' = NoCaller
  /\ Goto(c, "run")
  /\ UNCHANGED <<image, failuresLeft, mishaps>>

ensureImage(c, done) ==
  Lock(c) \/ Have(c, done) \/ HaveNot(c, done) \/ PullOK(c, done)

\* Mutant: an early return forgets to unlock.
PullFailsLocked(c, done) ==
  /\ Here(c, "pull")
  /\ done \/ mishaps < MaxMishaps
  /\ mishaps' = IF done THEN mishaps ELSE mishaps + 1
  /\ Goto(c, "out")
  /\ UNCHANGED <<image, failuresLeft, docker>>

\* The pull fails, or is cut short: Execute returns an error.
PullFails(c, done) ==
  /\ Here(c, "pull")
  /\ done \/ mishaps < MaxMishaps
  /\ mishaps' = IF done THEN mishaps ELSE mishaps + 1
  /\ ensureMu' = NoCaller
  /\ Goto(c, "out")
  /\ UNCHANGED <<image, failuresLeft, pulled, present, pulls>>

-----------------------------------------------------------------------------
\* The rest of Execute: a temp dir, the source, the compiler, each stdin.

RunFails(c) ==
  /\ Here(c, "run")
  /\ mishaps < MaxMishaps
  /\ mishaps' = mishaps + 1
  /\ Goto(c, "out")
  /\ UNCHANGED <<image, failuresLeft, docker>>

\* A response: whatever the commands did, also when their context was
\* cancelled, there is no error.
Run(c) ==
  /\ Here(c, "run")
  /\ Goto(c, "out")
  /\ UNCHANGED <<image, failuresLeft, docker, mishaps>>

\* What the test did with the images before: MissingImages may have pulled
\* some, PrewarmImages may also have recorded them.
Prepared ==
  /\ present \in SUBSET Images
  /\ pulled \in SUBSET present

Init ==
  /\ Prepared
  /\ at = [c \in Callers |-> "out"]
  /\ image = [c \in Callers |-> NoImage]
  /\ failuresLeft = Failures
  /\ ensureMu = NoCaller
  /\ pulls = [i \in Images |-> 0]
  /\ mishaps = 0

-----------------------------------------------------------------------------
\* Type invariant.
TypeOK ==
  /\ at \in [Callers -> {"out", "lock", "check", "pull", "run"}]
  /\ image \in [Callers -> Images \cup {NoImage}]
  /\ failuresLeft \in Int
  /\ ensureMu \in Callers \cup {NoCaller}
  /\ pulled \subseteq Images /\ present \subseteq Images
  /\ pulls \in [Images -> Nat]
  /\ mishaps \in 0..MaxMishaps

\* The comments at docker_executor.go:53-54 and 161-163: however many callers
\* need an image at once, it is pulled once and never by two of them.
PulledOnce ==
  /\ \A i \in Images : pulls[i] <= 1
  /\ \A c, d \in Callers : Here(c, "pull") /\ Here(d, "pull") => c = d
=============================================================================
