---------------------------- MODULE ExecExchange ----------------------------
(***************************************************************************)
(* One Execute on one VM: the host dials the guest's vsock port, sends one *)
(* ExecRequest and waits for one ExecResponse under a deadline             *)
(* (pool/executor.go, firecracker/vsock.go); the guest agent accepts one   *)
(* connection, compiles, runs the program once per stdin under per-command *)
(* time limits, answers and powers off (guest/dreddagent/main.go).         *)
(*                                                                         *)
(* Time is discrete.  The user's commands take any time, and the agent     *)
(* kills them at their limit; what the agent itself does takes none.  The  *)
(* host acts on a deadline no later than it falls due.                     *)
(***************************************************************************)
EXTENDS Integers, Sequences

CONSTANTS
  Limits,         \* TimeLimitMs a request may have: any positive number
  MaxDuration,    \* the largest time.Duration
  ExtraBudget,    \* Executor.ExtraBudget
  DialTimeout,    \* Executor.DialTimeout
  MaxStdins,      \* bound: stdins of a request
  OutputLimit,    \* OutputLimitBytes: what a captured output is cut to
  MaxFrame,       \* MaxFrameBytes, in the same unit
  MayDie,         \* the guest may die at any time
  MaxTime         \* bound: how far time goes

ASSUME ExecExchangeAssumption ==
  /\ Limits \subseteq Nat \ {0}
  /\ MaxDuration \in Nat
  /\ ExtraBudget \in Nat
  /\ DialTimeout \in Nat \ {0}
  /\ MaxStdins \in Nat \ {0}
  /\ OutputLimit \in Nat
  /\ MaxFrame \in Nat
  /\ MayDie \in BOOLEAN
  /\ MaxTime \in Nat

VARIABLES
  now,       \* the time
  req,       \* the request: stdins, time limit, whether there is a CompileCmd
  host,      \* where Execute is
  deadline,  \* the deadline on the host's connection
  err,       \* why Execute failed
  resp,      \* the response the host decoded
  guest,     \* where the agent is
  unruly,    \* commands of this guest outlive their limit, or it hangs
  started,   \* when the guest's current command was started
  results,   \* the case results so far
  answer,    \* the response the guest built
  wire,      \* what is in flight to the guest and to the host
  ran        \* history: the user's commands the guest has called runOnce for

hostVars == <<host, deadline, err, resp>>
guestVars == <<guest, started, results, answer, ran>>
fixed == <<req, unruly>>
vars == <<now, req, host, deadline, err, resp, guest, unruly, started, results,
          answer, wire, ran>>

-----------------------------------------------------------------------------
\* agent.ExecRequest and agent.ExecResponse, as far as control depends on them.

Requests == [stdins: 1..MaxStdins, limit: Limits, compile: BOOLEAN,
             size: {0, MaxFrame + 1}]

CaseResults == [code: {-1, 0, 1}, timedOut: BOOLEAN, out: {0, OutputLimit}]

\* An empty CompileError is the same as none on the wire (omitempty).
NoResponse == [agentError |-> FALSE, compileError |-> FALSE, results |-> <<>>]

AgentError == [NoResponse EXCEPT !.agentError = TRUE]

CompileError(nonEmpty) == [NoResponse EXCEPT !.compileError = nonEmpty]

Results(rs) == [NoResponse EXCEPT !.results = rs]

\* The length of the frame: the captured outputs dominate it.
FrameSize(r) ==
  LET size[i \in 0..Len(r.results)] ==
        IF i = 0 THEN 0 ELSE size[i - 1] + r.results[i].out
  IN  size[Len(r.results)]

\* A time.Duration: products of a client's time limit wrap around.
Duration(d) ==
  ((d + MaxDuration + 1) % (2 * (MaxDuration + 1))) - (MaxDuration + 1)

\* Mutant: the budget leaves out the grace period.
budgetNoGrace == Duration(req.limit * (req.stdins + 1))

\* How long exchange waits for the answer.
budget == Duration(req.limit * (req.stdins + 1) + ExtraBudget)

\* The time the agent gives the compiler, and each case.
CompileLimit == Duration(req.limit * 4)
CaseLimit == Duration(req.limit)

-----------------------------------------------------------------------------
\* The host.

Fail(why) ==
  /\ host' = "error"
  /\ err' = why
  /\ UNCHANGED <<deadline, resp>>

Waiting == host \in {"dial", "handshake", "await"}

\* firecracker accepts on its UNIX socket; the handshake gets a timeout of its
\* own.
Connect ==
  /\ host = "dial"
  /\ guest # "off"
  /\ host' = "handshake"
  /\ deadline' = now + DialTimeout
  /\ UNCHANGED <<now, fixed, err, resp, guestVars, wire>>

\* The agent listens: CONNECT is answered with OK.
HandshakeOK ==
  /\ host = "handshake"
  /\ guest = "listening"
  /\ host' = "connected"
  /\ guest' = "accepted"
  /\ UNCHANGED <<now, fixed, deadline, err, resp, started, results, answer, wire,
                 ran>>

\* Nobody listens on the port yet, or any more: the connection is reset in
\* the handshake, which is not retried.
HandshakeRejected ==
  /\ host = "handshake"
  /\ guest # "listening"
  /\ Fail("dial")
  /\ UNCHANGED <<now, fixed, guestVars, wire>>

\* Mutant: a refused connection is retried for ever.
DialRetriesForever ==
  /\ host = "handshake"
  /\ now >= deadline
  /\ Fail("dial")
  /\ UNCHANGED <<now, fixed, guestVars, wire>>

\* A refused connection is retried until the deadline; a silent handshake
\* ends at its own.
DialTimedOut ==
  /\ host \in {"dial", "handshake"}
  /\ now >= deadline
  /\ Fail("dial")
  /\ UNCHANGED <<now, fixed, guestVars, wire>>

VsockHostDial == Connect \/ HandshakeOK \/ HandshakeRejected \/ DialTimedOut

\* Exchange sets its deadline and writes the request, unless its frame is too
\* large or the deadline is already past.
ExchangeWrite ==
  /\ host = "connected"
  /\ \/ /\ req.size <= MaxFrame
        /\ guest # "off"
        /\ budget > 0
        /\ host' = "await"
        /\ deadline' = now + budget
        /\ wire' = "request"
        /\ UNCHANGED <<err, resp>>
     \/ /\ req.size > MaxFrame
        /\ Fail("requestFrame")
        /\ UNCHANGED wire
     \/ /\ req.size <= MaxFrame
        /\ budget <= 0
        /\ Fail("deadline")
        /\ UNCHANGED wire
     \/ /\ req.size <= MaxFrame
        /\ guest = "off"
        /\ budget > 0
        /\ Fail("closed")
        /\ UNCHANGED wire
  /\ UNCHANGED <<now, fixed, guestVars>>

\* Exchange reads the response, unless its frame is too large.
ExchangeRead ==
  /\ host = "await"
  /\ wire = "response"
  /\ \/ /\ FrameSize(answer) <= MaxFrame
        /\ host' = "done"
        /\ resp' = answer
        /\ UNCHANGED <<deadline, err>>
     \/ /\ FrameSize(answer) > MaxFrame
        /\ Fail("responseFrame")
  /\ wire' = "none"
  /\ UNCHANGED <<now, fixed, guestVars>>

\* The connection ends without an answer.
ExchangeClosed ==
  /\ host = "await"
  /\ guest = "off"
  /\ wire # "response"
  /\ Fail("closed")
  /\ UNCHANGED <<now, fixed, guestVars, wire>>

ExchangeTimedOut ==
  /\ host = "await"
  /\ now >= deadline
  /\ Fail("deadline")
  /\ UNCHANGED <<now, fixed, guestVars, wire>>

\* Release or Discard kills the VM.
Kill ==
  /\ host \in {"done", "error"}
  /\ guest # "off"
  /\ guest' = "off"
  /\ UNCHANGED <<now, fixed, hostVars, started, results, answer, wire, ran>>

-----------------------------------------------------------------------------
\* The guest agent.

serve ==
  /\ guest = "booting"
  /\ guest' = "listening"
  /\ UNCHANGED <<now, fixed, hostVars, started, results, answer, wire, ran>>

\* The agent starts one of the user's commands.
Run(what, there) ==
  /\ guest' = there
  /\ started' = now
  /\ ran' = Append(ran, what)

\* readFrame, then the directory and the source file: an error there is an
\* AgentError.
handle ==
  /\ guest = "accepted"
  /\ wire = "request"
  /\ wire' = "none"
  /\ \/ /\ guest' = "writing"
        /\ answer' = AgentError
        /\ UNCHANGED <<started, ran>>
     \/ /\ req.compile
        /\ Run("compile", "compiling")
        /\ UNCHANGED answer
     \/ /\ ~req.compile
        /\ Run("case", "running")
        /\ UNCHANGED answer
  /\ UNCHANGED <<now, fixed, hostVars, results>>

\* What runOnce(limit) may report now: the command has ended by itself, could
\* not be started, or was killed at its limit; one that ends just then may
\* count as timed out whatever its exit code.  With a limit that has wrapped
\* around it is never started.
runOnce(limit) ==
  IF limit <= 0
    THEN {[code |-> -1, timedOut |-> TRUE, out |-> 0]}
    ELSE {r \in CaseResults : r.timedOut => now - started >= limit}

\* The compiler is done.  A failure without any output leaves an empty
\* CompileError.
CompileEnds ==
  /\ guest = "compiling"
  /\ \E r \in runOnce(CompileLimit) :
       \/ /\ r.code = 0
          /\ Run("case", "running")
          /\ UNCHANGED answer
       \/ /\ r.code # 0
          /\ guest' = "writing"
          /\ answer' = CompileError(r.out > 0)
          /\ UNCHANGED <<started, ran>>
  /\ UNCHANGED <<now, fixed, hostVars, results, wire>>

\* Mutant: the loop stops at the first case that fails.
CaseEndsEarly ==
  /\ guest = "running"
  /\ \E r \in runOnce(CaseLimit) :
       /\ results' = Append(results, r)
       /\ \/ /\ Len(results') < req.stdins /\ r.code = 0
             /\ Run("case", "running")
             /\ UNCHANGED answer
          \/ /\ Len(results') = req.stdins \/ r.code # 0
             /\ guest' = "writing"
             /\ answer' = Results(results')
             /\ UNCHANGED <<started, ran>>
  /\ UNCHANGED <<now, fixed, hostVars, wire>>

\* Mutant: the loop runs once more than there are stdins.
CaseEndsOneMore ==
  /\ guest = "running"
  /\ \E r \in runOnce(CaseLimit) :
       /\ results' = Append(results, r)
       /\ \/ /\ Len(results') <= req.stdins
             /\ Run("case", "running")
             /\ UNCHANGED answer
          \/ /\ Len(results') > req.stdins
             /\ guest' = "writing"
             /\ answer' = Results(results')
             /\ UNCHANGED <<started, ran>>
  /\ UNCHANGED <<now, fixed, hostVars, wire>>

\* One case is done: on to the next stdin, or to the response.
CaseEnds ==
  /\ guest = "running"
  /\ \E r \in runOnce(CaseLimit) :
       /\ results' = Append(results, r)
       /\ \/ /\ Len(results') < req.stdins
             /\ Run("case", "running")
             /\ UNCHANGED answer
          \/ /\ Len(results') = req.stdins
             /\ guest' = "writing"
             /\ answer' = Results(results')
             /\ UNCHANGED <<started, ran>>
  /\ UNCHANGED <<now, fixed, hostVars, wire>>

\* writeFrame, which does not look at the size of the frame.
writeFrame ==
  /\ guest = "writing"
  /\ guest' = "written"
  /\ wire' = "response"
  /\ UNCHANGED <<now, fixed, hostVars, started, results, answer, ran>>

\* main powers the VM off after the one exchange.
PowerOff ==
  /\ guest = "written"
  /\ guest' = "off"
  /\ UNCHANGED <<now, fixed, hostVars, started, results, answer, wire, ran>>

\* The guest dies, of a kernel panic or with its firecracker process, and may
\* take what was in flight with it.
Die ==
  /\ MayDie
  /\ guest # "off"
  /\ guest' = "off"
  /\ wire' \in {wire, "none"}
  /\ UNCHANGED <<now, fixed, hostVars, started, results, answer, ran>>

-----------------------------------------------------------------------------
\* The limit the agent's context puts on the current command.
Limit == IF guest = "compiling" THEN CompileLimit ELSE CaseLimit

\* What the guest is doing may take longer: booting, being dead, or a command
\* that has not reached its limit.  A command whose child keeps the pipe open
\* goes on after it, because only the shell is killed and cmd.Run waits for
\* the pipe; such a guest is unruly.
GuestTakesTime ==
  \/ unruly
  \/ guest \in {"booting", "off"}
  \/ guest \in {"compiling", "running"} /\ now - started < Limit

\* Time passes while the host waits for the guest.
Tick ==
  /\ now < MaxTime
  /\ Waiting /\ now < deadline
  /\ wire # "response"
  /\ GuestTakesTime
  /\ now' = now + 1
  /\ UNCHANGED <<fixed, hostVars, guestVars, wire>>

Init ==
  /\ now = 0
  /\ req \in Requests
  /\ host = "dial"
  /\ deadline = DialTimeout
  /\ err = "none"
  /\ resp = NoResponse
  /\ guest \in {"booting", "listening"}
  /\ unruly \in BOOLEAN
  /\ started = 0
  /\ results = <<>>
  /\ answer = NoResponse
  /\ wire = "none"
  /\ ran = <<>>

exchange == VsockHostDial \/ ExchangeWrite \/ ExchangeRead \/ ExchangeClosed
              \/ ExchangeTimedOut

agent == serve \/ handle \/ CompileEnds \/ CaseEnds \/ writeFrame \/ PowerOff

Next == exchange \/ Kill \/ agent \/ Die \/ Tick

Spec == Init /\ [][Next]_vars

\* The host's goroutine runs, and time passes.  An unruly guest is owed nothing;
\* one that keeps its limits acts when they are reached, or time would stop.
Fairness ==
  /\ WF_vars(exchange) /\ WF_vars(Kill) /\ WF_vars(Tick)
  /\ WF_vars(~unruly /\ agent)

FairSpec == Spec /\ Fairness

-----------------------------------------------------------------------------
\* Type invariant.
TypeOK ==
  /\ now \in 0..MaxTime
  /\ req \in Requests
  /\ host \in {"dial", "handshake", "connected", "await", "done", "error"}
  /\ deadline \in Nat
  /\ err \in {"none", "dial", "requestFrame", "responseFrame", "closed", "deadline"}
  /\ guest \in {"booting", "listening", "accepted", "compiling", "running",
                "writing", "written", "off"}
  /\ unruly \in BOOLEAN
  /\ started \in 0..MaxTime
  /\ results \in Seq(CaseResults) /\ Len(results) <= req.stdins
  /\ wire \in {"none", "request", "response"}
  /\ ran \in Seq({"compile", "case"})

Cases(n) == [i \in 1..n |-> "case"]

\* The answer the worker acts on tells what happened in the guest: an agent
\* error means no user command was started, a compile error that only the
\* compiler was, and results that every stdin was run once after a compiler
\* that succeeded.
AnswerIsHonest ==
  host = "done" =>
    LET compiled == IF req.compile THEN <<"compile">> ELSE <<>> IN
    \/ resp = AgentError /\ ran = <<>>
    \/ req.compile /\ ran = <<"compile">> /\ resp.results = <<>> /\ ~resp.agentError
    \/ Len(resp.results) = req.stdins /\ ran = compiled \o Cases(req.stdins)

\* The deadline is late enough for a guest whose commands are killed in time,
\* and the host gives up only on a dead one: the compiler may take four time
\* limits, of which the budget grants one and the grace period has to cover
\* the rest.  It holds up to the largest time limit and number of stdins whose
\* product a time.Duration can hold; nothing bounds what a client sends.
BudgetIsEnough ==
  (/\ ~unruly
   /\ req.compile => 3 * req.limit < ExtraBudget
   /\ req.limit * (req.stdins + 1) + ExtraBudget <= MaxDuration)
  => (err = "deadline" => guest = "off")

\* Execute returns, whatever the guest does, and the VM is gone after it.
ExecuteReturns == <>(host \in {"done", "error"} /\ guest = "off")

\* Claim of agent/proto.go:50-51: exactly one of CompileError and Results is
\* populated on success.
OneOfBoth ==
  host = "done" /\ ~resp.agentError => resp.compileError # (resp.results # <<>>)

\* Claim of worker.go:35-37, that per-case results go inside the response
\* without an error: the outputs of a program, cut to OutputLimit each, never
\* make Execute fail.
OutputIsNoError == err # "responseFrame"
=============================================================================
