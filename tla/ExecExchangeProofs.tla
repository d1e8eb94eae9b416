------------------------- MODULE ExecExchangeProofs -------------------------
(***************************************************************************)
(* Proofs about ExecExchange, for every time limit, number of stdins, size *)
(* of time.Duration and grace period: the answer is honest, and the host's *)
(* deadline is late enough.                                                *)
(*                                                                         *)
(* The inductive invariant follows the request from the host to the agent  *)
(* and back: which commands have been run where the agent is, what its     *)
(* response says about them, who may still act when the response is on     *)
(* its way, and, for a guest that keeps its limits, how much of the budget *)
(* is used up at each point.                                               *)
(***************************************************************************)
EXTENDS ExecExchange, SequenceTheorems, TLAPS

-----------------------------------------------------------------------------
\* The inductive invariant.

Compiled == IF req.compile THEN <<"compile">> ELSE <<>>

\* What AnswerIsHonest says of the response r.
Honest(r) ==
  \/ r = AgentError /\ ran = <<>>
  \/ req.compile /\ ran = <<"compile">> /\ r.results = <<>> /\ ~r.agentError
  \/ Len(r.results) = req.stdins /\ ran = Compiled \o Cases(req.stdins)

\* The commands that have been started, by where the agent is, and the
\* response it has built.
GuestOK ==
  /\ guest \in {"booting", "listening", "accepted"} => ran = <<>> /\ results = <<>>
  /\ guest = "compiling" => req.compile /\ ran = <<"compile">> /\ results = <<>>
  /\ guest = "running" =>
       Len(results) < req.stdins /\ ran = Compiled \o Cases(Len(results) + 1)
  /\ guest \in {"writing", "written"} => Honest(answer)

\* One request, one response: where each side may be meanwhile.
WireOK ==
  /\ wire = "request" => guest \in {"accepted", "off"}
  /\ wire = "response" => guest \in {"written", "off"} /\ Honest(answer)
  /\ host \in {"dial", "handshake"} => guest \in {"booting", "listening", "off"}
  /\ host = "connected" => guest \in {"accepted", "off"} /\ wire = "none"
  /\ host = "await" => guest \notin {"booting", "listening"}
  /\ host = "await" /\ guest = "accepted" => wire = "request"
  /\ host = "done" => guest \in {"written", "off"} /\ Honest(resp)

\* The preconditions of BudgetIsEnough.
InTime ==
  /\ ~unruly
  /\ req.compile => 3 * req.limit < ExtraBudget
  /\ req.limit * (req.stdins + 1) + ExtraBudget <= MaxDuration

\* The budget, and what the compiler may take of it, when nothing wraps around.
Budget == req.limit * (req.stdins + 1) + ExtraBudget
CompileTime == IF req.compile THEN 4 * req.limit ELSE 0

\* How much time the guest has had since the host began to wait.
Used == now - (deadline - Budget)

\* A guest that keeps its limits is never behind.
TimeOK ==
  InTime =>
    /\ err = "deadline" => guest = "off"
    /\ guest \in {"compiling", "running"} => started <= now
    /\ host = "await" =>
         /\ guest = "accepted" => Used <= 0
         /\ guest = "compiling" => /\ started <= deadline - Budget
                                   /\ now - started <= 4 * req.limit
         /\ guest = "running" =>
              /\ started - (deadline - Budget) <= CompileTime + req.limit * Len(results)
              /\ now - started <= req.limit
         /\ guest \in {"writing", "written"} =>
              Used <= CompileTime + req.limit * req.stdins

EInv == TypeOK /\ GuestOK /\ WireOK /\ TimeOK

-----------------------------------------------------------------------------
\* Facts about the operators.

\* A time.Duration is an integer, whatever wraps around.
LEMMA DurationType ==
  ASSUME NEW d \in Int
  PROVE  Duration(d) \in Int
  BY ExecExchangeAssumption DEF Duration

\* What a time.Duration can hold stays as it is.
LEMMA DurationFits ==
  ASSUME NEW d \in Nat, d <= MaxDuration
  PROVE  Duration(d) = d
  <1> DEFINE m == 2 * (MaxDuration + 1)
  <1>1. d + MaxDuration + 1 \in 0..(m - 1) /\ m \in Nat \ {0}
    BY ExecExchangeAssumption
  <1>2. \A n \in Nat \ {0} : \A a \in 0..(n - 1) : a % n = a
    OBVIOUS
  <1>3. (d + MaxDuration + 1) % m = d + MaxDuration + 1
    BY <1>1, <1>2
  <1> QED BY <1>3, ExecExchangeAssumption DEF Duration

\* The commands run so far, and one more.
LEMMA OneMoreCase ==
  ASSUME NEW c \in Seq({"compile", "case"}), NEW n \in Nat
  PROVE  Append(c \o Cases(n), "case") = c \o Cases(n + 1)
  <1>1. Cases(n) \in Seq({"compile", "case"}) /\ Len(Cases(n)) = n
    BY DEF Cases
  <1>2. Cases(n + 1) \in Seq({"compile", "case"}) /\ Len(Cases(n + 1)) = n + 1
    BY DEF Cases
  <1>3. \A i \in 1..(n + 1) : Cases(n + 1)[i] = "case"
    BY DEF Cases
  <1>4. \A i \in 1..n : Cases(n)[i] = "case"
    BY DEF Cases
  <1> HIDE DEF Cases
  <1> DEFINE s == Append(c \o Cases(n), "case")
             t == c \o Cases(n + 1)
  <1>5. s \in Seq({"compile", "case"}) /\ t \in Seq({"compile", "case"})
    BY <1>1, <1>2
  <1>6. Len(s) = Len(c) + n + 1 /\ Len(t) = Len(c) + n + 1
    BY <1>1, <1>2
  <1>7. ASSUME NEW i \in 1..(Len(c) + n + 1)
        PROVE  s[i] = t[i]
    <2>1. CASE i <= Len(c)
      BY <1>1, <1>2, <2>1
    <2>2. CASE i > Len(c)
      <3>1. t[i] = Cases(n + 1)[i - Len(c)] /\ i - Len(c) \in 1..(n + 1)
        BY <1>2, <2>2
      <3>2. t[i] = "case"
        BY <1>3, <3>1
      <3>3. s[i] = "case"
        <4>1. CASE i = Len(c) + n + 1
          BY <1>1, <4>1
        <4>2. CASE i # Len(c) + n + 1
          <5>1. s[i] = Cases(n)[i - Len(c)] /\ i - Len(c) \in 1..n
            BY <1>1, <2>2, <4>2
          <5> QED BY <1>4, <5>1
        <4> QED BY <4>1, <4>2
      <3> QED BY <3>2, <3>3
    <2>3. i <= Len(c) \/ i > Len(c)
      OBVIOUS
    <2> HIDE DEF s, t
    <2> QED BY <2>1, <2>2, <2>3, Zenon
  <1> HIDE DEF s, t
  <1>8. s = t
    BY <1>5, <1>6, <1>7, SeqEqual
  <1> QED BY <1>8 DEF s, t

\* What runOnce reports is a result of one case.
LEMMA runOnceType ==
  ASSUME NEW limit
  PROVE  runOnce(limit) \subseteq CaseResults
  <1>1. [code |-> -1, timedOut |-> TRUE, out |-> 0] \in CaseResults
    BY DEF CaseResults
  <1>2. CASE limit <= 0
    BY <1>1, <1>2 DEF runOnce
  <1>3. CASE ~(limit <= 0)
    BY <1>3 DEF runOnce
  <1> QED BY <1>2, <1>3

\* The numbers of a request are positive.
LEMMA RequestNumbers ==
  ASSUME req \in Requests
  PROVE  req.limit \in Nat \ {0} /\ req.stdins \in Nat \ {0}
  <1>1. req.limit \in Limits /\ req.stdins \in 1..MaxStdins
    BY DEF Requests
  <1>2. req.limit \in Nat \ {0}
    BY <1>1, ExecExchangeAssumption
  <1>3. req.stdins \in Nat \ {0}
    BY <1>1, ExecExchangeAssumption
  <1> QED BY <1>2, <1>3

-----------------------------------------------------------------------------
\* Every step preserves it, part by part.

\* The steps that only end Execute.
Fails == HandshakeRejected \/ DialTimedOut \/ ExchangeClosed \/ ExchangeTimedOut

\* The steps of the guest that run none of the user's commands.
Quiet == Kill \/ serve \/ writeFrame \/ PowerOff \/ Die

\* A step keeps the types.
LEMMA StepTypeOK ==
  ASSUME TypeOK, GuestOK, [Next]_vars
  PROVE  TypeOK'
  <1> USE ExecExchangeAssumption
  <1>1. CASE Connect \/ HandshakeOK \/ Fails
    BY <1>1 DEF Connect, HandshakeOK, Fails, HandshakeRejected, DialTimedOut,
        ExchangeClosed, ExchangeTimedOut, Fail, fixed, guestVars, TypeOK
  <1>2. CASE ExchangeWrite
    <2>1. budget \in Int
      <3>1. req.limit \in Nat /\ req.stdins \in Nat
        BY RequestNumbers DEF TypeOK
      <3>2. req.limit * (req.stdins + 1) + ExtraBudget \in Int
        BY <3>1
      <3> QED BY <3>2, DurationType DEF budget
    <2> QED BY <1>2, <2>1 DEF ExchangeWrite, Fail, fixed, guestVars, TypeOK
  <1>3. CASE ExchangeRead
    BY <1>3 DEF ExchangeRead, Fail, fixed, guestVars, TypeOK
  <1>4. CASE Quiet
    BY <1>4 DEF Quiet, Kill, serve, writeFrame, PowerOff, Die, hostVars, fixed,
        TypeOK
  <1>5. CASE handle
    <2>1. \A what \in {"compile", "case"} : Append(ran, what) \in Seq({"compile", "case"})
      BY DEF TypeOK
    <2> QED BY <1>5, <2>1 DEF handle, Run, hostVars, fixed, TypeOK
  <1>6. CASE CompileEnds
    <2>1. \A what \in {"compile", "case"} : Append(ran, what) \in Seq({"compile", "case"})
      BY DEF TypeOK
    <2> QED BY <1>6, <2>1 DEF CompileEnds, Run, hostVars, fixed, TypeOK
  <1>7. CASE CaseEnds
    <2>1. PICK r \in runOnce(CaseLimit) : results' = Append(results, r)
      BY <1>7 DEF CaseEnds
    <2>2. results' \in Seq(CaseResults) /\ Len(results') = Len(results) + 1
      BY <2>1, runOnceType DEF TypeOK
    <2>3. Len(results') <= req.stdins
      <3>1. Len(results) < req.stdins /\ req.stdins \in Nat /\ Len(results) \in Nat
        BY <1>7, RequestNumbers DEF CaseEnds, GuestOK, TypeOK
      <3> QED BY <2>2, <3>1
    <2>4. ran' \in Seq({"compile", "case"}) /\ started' \in 0..MaxTime
      <3>1. \/ ran' = Append(ran, "case") /\ started' = now
            \/ UNCHANGED <<ran, started>>
        BY <1>7 DEF CaseEnds, Run
      <3>2. Append(ran, "case") \in Seq({"compile", "case"})
        BY DEF TypeOK
      <3> QED BY <3>1, <3>2 DEF TypeOK
    <2>5. guest' \in {"running", "writing"} /\ UNCHANGED <<now, fixed, hostVars, wire>>
      BY <1>7 DEF CaseEnds, Run
    <2> QED BY <2>2, <2>3, <2>4, <2>5 DEF hostVars, fixed, TypeOK
  <1>8. CASE Tick
    BY <1>8 DEF Tick, hostVars, guestVars, fixed, TypeOK
  <1>9. CASE UNCHANGED vars
    BY <1>9 DEF vars, TypeOK
  <1> QED BY <1>1, <1>2, <1>3, <1>4, <1>5, <1>6, <1>7, <1>8, <1>9
        DEF Next, exchange, VsockHostDial, agent, Fails, Quiet

\* Each case is run once, after the compiler, and the answer says so.
LEMMA StepGuest ==
  ASSUME TypeOK, GuestOK, WireOK, [Next]_vars
  PROVE  GuestOK'
  <1>1. CASE Connect \/ HandshakeOK \/ Fails \/ ExchangeWrite \/ ExchangeRead \/ Tick
    BY <1>1 DEF Connect, HandshakeOK, Fails, HandshakeRejected, DialTimedOut,
        ExchangeClosed, ExchangeTimedOut, ExchangeWrite, ExchangeRead, Tick, fixed,
        guestVars, GuestOK, Honest, Compiled
  <1>2. CASE Quiet
    BY <1>2 DEF Quiet, Kill, serve, writeFrame, PowerOff, Die, fixed, GuestOK,
        Honest, Compiled
  <1>3. CASE handle
    <2>1. ran = <<>> /\ results = <<>> /\ UNCHANGED <<req, results>>
      BY <1>3 DEF handle, GuestOK, fixed
    <2>2. CASE guest' = "writing" /\ answer' = AgentError /\ ran' = ran
      BY <2>1, <2>2 DEF GuestOK, Honest
    <2>3. CASE req.compile /\ guest' = "compiling" /\ ran' = Append(ran, "compile")
      BY <2>1, <2>3 DEF GuestOK
    <2>4. CASE ~req.compile /\ guest' = "running" /\ ran' = Append(ran, "case")
      <3>1. ran' = Compiled' \o Cases(Len(results') + 1)
        BY <2>1, <2>4 DEF Compiled, Cases
      <3> QED BY <2>1, <2>4, <3>1 DEF GuestOK, TypeOK, Requests
    <2> QED BY <1>3, <2>2, <2>3, <2>4 DEF handle, Run
  <1>4. CASE CompileEnds
    <2>1. req.compile /\ ran = <<"compile">> /\ results = <<>> /\ UNCHANGED <<req, results>>
      BY <1>4 DEF CompileEnds, GuestOK, fixed
    <2>2. \/ guest' = "running" /\ ran' = Append(ran, "case")
          \/ guest' = "writing" /\ ran' = ran /\ \E b : answer' = CompileError(b)
      BY <1>4 DEF CompileEnds, Run
    <2>3. CASE guest' = "running" /\ ran' = Append(ran, "case")
      <3>1. Cases(1) = <<"case">>
        BY DEF Cases
      <3>2. ran' = Compiled' \o Cases(Len(results') + 1)
        BY <2>1, <2>3, <3>1 DEF Compiled
      <3>3. Len(results') < req'.stdins
        BY <2>1, RequestNumbers DEF TypeOK
      <3> QED BY <2>3, <3>2, <3>3 DEF GuestOK
    <2>4. CASE guest' = "writing" /\ ran' = ran /\ \E b : answer' = CompileError(b)
      <3>1. answer'.results = <<>> /\ ~answer'.agentError
        BY <2>4 DEF CompileError, NoResponse
      <3> QED BY <2>1, <2>4, <3>1 DEF GuestOK, Honest
    <2> QED BY <2>2, <2>3, <2>4
  <1>5. CASE CaseEnds
    <2>1. /\ Len(results) < req.stdins /\ ran = Compiled \o Cases(Len(results) + 1)
          /\ req' = req
      BY <1>5 DEF CaseEnds, GuestOK, fixed
    <2>2. Len(results) \in Nat /\ req.stdins \in Nat /\ Len(results') = Len(results) + 1
      BY <1>5, RequestNumbers DEF CaseEnds, TypeOK
    <2>3. \/ guest' = "running" /\ Len(results') < req.stdins /\ ran' = Append(ran, "case")
          \/ /\ guest' = "writing" /\ Len(results') = req.stdins
             /\ ran' = ran /\ answer' = Results(results')
      BY <1>5 DEF CaseEnds, Run
    <2>4. Compiled' = Compiled /\ Compiled \in Seq({"compile", "case"})
      <3>1. <<"compile">> \in Seq({"compile", "case"}) /\ <<>> \in Seq({"compile", "case"})
        OBVIOUS
      <3> QED BY <2>1, <3>1, Zenon DEF Compiled
    <2>5. CASE guest' = "running" /\ Len(results') < req.stdins /\ ran' = Append(ran, "case")
      <3>1. ran' = Compiled' \o Cases(Len(results') + 1)
        <4>1. Append(Compiled \o Cases(Len(results) + 1), "case")
                = Compiled \o Cases((Len(results) + 1) + 1)
          <5>1. Len(results) + 1 \in Nat
            BY <2>2
          <5> QED BY <2>4, <5>1, OneMoreCase, Zenon
        <4> QED BY <2>1, <2>2, <2>4, <2>5, <4>1
      <3> QED BY <2>1, <2>5, <3>1 DEF GuestOK
    <2>6. CASE /\ guest' = "writing" /\ Len(results') = req.stdins
               /\ ran' = ran /\ answer' = Results(results')
      <3>1. answer'.results = results'
        BY <2>6 DEF Results, NoResponse
      <3>2. ran' = Compiled' \o Cases(req'.stdins)
        BY <2>1, <2>2, <2>4, <2>6
      <3> QED BY <2>1, <2>6, <3>1, <3>2 DEF GuestOK, Honest
    <2> QED BY <2>3, <2>5, <2>6
  <1>6. CASE UNCHANGED vars
    BY <1>6 DEF vars, GuestOK, Honest, Compiled
  <1> QED BY <1>1, <1>2, <1>3, <1>4, <1>5, <1>6
        DEF Next, exchange, VsockHostDial, agent, Fails, Quiet

\* Nothing is run any more once the response is on its way.
LEMMA StepWire ==
  ASSUME TypeOK, GuestOK, WireOK, [Next]_vars
  PROVE  WireOK'
  <1>1. ASSUME UNCHANGED <<ran, req, answer, resp>>
        PROVE  (Honest(answer) => Honest(answer)') /\ (Honest(resp) => Honest(resp)')
    BY <1>1 DEF Honest, Compiled
  <1>2. CASE Connect \/ HandshakeOK \/ Fails
    BY <1>1, <1>2 DEF Connect, HandshakeOK, Fails, HandshakeRejected, DialTimedOut,
        ExchangeClosed, ExchangeTimedOut, Fail, fixed, guestVars, WireOK, TypeOK
  <1>3. CASE ExchangeWrite
    BY <1>1, <1>3 DEF ExchangeWrite, Fail, fixed, guestVars, WireOK, TypeOK
  <1>4. CASE ExchangeRead
    <2>1. Honest(answer) /\ guest \in {"written", "off"} /\ wire' = "none"
      BY <1>4 DEF ExchangeRead, WireOK
    <2>2. UNCHANGED <<ran, req, answer, guest>>
      BY <1>4 DEF ExchangeRead, guestVars, fixed
    <2>3. \/ host' = "done" /\ resp' = answer
          \/ host' = "error"
      BY <1>4 DEF ExchangeRead, Fail
    <2>4. ASSUME resp' = answer PROVE Honest(resp)'
      BY <2>1, <2>2, <2>4 DEF Honest, Compiled
    <2> QED BY <2>1, <2>2, <2>3, <2>4 DEF WireOK
  <1>5. CASE Quiet
    BY <1>1, <1>5 DEF Quiet, Kill, serve, writeFrame, PowerOff, Die, hostVars, fixed,
        GuestOK, WireOK, TypeOK
  <1>6. CASE handle \/ CompileEnds \/ CaseEnds
    <2>1. guest \in {"accepted", "compiling", "running"} /\ host' = host
      BY <1>6 DEF handle, CompileEnds, CaseEnds, hostVars
    <2>2. guest' \in {"compiling", "running", "writing"}
      BY <1>6 DEF handle, CompileEnds, CaseEnds, Run
    <2>3. wire' = "none" \/ (guest # "accepted" /\ wire' = wire)
      BY <1>6 DEF handle, CompileEnds, CaseEnds
    <2>4. wire' = "none"
      BY <2>1, <2>3 DEF WireOK, TypeOK
    <2>5. host \notin {"dial", "handshake", "done"} /\ (host = "connected" => guest = "accepted")
      BY <2>1 DEF WireOK
    <2>6. host # "connected"
      BY <1>6, <2>5 DEF handle, CompileEnds, CaseEnds, WireOK
    <2> QED BY <2>1, <2>2, <2>4, <2>5, <2>6 DEF WireOK
  <1>7. CASE Tick \/ UNCHANGED vars
    BY <1>1, <1>7 DEF Tick, vars, hostVars, guestVars, fixed, WireOK
  <1> QED BY <1>2, <1>3, <1>4, <1>5, <1>6, <1>7
        DEF Next, exchange, VsockHostDial, agent, Fails, Quiet

-----------------------------------------------------------------------------
\* Time.

\* One more case takes one more limit, up to the number of stdins.
LEMMA CaseTime ==
  ASSUME NEW limit \in Nat, NEW n \in Nat, NEW k \in Nat, n < k
  PROVE  /\ limit * n \in Nat /\ limit * k \in Nat
         /\ limit * (n + 1) = limit * n + limit
         /\ limit * (n + 1) <= limit * k
  <1>1. limit * n \in Nat /\ limit * k \in Nat /\ limit * (n + 1) = limit * n + limit
    OBVIOUS
  <1>2. k - (n + 1) \in Nat
    OBVIOUS
  <1>3. limit * (k - (n + 1)) \in Nat
    BY <1>2
  <1>4. limit * k = limit * (n + 1) + limit * (k - (n + 1))
    OBVIOUS
  <1>5. limit * (n + 1) \in Nat
    OBVIOUS
  <1> QED BY <1>1, <1>3, <1>4, <1>5

\* Without a wrap-around the limits are what they say, and the budget covers
\* the compiler and every case.
LEMMA BudgetCovers ==
  ASSUME TypeOK, InTime
  PROVE  /\ budget = Budget
         /\ CaseLimit = req.limit
         /\ req.compile => CompileLimit = 4 * req.limit
         /\ Budget \in Nat
         /\ CompileTime \in Nat
         /\ req.limit * req.stdins \in Nat
         /\ CompileTime + req.limit * req.stdins < Budget
  <1> DEFINE l == req.limit
             k == req.stdins
  <1>1. l \in Nat \ {0} /\ k \in Nat \ {0} /\ ExtraBudget \in Nat /\ MaxDuration \in Nat
    BY RequestNumbers, ExecExchangeAssumption DEF TypeOK
  <1>2. req.compile => 3 * l < ExtraBudget
    BY DEF InTime
  <1>3. l * (k + 1) + ExtraBudget <= MaxDuration
    BY DEF InTime
  <1>4. /\ Budget = l * (k + 1) + ExtraBudget
        /\ CompileTime = IF req.compile THEN 4 * l ELSE 0
        /\ budget = Duration(l * (k + 1) + ExtraBudget)
        /\ CaseLimit = Duration(l)
        /\ CompileLimit = Duration(l * 4)
    BY DEF Budget, CompileTime, budget, CaseLimit, CompileLimit
  <1> HIDE DEF l, k
  <1>5. /\ l * k \in Nat /\ l * (k + 1) \in Nat /\ l * (k + 1) = l * k + l
        /\ l <= l * k
    <2>1. l * 0 = 0 /\ 0 + 1 = 1 /\ l * 1 = l
      BY <1>1
    <2>2. l * k \in Nat /\ l * (0 + 1) <= l * k
      BY <1>1, CaseTime
    <2>3. l * (k + 1) = l * k + l
      BY <1>1
    <2> QED BY <1>1, <2>1, <2>2, <2>3
  <1>6. budget = Budget /\ Budget \in Nat
    BY <1>1, <1>3, <1>4, <1>5, DurationFits
  <1>7. CaseLimit = l
    BY <1>1, <1>3, <1>4, <1>5, DurationFits
  <1>8. req.compile => CompileLimit = 4 * l
    BY <1>1, <1>2, <1>3, <1>4, <1>5, DurationFits
  <1>9. CompileTime \in Nat /\ CompileTime + l * k < Budget
    BY <1>1, <1>2, <1>4, <1>5
  <1> QED BY <1>5, <1>6, <1>7, <1>8, <1>9 DEF l, k

\* The deadline is not reached while a guest that keeps its limits is alive.
LEMMA OnTime ==
  ASSUME TypeOK, GuestOK, WireOK, TimeOK, InTime, host = "await", guest # "off"
  PROVE  now < deadline
  <1>1. /\ now \in Nat /\ deadline \in Nat /\ started \in Nat /\ Len(results) \in Nat
        /\ req.limit \in Nat \ {0} /\ req.stdins \in Nat \ {0}
    BY RequestNumbers, ExecExchangeAssumption DEF TypeOK
  <1>2. /\ Budget \in Nat /\ CompileTime \in Nat /\ req.limit * req.stdins \in Nat
        /\ CompileTime + req.limit * req.stdins < Budget
    BY BudgetCovers
  <1>3. now - (deadline - Budget) <= CompileTime + req.limit * req.stdins
    <2>1. CASE guest \in {"accepted", "writing", "written"}
      BY <1>1, <1>2, <2>1 DEF TimeOK, Used
    <2>2. CASE guest = "compiling"
      <3>1. started <= deadline - Budget /\ now - started <= 4 * req.limit
        BY <2>2 DEF TimeOK
      <3>2. CompileTime = 4 * req.limit
        BY <2>2 DEF GuestOK, CompileTime
      <3> QED BY <1>1, <1>2, <3>1, <3>2
    <2>3. CASE guest = "running"
      <3>1. /\ started - (deadline - Budget) <= CompileTime + req.limit * Len(results)
            /\ now - started <= req.limit
        BY <2>3 DEF TimeOK
      <3>2. /\ req.limit * Len(results) \in Nat
            /\ req.limit * Len(results) + req.limit <= req.limit * req.stdins
        <4>1. Len(results) < req.stdins /\ req.limit \in Nat /\ req.stdins \in Nat
          BY <1>1, <2>3 DEF GuestOK
        <4>2. /\ req.limit * Len(results) \in Nat
              /\ req.limit * (Len(results) + 1) = req.limit * Len(results) + req.limit
              /\ req.limit * (Len(results) + 1) <= req.limit * req.stdins
          BY <1>1, <4>1, CaseTime, Zenon
        <4> QED BY <4>2
      <3> DEFINE p == req.limit * Len(results)
                 q == req.limit * req.stdins
                 l == req.limit
      <3>3. p \in Nat /\ q \in Nat /\ l \in Nat /\ p + l <= q
        BY <1>1, <1>2, <3>2
      <3>4. started - (deadline - Budget) <= CompileTime + p /\ now - started <= l
        BY <3>1
      <3> HIDE DEF p, q, l
      <3>5. now - (deadline - Budget) <= CompileTime + q
        BY <1>1, <1>2, <3>3, <3>4
      <3> QED BY <3>5 DEF q
    <2> QED BY <2>1, <2>2, <2>3 DEF TypeOK, WireOK
  <1> QED BY <1>1, <1>2, <1>3

\* A guest that keeps its limits stays within what the budget grants it.
LEMMA StepTime ==
  ASSUME TypeOK, GuestOK, WireOK, TimeOK, TypeOK', [Next]_vars
  PROVE  TimeOK'
  <1>1. UNCHANGED fixed
    BY DEF Next, exchange, VsockHostDial, Connect, HandshakeOK, HandshakeRejected,
        DialTimedOut, ExchangeWrite, ExchangeRead, ExchangeClosed, ExchangeTimedOut,
        Kill, agent, serve, handle, CompileEnds, CaseEnds, writeFrame, PowerOff, Die,
        Tick, vars, fixed
  <1> SUFFICES ASSUME InTime
               PROVE  TimeOK'
    BY <1>1 DEF TimeOK, InTime, fixed
  <1>2. Budget' = Budget /\ CompileTime' = CompileTime /\ req' = req
    BY <1>1 DEF Budget, CompileTime, fixed
  <1>3. /\ budget = Budget /\ CaseLimit = req.limit
        /\ Budget \in Nat /\ CompileTime \in Nat /\ req.limit * req.stdins \in Nat
        /\ CompileTime + req.limit * req.stdins < Budget
    BY BudgetCovers
  <1>4. /\ now \in Nat /\ deadline \in Nat /\ started \in Nat /\ Len(results) \in Nat
        /\ req.limit \in Nat \ {0} /\ req.stdins \in Nat \ {0}
        /\ now' \in Nat
    BY RequestNumbers, ExecExchangeAssumption DEF TypeOK
  <1>5. CASE Connect \/ HandshakeOK \/ ExchangeRead
    <2>1. /\ host' \in {"handshake", "connected", "done", "error"}
          /\ err' = "deadline" => err = "deadline"
          /\ guest' = guest \/ guest' = "accepted"
          /\ guest = "off" => guest' = "off"
          /\ UNCHANGED <<now, started>>
      BY <1>5 DEF Connect, HandshakeOK, ExchangeRead, Fail, guestVars
    <2> QED BY <2>1 DEF TimeOK
  <1>6. CASE Fails
    <2>1. host' = "error" /\ UNCHANGED <<now, started, guest>>
      BY <1>6 DEF Fails, HandshakeRejected, DialTimedOut, ExchangeClosed,
          ExchangeTimedOut, Fail, guestVars
    <2>2. err' = "deadline" => guest = "off"
      <3>1. CASE HandshakeRejected \/ DialTimedOut \/ ExchangeClosed
        BY <3>1 DEF HandshakeRejected, DialTimedOut, ExchangeClosed, Fail
      <3>2. CASE ExchangeTimedOut
        <4>1. host = "await" /\ now >= deadline
          BY <3>2 DEF ExchangeTimedOut
        <4>2. ~(now < deadline)
          BY <1>4, <4>1
        <4> QED BY <4>1, <4>2, OnTime
      <3> QED BY <1>6, <3>1, <3>2 DEF Fails
    <2> QED BY <2>1, <2>2 DEF TimeOK
  <1>7. CASE ExchangeWrite
    <2>1. guest \in {"accepted", "off"} /\ UNCHANGED <<now, started, guest, results>>
      BY <1>7 DEF ExchangeWrite, WireOK, guestVars
    <2>2. budget > 0
      BY <1>3, <1>4
    <2>3. \/ host' = "error" /\ err' # "deadline"
          \/ host' = "await" /\ deadline' = now + budget /\ err' = err
      BY <1>3, <1>7, <2>2 DEF ExchangeWrite, Fail
    <2>4. CASE host' = "error" /\ err' # "deadline"
      BY <2>1, <2>4 DEF TimeOK
    <2>5. CASE host' = "await" /\ deadline' = now + budget /\ err' = err
      <3>1. Used' <= 0
        BY <1>2, <1>3, <1>4, <2>1, <2>5 DEF Used
      <3> QED BY <2>1, <2>5, <3>1 DEF TimeOK
    <2> QED BY <2>3, <2>4, <2>5
  <1>8. CASE Quiet
    <2>1. UNCHANGED <<now, host, deadline, err, started, results>>
      BY <1>8 DEF Quiet, Kill, serve, writeFrame, PowerOff, Die, hostVars
    <2>2. \/ guest' = "off"
          \/ guest = "booting" /\ guest' = "listening"
          \/ guest = "writing" /\ guest' = "written"
      BY <1>8 DEF Quiet, Kill, serve, writeFrame, PowerOff, Die
    <2>3. Used' = Used
      BY <1>2, <2>1 DEF Used
    <2> QED BY <1>2, <2>1, <2>2, <2>3 DEF TimeOK
  <1>9. CASE handle \/ CompileEnds \/ CaseEnds
    <2>1. /\ UNCHANGED <<now, host, deadline, err>> /\ err # "deadline"
          /\ guest \in {"accepted", "compiling", "running"}
      BY <1>9 DEF handle, CompileEnds, CaseEnds, hostVars, TimeOK
    <2>2. \/ guest' \in {"compiling", "running"} /\ started' = now
          \/ guest' = "writing"
      BY <1>9 DEF handle, CompileEnds, CaseEnds, Run
    <2>3. Used' = Used
      BY <1>2, <2>1 DEF Used
    <2>4. CASE host # "await"
      BY <1>4, <2>1, <2>2, <2>4 DEF TimeOK
    <2>5. CASE host = "await" /\ handle
      <3>1. Used <= 0 /\ Len(results') = 0
        BY <2>5 DEF handle, GuestOK, TimeOK
      <3>2. now <= deadline - Budget /\ 0 <= CompileTime + req.limit * Len(results')
        BY <1>3, <1>4, <3>1 DEF Used
      <3>3. guest' = "writing" => Used' <= CompileTime + req.limit * req.stdins
        BY <1>3, <1>4, <2>3, <3>1 DEF Used
      <3>4. guest' = "compiling" =>
              started' <= deadline - Budget /\ now - started' <= 4 * req.limit
        BY <1>3, <1>4, <2>2, <3>2
      <3>5. guest' = "running" =>
              /\ started' - (deadline - Budget) <= CompileTime + req.limit * Len(results')
              /\ now - started' <= req.limit
        BY <1>3, <1>4, <2>2, <3>1, <3>2
      <3> QED BY <1>2, <1>4, <2>1, <2>2, <3>3, <3>4, <3>5 DEF TimeOK
    <2>6. CASE host = "await" /\ CompileEnds
      <3>1. /\ started <= deadline - Budget /\ now - started <= 4 * req.limit
            /\ CompileTime = 4 * req.limit /\ Len(results') = 0 /\ guest' # "compiling"
        BY <2>6 DEF CompileEnds, Run, GuestOK, TimeOK, CompileTime
      <3>2. Used <= CompileTime /\ Used \in Int
        BY <1>3, <1>4, <3>1 DEF Used
      <3>3. guest' = "writing" => Used' <= CompileTime + req.limit * req.stdins
        BY <1>3, <2>3, <3>2
      <3>4. guest' = "running" =>
              /\ started' - (deadline - Budget) <= CompileTime + req.limit * Len(results')
              /\ now - started' <= req.limit
        BY <1>3, <1>4, <2>2, <3>1, <3>2 DEF Used
      <3> QED BY <1>2, <1>4, <2>1, <2>2, <3>1, <3>3, <3>4 DEF TimeOK
    <2>7. CASE host = "await" /\ CaseEnds
      <3>1. /\ started - (deadline - Budget) <= CompileTime + req.limit * Len(results)
            /\ now - started <= req.limit
            /\ Len(results) < req.stdins /\ guest' # "compiling"
        BY <2>7 DEF CaseEnds, Run, GuestOK, TimeOK
      <3>2. Len(results') = Len(results) + 1
        BY <2>7 DEF CaseEnds, TypeOK
      <3>3. /\ req.limit * Len(results) \in Nat
            /\ req.limit * (Len(results) + 1) = req.limit * Len(results) + req.limit
            /\ req.limit * (Len(results) + 1) <= req.limit * req.stdins
        <4>1. req.limit \in Nat /\ req.stdins \in Nat
          BY <1>4
        <4> QED BY <1>4, <3>1, <4>1, CaseTime, Zenon
      <3> DEFINE p == req.limit * Len(results)
                 q == req.limit * req.stdins
                 l == req.limit
      <3>4. /\ p \in Nat /\ q \in Nat /\ l \in Nat /\ p + l <= q
            /\ req.limit * Len(results') = p + l
            /\ started - (deadline - Budget) <= CompileTime + p /\ now - started <= l
        BY <1>3, <1>4, <3>1, <3>2, <3>3
      <3> HIDE DEF p, q, l
      <3>5. Used \in Int /\ Used <= CompileTime + p + l
        BY <1>3, <1>4, <3>4 DEF Used
      <3>6. Used <= CompileTime + q
        BY <1>3, <3>4, <3>5
      <3>7. guest' = "running" =>
              /\ started' - (deadline - Budget) <= CompileTime + req.limit * Len(results')
              /\ now - started' <= l
        BY <1>3, <1>4, <2>2, <3>4, <3>5 DEF Used
      <3> QED BY <1>2, <1>4, <2>1, <2>2, <2>3, <3>1, <3>6, <3>7 DEF TimeOK, q, l
    <2> QED BY <1>9, <2>4, <2>5, <2>6, <2>7
  <1>10. CASE Tick
    <2>1. UNCHANGED <<host, deadline, err, guest, started, results>> /\ now' = now + 1
      BY <1>10 DEF Tick, hostVars, guestVars
    <2>2. guest \in {"compiling", "running"} => started <= now'
      BY <1>4, <2>1 DEF TimeOK
    <2>3. CASE host # "await"
      BY <2>1, <2>2, <2>3 DEF TimeOK
    <2>4. CASE host = "await"
      <3>1. \/ guest \in {"booting", "off"}
            \/ guest \in {"compiling", "running"} /\ now - started < Limit
        BY <1>10 DEF Tick, GuestTakesTime, InTime
      <3>2. guest # "booting"
        BY <2>4 DEF WireOK
      <3>3. guest = "compiling" => now' - started <= 4 * req.limit
        <4>1. guest = "compiling" => Limit = 4 * req.limit
          BY BudgetCovers DEF Limit, GuestOK
        <4> QED BY <1>4, <2>1, <3>1, <4>1
      <3>4. guest = "running" => now' - started <= req.limit
        <4>1. guest = "running" => Limit = req.limit
          BY <1>3 DEF Limit
        <4> QED BY <1>4, <2>1, <3>1, <4>1
      <3> QED BY <1>2, <2>1, <2>2, <2>4, <3>1, <3>2, <3>3, <3>4 DEF TimeOK
    <2> QED BY <2>3, <2>4
  <1>11. CASE UNCHANGED vars
    BY <1>2, <1>11 DEF vars, TimeOK, Used
  <1> QED BY <1>5, <1>6, <1>7, <1>8, <1>9, <1>10, <1>11
        DEF Next, exchange, VsockHostDial, agent, Fails, Quiet

-----------------------------------------------------------------------------
\* The theorems.

\* The inductive invariant holds initially ...
LEMMA InitEInv ==
  ASSUME Init
  PROVE  EInv
  <1>1. TypeOK
    <2>1. <<>> \in Seq(CaseResults) /\ Len(<<>>) = 0 /\ <<>> \in Seq({"compile", "case"})
      OBVIOUS
    <2>2. req.stdins \in Nat
      BY RequestNumbers DEF Init
    <2> QED BY <2>1, <2>2, ExecExchangeAssumption DEF Init, TypeOK
  <1>2. GuestOK /\ WireOK
    BY DEF Init, GuestOK, WireOK
  <1>3. TimeOK
    BY DEF Init, TimeOK
  <1> QED BY <1>1, <1>2, <1>3 DEF EInv

\* ... and is preserved.
LEMMA Invariant == Spec => []EInv
  <1>1. Init => EInv
    BY InitEInv
  <1>2. EInv /\ [Next]_vars => EInv'
    BY StepTypeOK, StepGuest, StepWire, StepTime DEF EInv
  <1> QED BY <1>1, <1>2, PTL DEF Spec

\* TypeOK is an invariant: the deadline is never in the past when it is set,
\* and no more cases are run than there are stdins.
THEOREM TypeCorrect == Spec => []TypeOK
  <1>1. EInv => TypeOK
    BY DEF EInv
  <1> QED BY <1>1, Invariant, PTL

\* AnswerIsHonest is an invariant: whatever dies, times out or is lost, the
\* response Execute returns tells which of the user's commands were run.
THEOREM HonestAnswer == Spec => []AnswerIsHonest
  <1>1. EInv => AnswerIsHonest
    BY DEF EInv, WireOK, Honest, Compiled, AnswerIsHonest
  <1> QED BY <1>1, Invariant, PTL

\* BudgetIsEnough is an invariant: the deadline exchange sets passes only for a
\* guest that is gone, if its commands end at their limits, the grace period is
\* more than three limits when there is a compiler, and nothing wraps around.
THEOREM BudgetSuffices == Spec => []BudgetIsEnough
  <1>1. EInv => BudgetIsEnough
    BY DEF EInv, TimeOK, InTime, BudgetIsEnough
  <1> QED BY <1>1, Invariant, PTL
=============================================================================
