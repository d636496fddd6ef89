---------------------------- MODULE TracingProofs ----------------------------
(***************************************************************************)
(* Theorems about Tracing, for a chain of any length, any configurations   *)
(* and any number of calls of Instrument: its types, which log lines share *)
(* a trace id, that no trace is cut by local sampling, that the tracestate *)
(* is capped, and what Redis commands leave in the trace.                  *)
(***************************************************************************)
EXTENDS Tracing, TLAPS

(* The services that have the request in hand, or had. *)
Handled(i) == at[i] \in {"handling", "calling", "done"}

(* The request has passed through every service before it comes to one. *)
ChainOrder == \A j \in Services : at[j] # "idle" => \A i \in 1..j - 1 : Handled(i)

(* A service was called with what the one before it had, and the first one *)
(* with the client's trace or none.                                        *)
HeadersAgree ==
    /\ headers[1].trace \in {ClientTrace, NoTrace}
    /\ \A i \in 1..N - 1 :
          headers[i + 1] = IF at[i + 1] # "idle" THEN Propagated(span[i], i) ELSE NoContext

(* A service has no span before it has the request, nor if it does not     *)
(* trace.                                                                  *)
SpansAgree == \A i \in Services : ~(Handled(i) /\ Live(i)) => span[i] = NoContext

(* A trace is as old as the service that began it, and two services are in *)
(* one exactly when all from the one to the other trace.                   *)
TracesJoin ==
    \A j \in Services : Handled(j) =>
        /\ span[j].trace \in 0..j \union {NoTrace}
        /\ span[j].trace = ClientTrace <=> headers[1].trace = ClientTrace /\ Joined(1, j)
        /\ \A i \in 1..j : Has(j) /\ span[i].trace = span[j].trace <=> Joined(i, j)

LogsAgree ==
    \A i \in Services : line[i] = IF at[i] = "done" THEN span[i].trace ELSE NoTrace

(* What the calls of Instrument left on the client. *)
HooksAgree ==
    /\ hooks <= calls
    /\ outcome = "nil" => hooks >= 1
    /\ careful => hooks = IF outcome = "nil" THEN 1 ELSE 0

(* A command is sent below the request's span, once the client is set up. *)
CommandsAgree ==
    commands.sent =>
        /\ Handled(N)
        /\ Live(N) /\ Follows(N) /\ span[N].sampled => commands.recorded = hooks

TracingInv ==
    /\ TypeOK
    /\ ChainOrder
    /\ HeadersAgree
    /\ SpansAgree
    /\ TracesJoin
    /\ WholeTrace
    /\ StateCapped
    /\ LogsAgree
    /\ HooksAgree
    /\ CommandsAgree

-----------------------------------------------------------------------------
(* The operators of the model. *)

LEMMA ContextTypes ==
  /\ NoContext \in Context
  /\ \A c \in Context, i \in Services : Propagated(c, i) \in Context
  /\ \A c \in Context : Cap(c) \in Context
  /\ \A c \in Context, i \in Services, d \in BOOLEAN : Started(i, c, d) \in Context
BY NAssumption DEF NoContext, Context, Traces, NoTrace, Propagated, Cap, Started, Services

LEMMA NothingPropagates ==
  Cap(NoContext) = NoContext /\ \A i : Propagated(NoContext, i) = NoContext
BY DEF Cap, Propagated, NoContext

LEMMA DecisionsType ==
  ASSUME NEW i \in Services, NEW c \in Context, NEW d \in Decisions(i, c)
  PROVE  d \in BOOLEAN
BY DEF Decisions, Context

(* A service that samples at a ratio has no choice below a parent. *)
LEMMA FollowsDecides ==
  ASSUME NEW i \in Services, Follows(i), NEW c, c.trace # NoTrace
  PROVE  Decisions(i, c) = {c.sampled}
BY DEF Follows, Decisions, BuildSampler

LEMMA InitTracingInv == Init => TracingInv
<1> SUFFICES ASSUME Init PROVE TracingInv
  OBVIOUS
<1> USE DEF Init
<1>1. PICK h \in {c \in Context : c.trace = ClientTrace \/ (c.trace = NoTrace /\ ~c.sampled)} :
         headers = [i \in Services |-> IF i = 1 THEN h ELSE NoContext]
  OBVIOUS
<1>2. 1 \in Services /\ \A i \in 1..N - 1 : i + 1 \in Services /\ i + 1 # 1
  BY NAssumption DEF Services
<1>3. RedisTypeOK
  BY MaxCallsAssumption DEF RedisInit, RedisTypeOK
<1>4. TypeOK
  <2>1. headers \in [Services -> Context] /\ span \in [Services -> Context]
    BY <1>1, ContextTypes
  <2>2. commands \in [sent : BOOLEAN, recorded : 0..MaxCalls]
    BY MaxCallsAssumption
  <2> QED
    BY <1>3, <2>1, <2>2 DEF TypeOK
<1>5. ChainOrder /\ LogsAgree /\ CommandsAgree
  BY DEF ChainOrder, LogsAgree, CommandsAgree
<1>6. HeadersAgree
  BY <1>1, <1>2 DEF HeadersAgree
<1>7. SpansAgree /\ TracesJoin
  BY DEF SpansAgree, TracesJoin, Handled
<1>8. WholeTrace /\ StateCapped
  BY DEF WholeTrace, StateCapped, Has, NoContext, Services
<1>9. HooksAgree
  BY DEF RedisInit, HooksAgree
<1> QED
  BY <1>4, <1>5, <1>6, <1>7, <1>8, <1>9 DEF TracingInv

-----------------------------------------------------------------------------
(* What a service starts when the request arrives, told from the one       *)
(* before it.                                                              *)
LEMMA Received ==
  ASSUME TracingInv, NEW j \in Services, Receive(j)
  PROVE  /\ \A i \in 1..j - 1 : Handled(i)
         /\ span' \in [Services -> Context]
         /\ \A i \in Services \ {j} : span'[i] = span[i] /\ (Handled(i)' <=> Handled(i))
         /\ Handled(j)' /\ ~Handled(j)
         /\ ~Live(j) => span'[j] = NoContext
         /\ Live(j) /\ j = 1 =>
               /\ span'[j].trace = IF headers[1].trace = ClientTrace THEN ClientTrace ELSE 1
               /\ span'[j].state # "long"
               /\ headers[1].trace = ClientTrace => span'[j].state = Cap(headers[1]).state
         /\ Live(j) /\ j > 1 /\ Live(j - 1) =>
               /\ span'[j].trace = span[j - 1].trace
               /\ span'[j].state = span[j - 1].state
               /\ Follows(j) => span'[j].sampled = span[j - 1].sampled
         /\ Live(j) /\ j > 1 /\ ~Live(j - 1) =>
               span'[j].trace = j /\ span'[j].state = "absent"
         /\ UNCHANGED <<settings, headers, line, commands, redis>>
<1> DEFINE parent == Propagated(Cap(headers[j]), j)
<1>a. TypeOK /\ ChainOrder /\ HeadersAgree /\ SpansAgree /\ TracesJoin /\ StateCapped
  BY DEF TracingInv
<1>b. /\ at \in [Services -> {"idle", "called", "handling", "calling", "done"}]
      /\ headers \in [Services -> Context] /\ span \in [Services -> Context]
  BY <1>a DEF TypeOK
<1>c. at[j] = "called" /\ at' = [at EXCEPT ![j] = "handling"]
  BY DEF Receive, Goto
<1>1. \A i \in 1..j - 1 : Handled(i)
  BY <1>a, <1>c DEF ChainOrder
<1>2. parent \in Context
  BY <1>b, ContextTypes
<1>3. span[j] = NoContext
  BY <1>a, <1>c DEF SpansAgree, Handled
<1>4. ~Live(j) => span' = span
  BY DEF Receive
<1>5. ASSUME Live(j)
      PROVE  \E d \in Decisions(j, parent) : span' = [span EXCEPT ![j] = Started(j, parent, d)]
  BY <1>5 DEF Receive
<1>6. /\ span' \in [Services -> Context]
      /\ \A i \in Services \ {j} : span'[i] = span[i]
  <2>1. CASE Live(j)
    <3>1. PICK d \in Decisions(j, parent) : span' = [span EXCEPT ![j] = Started(j, parent, d)]
      BY <2>1, <1>5
    <3>2. Started(j, parent, d) \in Context
      BY <1>2, ContextTypes, DecisionsType
    <3> QED
      BY <3>1, <3>2, <1>b
  <2> QED
    BY <2>1, <1>4, <1>b
<1>7. ASSUME Live(j)
      PROVE  \E d \in Decisions(j, parent) : span'[j] = Started(j, parent, d)
  BY <1>5, <1>7, <1>b
<1>8. /\ \A i \in Services \ {j} : Handled(i)' <=> Handled(i)
      /\ Handled(j)' /\ ~Handled(j)
  BY <1>b, <1>c DEF Handled
<1>9. ASSUME Live(j), j = 1
      PROVE  /\ span'[j].trace = IF headers[1].trace = ClientTrace THEN ClientTrace ELSE 1
             /\ span'[j].state # "long"
             /\ headers[1].trace = ClientTrace => span'[j].state = Cap(headers[1]).state
  <2>1. headers[1] \in Context /\ headers[1].trace \in {ClientTrace, NoTrace}
    BY <1>a, <1>b, <1>9 DEF HeadersAgree
  <2>2. parent = IF headers[1].trace = ClientTrace THEN Cap(headers[1]) ELSE NoContext
    BY <2>1, <1>9 DEF Propagated, Live, Cap, Context, ClientTrace, NoTrace
  <2>3. Cap(headers[1]).trace = headers[1].trace /\ Cap(headers[1]).state # "long"
    BY <2>1 DEF Cap, Context
  <2>4. PICK d \in Decisions(j, parent) : span'[j] = Started(j, parent, d)
    BY <1>7, <1>9
  <2> HIDE DEF parent
  <2>5. CASE headers[1].trace = ClientTrace
    BY <2>2, <2>3, <2>4, <2>5 DEF Started, ClientTrace, NoTrace
  <2>6. CASE headers[1].trace # ClientTrace
    BY <2>2, <2>4, <2>6, <1>9 DEF Started, NoContext
  <2> QED
    BY <2>5, <2>6
<1>10. ASSUME j > 1
       PROVE  /\ j - 1 \in Services /\ Handled(j - 1)
              /\ headers[j] = Propagated(span[j - 1], j - 1)
              /\ Has(j - 1) <=> Live(j - 1)
  <2>1. j - 1 \in 1..N - 1 /\ j - 1 \in Services /\ j - 1 \in 1..j - 1 /\ (j - 1) + 1 = j
    BY <1>10, NAssumption DEF Services
  <2>2. headers[(j - 1) + 1] = Propagated(span[j - 1], j - 1)
    BY <2>1, <1>a, <1>c DEF HeadersAgree
  <2>3. Handled(j - 1)
    BY <2>1, <1>1
  <2>4. Has(j - 1) /\ span[j - 1].trace = span[j - 1].trace <=> Joined(j - 1, j - 1)
    BY <2>1, <2>3, <1>a DEF TracesJoin
  <2>5. Joined(j - 1, j - 1) <=> Live(j - 1)
    <3>1. (j - 1)..(j - 1) = {j - 1}
      BY <2>1 DEF Services
    <3> QED
      BY <3>1 DEF Joined
  <2> QED
    BY <2>1, <2>2, <2>3, <2>4, <2>5
<1>11. ASSUME Live(j), j > 1, Live(j - 1)
       PROVE  /\ span'[j].trace = span[j - 1].trace
              /\ span'[j].state = span[j - 1].state
              /\ Follows(j) => span'[j].sampled = span[j - 1].sampled
  <2>1. span[j - 1] \in Context /\ span[j - 1].trace # NoTrace /\ span[j - 1].state # "long"
    BY <1>10, <1>11, <1>a, <1>b DEF Has, StateCapped
  <2>2. parent = span[j - 1]
    BY <2>1, <1>10, <1>11 DEF Propagated, Cap, Live
  <2>3. PICK d \in Decisions(j, span[j - 1]) : span'[j] = Started(j, span[j - 1], d)
    BY <2>2, <1>7, <1>11
  <2>4. Follows(j) => d = span[j - 1].sampled
    BY <2>1, <2>3, FollowsDecides
  <2> QED
    BY <2>1, <2>3, <2>4 DEF Started
<1>12. ASSUME Live(j), j > 1, ~Live(j - 1)
       PROVE  span'[j].trace = j /\ span'[j].state = "absent"
  <2>1. span[j - 1] = NoContext
    BY <1>10, <1>12, <1>a DEF SpansAgree
  <2>2. parent = NoContext
    BY <2>1, <1>10, <1>12, NothingPropagates
  <2>3. PICK d \in Decisions(j, NoContext) : span'[j] = Started(j, NoContext, d)
    BY <2>2, <1>7, <1>12
  <2> QED
    BY <2>3 DEF Started, NoContext
<1>13. UNCHANGED <<settings, headers, line, commands, redis>>
  BY DEF Receive
<1>14. ~Live(j) => span'[j] = NoContext
  BY <1>3, <1>4
<1> QED
  BY <1>1, <1>6, <1>8, <1>9, <1>11, <1>12, <1>13, <1>14

-----------------------------------------------------------------------------
(* All that a step other than Receive can be, and what it leaves alone.    *)
Passing == \/ StartUp \/ Arrive \/ Command
           \/ \E i \in Services : CallNext(i) \/ Return(i)
           \/ UNCHANGED vars

LEMMA Steps ==
  ASSUME [Next]_vars
  PROVE  Passing \/ \E i \in Services : Receive(i)
BY DEF Next, Passing, Answered

LEMMA PassingChanges ==
  ASSUME TypeOK, Passing
  PROVE  /\ UNCHANGED <<cfg, tracing, span>>
         /\ headers'[1] = headers[1]
         /\ \A i \in Services : Handled(i)' <=> Handled(i)
<1>a. /\ at \in [Services -> {"idle", "called", "handling", "calling", "done"}]
      /\ headers \in [Services -> Context]
  BY DEF TypeOK
<1> USE DEF settings, Handled
<1>1. CASE StartUp \/ Command \/ UNCHANGED vars
  BY <1>1 DEF StartUp, Command, vars
<1>2. CASE Arrive
  BY <1>2, <1>a DEF Arrive, Goto
<1>3. ASSUME NEW i \in Services, CallNext(i)
      PROVE  /\ UNCHANGED <<cfg, tracing, span>>
             /\ headers'[1] = headers[1]
             /\ \A k \in Services : Handled(k)' <=> Handled(k)
  <2>1. i + 1 \in Services /\ i + 1 # 1 /\ 1 \in Services /\ i # i + 1
    BY <1>3, NAssumption DEF CallNext, Services
  <2> QED
    BY <1>3, <1>a, <2>1 DEF CallNext
<1>4. ASSUME NEW i \in Services, Return(i)
      PROVE  /\ UNCHANGED <<cfg, tracing, span>>
             /\ headers'[1] = headers[1]
             /\ \A k \in Services : Handled(k)' <=> Handled(k)
  BY <1>4, <1>a DEF Return, Goto
<1> QED
  BY <1>1, <1>2, <1>3, <1>4 DEF Passing

LEMMA TypeStep == TypeOK /\ HooksAgree /\ [Next]_vars => TypeOK'
<1> SUFFICES ASSUME TypeOK, HooksAgree, [Next]_vars PROVE TypeOK'
  OBVIOUS
<1> USE DEF TypeOK, settings, redis, Goto
<1>1. CASE StartUp
  <2>1. RedisTypeOK'
    <3>1. /\ calls < MaxCalls /\ calls' = calls + 1
          /\ hooks' \in {hooks, hooks + 1}
          /\ outcome' \in {"nil", "err"}
      BY <1>1 DEF StartUp, Instrument, Halves
    <3>2. careful' \in BOOLEAN
      BY <1>1 DEF StartUp, Instrument
    <3>3. hooks' \in 0..MaxCalls /\ calls' \in 0..MaxCalls
      BY <3>1, MaxCallsAssumption DEF HooksAgree, RedisTypeOK
    <3> QED
      BY <3>1, <3>2, <3>3 DEF RedisTypeOK
  <2> QED
    BY <1>1, <2>1 DEF StartUp
<1>2. CASE Arrive
  BY <1>2 DEF Arrive, RedisTypeOK
<1>3. CASE Command
  <2>1. commands' \in [sent : BOOLEAN, recorded : 0..MaxCalls]
    BY <1>3, MaxCallsAssumption DEF Command, RedisTypeOK
  <2> QED
    BY <1>3, <2>1 DEF Command, RedisTypeOK
<1>4. ASSUME NEW i \in Services, Receive(i) PROVE TypeOK'
  <2>1. span' \in [Services -> Context]
    <3>1. CASE Live(i)
      <4> DEFINE parent == Propagated(Cap(headers[i]), i)
      <4>1. PICK d \in Decisions(i, parent) : span' = [span EXCEPT ![i] = Started(i, parent, d)]
        BY <1>4, <3>1 DEF Receive
      <4>2. parent \in Context
        BY ContextTypes
      <4> HIDE DEF parent
      <4>3. Started(i, parent, d) \in Context
        BY <4>2, ContextTypes, DecisionsType
      <4> QED
        BY <4>1, <4>3
    <3>2. CASE ~Live(i)
      BY <1>4, <3>2 DEF Receive
    <3> QED
      BY <3>1, <3>2
  <2> QED
    BY <1>4, <2>1 DEF Receive, RedisTypeOK
<1>5. ASSUME NEW i \in Services, CallNext(i) PROVE TypeOK'
  <2>1. Propagated(span[i], i) \in Context
    BY ContextTypes
  <2> QED
    BY <1>5, <2>1 DEF CallNext, RedisTypeOK
<1>6. ASSUME NEW i \in Services, Return(i) PROVE TypeOK'
  <2>1. span[i].trace \in Traces \union {NoTrace}
    BY DEF Context
  <2> QED
    BY <1>6, <2>1 DEF Return, RedisTypeOK
<1>7. CASE UNCHANGED vars
  BY <1>7 DEF vars, RedisTypeOK
<1> HIDE DEF TypeOK
<1> QED
  BY <1>1, <1>2, <1>3, <1>4, <1>5, <1>6, <1>7, Steps DEF Passing

LEMMA ChainStep == TracingInv /\ [Next]_vars => ChainOrder'
<1> SUFFICES ASSUME TracingInv, [Next]_vars, NEW j \in Services, at'[j] # "idle",
                    NEW i \in 1..j - 1
             PROVE  Handled(i)'
  BY DEF ChainOrder
<1>a. TypeOK /\ ChainOrder
  BY DEF TracingInv
<1>b. at \in [Services -> {"idle", "called", "handling", "calling", "done"}]
  BY <1>a DEF TypeOK
<1>c. i \in Services /\ i < j /\ i # j
  BY NAssumption DEF Services
<1>d. ASSUME at[j] # "idle", Handled(i)' <=> Handled(i)
      PROVE  Handled(i)'
  BY <1>a, <1>d DEF ChainOrder
<1>1. ASSUME NEW k \in Services, Receive(k) PROVE Handled(i)'
  <2>1. at[j] # "idle"
    BY <1>1, <1>b DEF Receive, Goto
  <2>2. Handled(i)' <=> Handled(i) \/ i = k
    BY <1>1, <1>b, <1>c DEF Receive, Goto, Handled
  <2> QED
    BY <2>1, <2>2, <1>a DEF ChainOrder
<1>2. ASSUME NEW k \in Services, CallNext(k) PROVE Handled(i)'
  <2>1. Handled(i)' <=> Handled(i)
    BY <1>2, <1>a, <1>c, PassingChanges DEF Passing
  <2>2. CASE j = k + 1
    <3>1. i = k \/ i \in 1..k - 1
      BY <2>2 DEF Services
    <3>2. at[k] = "handling"
      BY <1>2 DEF CallNext
    <3>3. Handled(i)
      BY <3>1, <3>2, <1>a DEF ChainOrder, Handled
    <3> QED
      BY <3>3, <2>1
  <2>3. CASE j # k + 1
    <3>1. at[j] # "idle"
      BY <1>2, <1>b, <2>3 DEF CallNext
    <3> QED
      BY <2>1, <3>1, <1>d
  <2> QED
    BY <2>2, <2>3
<1>3. CASE Arrive
  <2>1. j # 1
    BY <1>c DEF Services
  <2>2. at[j] # "idle"
    BY <1>3, <1>b, <2>1 DEF Arrive, Goto
  <2> QED
    BY <1>3, <2>2, <1>a, <1>c, <1>d, PassingChanges DEF Passing
<1>4. CASE StartUp \/ Command \/ UNCHANGED vars
  <2>1. at' = at
    BY <1>4 DEF StartUp, Command, vars
  <2> QED
    BY <2>1, <1>d DEF Handled
<1>5. ASSUME NEW k \in Services, Return(k) PROVE Handled(i)'
  <2>1. at[j] # "idle"
    BY <1>5, <1>b DEF Return, Goto
  <2> QED
    BY <2>1, <1>5, <1>a, <1>c, <1>d, PassingChanges DEF Passing
<1> QED
  BY <1>1, <1>2, <1>3, <1>4, <1>5, Steps DEF Passing

LEMMA HeadersStep == TracingInv /\ [Next]_vars => HeadersAgree'
<1> SUFFICES ASSUME TracingInv, [Next]_vars PROVE HeadersAgree'
  OBVIOUS
<1>a. TypeOK /\ ChainOrder /\ HeadersAgree
  BY DEF TracingInv
<1>b. /\ at \in [Services -> {"idle", "called", "handling", "calling", "done"}]
      /\ headers \in [Services -> Context]
  BY <1>a DEF TypeOK
<1>c. \A i \in 1..N - 1 : i \in Services /\ i + 1 \in Services /\ i + 1 # 1 /\ i + 1 # i
  BY NAssumption DEF Services
<1>d. ASSUME UNCHANGED <<cfg, headers>>,
             \A i \in 1..N - 1 : /\ (at'[i + 1] = "idle") <=> (at[i + 1] = "idle")
                                 /\ at[i + 1] # "idle" => span'[i] = span[i]
      PROVE  HeadersAgree'
  <2>1. \A i \in 1..N - 1 : span'[i] = span[i] => Propagated(span[i], i)' = Propagated(span[i], i)
    BY <1>d DEF Propagated, Exports
  <2>2. ASSUME NEW i \in 1..N - 1
        PROVE  (headers[i + 1] = IF at[i + 1] # "idle" THEN Propagated(span[i], i) ELSE NoContext)'
    BY <2>1, <1>a, <1>d DEF HeadersAgree
  <2>3. headers'[1].trace \in {ClientTrace, NoTrace}
    BY <1>a, <1>d DEF HeadersAgree
  <2> QED
    BY <2>2, <2>3 DEF HeadersAgree
<1>1. ASSUME NEW j \in Services, Receive(j) PROVE HeadersAgree'
  <2>1. UNCHANGED <<cfg, headers>> /\ at[j] = "called" /\ at' = [at EXCEPT ![j] = "handling"]
    BY <1>1 DEF Receive, Goto, settings
  <2>2. \A i \in Services \ {j} : span'[i] = span[i]
    BY <1>1, Received
  <2>3. ASSUME NEW i \in 1..N - 1, at[i + 1] # "idle" PROVE i # j
    <3>1. i \in 1..(i + 1) - 1
      BY <1>c DEF Services
    <3>2. Handled(i)
      BY <2>3, <3>1, <1>a, <1>c DEF ChainOrder
    <3> QED
      BY <2>1, <3>2 DEF Handled
  <2>4. \A i \in 1..N - 1 : (at'[i + 1] = "idle") <=> (at[i + 1] = "idle")
    BY <2>1, <1>b, <1>c
  <2>5. \A i \in 1..N - 1 : at[i + 1] # "idle" => span'[i] = span[i]
    BY <2>2, <2>3, <1>c
  <2> QED
    BY <2>1, <2>4, <2>5, <1>d
<1>2. ASSUME NEW j \in Services, CallNext(j) PROVE HeadersAgree'
  <2>1. /\ UNCHANGED <<cfg, span>> /\ headers'[1] = headers[1]
        /\ j \in 1..N - 1
        /\ headers' = [headers EXCEPT ![j + 1] = Propagated(span[j], j)]
        /\ at' = [at EXCEPT ![j] = "calling", ![j + 1] = "called"]
        /\ at[j] = "handling"
    BY <1>2, <1>a, PassingChanges, NAssumption DEF CallNext, Services, settings, Passing
  <2>2. \A i \in 1..N - 1 : Propagated(span[i], i)' = Propagated(span[i], i)
    BY <2>1 DEF Propagated, Exports
  <2>3. ASSUME NEW i \in 1..N - 1
        PROVE  headers'[i + 1] = IF at'[i + 1] # "idle" THEN Propagated(span[i], i) ELSE NoContext
    <3>1. CASE i = j
      BY <3>1, <2>1, <1>b, <1>c
    <3>2. CASE i # j
      <4>1. i + 1 # j + 1
        BY <3>2, <2>1
      <4>2. headers'[i + 1] = headers[i + 1]
        BY <4>1, <2>1, <1>b, <1>c
      <4>3. at'[i + 1] = IF i + 1 = j THEN "calling" ELSE at[i + 1]
        BY <4>1, <2>1, <1>b, <1>c
      <4> QED
        BY <4>2, <4>3, <2>1, <1>a DEF HeadersAgree
    <3> QED
      BY <3>1, <3>2
  <2> QED
    BY <2>1, <2>2, <2>3, <1>a DEF HeadersAgree
<1>3. CASE Arrive
  BY <1>3, <1>b, <1>c, <1>d DEF Arrive, Goto, settings
<1>4. CASE StartUp \/ Command \/ UNCHANGED vars
  BY <1>4, <1>d DEF StartUp, Command, vars, settings
<1>5. ASSUME NEW j \in Services, Return(j) PROVE HeadersAgree'
  BY <1>5, <1>b, <1>c, <1>d DEF Return, Goto, settings
<1> QED
  BY <1>1, <1>2, <1>3, <1>4, <1>5, Steps DEF Passing

(* Which services trace never changes. *)
LEMMA SettingsKept ==
  ASSUME UNCHANGED <<cfg, tracing>>
  PROVE  /\ \A i : (Live(i)' <=> Live(i)) /\ (Follows(i)' <=> Follows(i))
         /\ \A i, j : Joined(i, j)' <=> Joined(i, j)
BY DEF Live, Exports, Follows, Joined

LEMMA SpansStep == TracingInv /\ [Next]_vars => SpansAgree'
<1> SUFFICES ASSUME TracingInv, [Next]_vars PROVE SpansAgree'
  OBVIOUS
<1>a. TypeOK /\ SpansAgree
  BY DEF TracingInv
<1>1. CASE Passing
  <2>1. UNCHANGED <<cfg, tracing, span>> /\ \A i \in Services : Handled(i)' <=> Handled(i)
    BY <1>1, <1>a, PassingChanges
  <2> QED
    BY <2>1, <1>a, SettingsKept DEF SpansAgree
<1>2. ASSUME NEW j \in Services, Receive(j) PROVE SpansAgree'
  <2>1. \A i : Live(i)' <=> Live(i)
    BY <1>2, Received, SettingsKept DEF settings
  <2> QED
    BY <2>1, <1>2, <1>a, Received DEF SpansAgree
<1> QED
  BY <1>1, <1>2, Steps

(* A range of services, one longer. *)
LEMMA JoinedLonger ==
  ASSUME NEW i \in Services, NEW j \in Services, i < j
  PROVE  Joined(i, j) <=> Joined(i, j - 1) /\ Live(j)
<1>1. i..j = (i..j - 1) \union {j}
  BY NAssumption DEF Services
<1> QED
  BY <1>1 DEF Joined

LEMMA JoinedAlone == ASSUME NEW i \in Services PROVE Joined(i, i) <=> Live(i)
<1>1. i..i = {i}
  BY NAssumption DEF Services
<1> QED
  BY <1>1 DEF Joined

(* The service that has just received the request, among those before it. *)
LEMMA ReceivedJoins ==
  ASSUME TracingInv, NEW j \in Services, Receive(j)
  PROVE  /\ span'[j].trace \in 0..j \union {NoTrace}
         /\ span'[j].trace = ClientTrace <=> headers[1].trace = ClientTrace /\ Joined(1, j)
         /\ span'[j].trace # NoTrace <=> Live(j)
         /\ \A i \in 1..j - 1 :
               span'[j].trace # NoTrace /\ span[i].trace = span'[j].trace <=> Joined(i, j)
<1>a. TracesJoin /\ \A i \in 1..j - 1 : Handled(i)
  BY Received DEF TracingInv
<1>b. j \in Int /\ 1 <= j /\ 1 \in Services
  BY NAssumption DEF Services
<1>c. \A i \in 1..j - 1 : i \in Services /\ i < j
  BY NAssumption DEF Services
<1>d. ClientTrace = 0 /\ NoTrace = -1 /\ NoContext.trace = -1
  BY DEF ClientTrace, NoTrace, NoContext
<1>e. \A i \in 1..j - 1 : Joined(i, j) <=> Joined(i, j - 1) /\ Live(j)
  BY <1>c, JoinedLonger
<1>1. CASE ~Live(j)
  <2>1. span'[j].trace = NoTrace
    BY <1>1, <1>d, Received
  <2>2. \A i \in 1..j - 1 : ~Joined(i, j)
    BY <1>1, <1>e
  <2>3. ~Joined(1, j)
    <3>1. CASE j = 1
      BY <3>1, <1>1, <1>b, JoinedAlone
    <3>2. CASE j # 1
      BY <3>2, <2>2, <1>b
    <3> QED
      BY <3>1, <3>2
  <2> QED
    BY <2>1, <2>2, <2>3, <1>1, <1>d
<1>2. CASE Live(j) /\ j = 1
  <2>1. span'[j].trace = IF headers[1].trace = ClientTrace THEN ClientTrace ELSE 1
    BY <1>2, Received
  <2>2. Joined(1, j)
    BY <1>2, <1>b, JoinedAlone
  <2>3. 1..j - 1 = {}
    BY <1>2
  <2> QED
    BY <2>1, <2>2, <2>3, <1>2, <1>d
<1>3. CASE Live(j) /\ j > 1
  <2>1. /\ j - 1 \in 1..j - 1 /\ j - 1 \in Services /\ 1 \in 1..j - 1
        /\ \A i \in 1..j - 1 : i \in 1..(j - 1)
        /\ Handled(j - 1)
    BY <1>3, <1>a, <1>b, <1>c
  <2>2. /\ span[j - 1].trace \in 0..(j - 1) \union {NoTrace}
        /\ span[j - 1].trace = ClientTrace <=> headers[1].trace = ClientTrace /\ Joined(1, j - 1)
        /\ \A i \in 1..j - 1 :
              Has(j - 1) /\ span[i].trace = span[j - 1].trace <=> Joined(i, j - 1)
    BY <2>1, <1>a DEF TracesJoin
  <2>3. Has(j - 1) <=> Live(j - 1)
    BY <2>1, <2>2, JoinedAlone
  <2>4. \A i \in 1..j - 1 : span[i].trace \in 0..i \union {NoTrace}
    BY <1>a, <1>c DEF TracesJoin
  <2>5. CASE Live(j - 1)
    <3>1. span'[j].trace = span[j - 1].trace
      BY <1>3, <2>5, Received
    <3>2. span'[j].trace \in 0..j \union {NoTrace}
      BY <3>1, <2>2, <1>b
    <3> QED
      BY <3>1, <3>2, <2>1, <2>2, <2>3, <2>5, <1>3, <1>e DEF Has
  <2>6. CASE ~Live(j - 1)
    <3>1. span'[j].trace = j
      BY <1>3, <2>6, Received
    <3>2. \A i \in 1..j - 1 : ~Joined(i, j - 1)
      <4>1. \A i \in 1..j - 1 : j - 1 \in i..j - 1
        BY <1>b
      <4> QED
        BY <4>1, <2>6 DEF Joined
    <3>3. \A i \in 1..j - 1 : span[i].trace # j
      BY <2>4, <1>b, <1>d
    <3> QED
      BY <3>1, <3>2, <3>3, <2>1, <1>3, <1>b, <1>d, <1>e
  <2> QED
    BY <2>5, <2>6
<1> QED
  BY <1>1, <1>2, <1>3, <1>b

LEMMA JoinStep == TracingInv /\ [Next]_vars => TracesJoin'
<1> SUFFICES ASSUME TracingInv, [Next]_vars PROVE TracesJoin'
  OBVIOUS
<1>a. TypeOK /\ TracesJoin
  BY DEF TracingInv
<1>1. CASE Passing
  <2>1. /\ UNCHANGED <<cfg, tracing, span>> /\ headers'[1] = headers[1]
        /\ \A i \in Services : Handled(i)' <=> Handled(i)
    BY <1>1, <1>a, PassingChanges
  <2>2. \A i, j : Joined(i, j)' <=> Joined(i, j)
    BY <2>1, SettingsKept
  <2> QED
    BY <2>1, <2>2, <1>a DEF TracesJoin, Has
<1>2. ASSUME NEW j \in Services, Receive(j) PROVE TracesJoin'
  <2>1. /\ UNCHANGED <<cfg, tracing, headers>>
        /\ \A i \in Services \ {j} : span'[i] = span[i] /\ (Handled(i)' <=> Handled(i))
        /\ \A i \in 1..j - 1 : Handled(i)
    BY <1>2, Received DEF settings
  <2>2. \A i, k : Joined(i, k)' <=> Joined(i, k)
    BY <2>1, SettingsKept
  <2> SUFFICES ASSUME NEW k \in Services, Handled(k)'
               PROVE  (/\ span[k].trace \in 0..k \union {NoTrace}
                       /\ span[k].trace = ClientTrace <=> headers[1].trace = ClientTrace /\ Joined(1, k)
                       /\ \A i \in 1..k : Has(k) /\ span[i].trace = span[k].trace <=> Joined(i, k))'
    BY DEF TracesJoin
  <2>3. CASE k = j
    <3>1. \A i \in 1..j : i # j => i \in 1..j - 1 /\ i \in Services \ {j}
      BY NAssumption DEF Services
    <3>2. Joined(j, j) <=> Live(j)
      BY JoinedAlone
    <3>3. /\ span'[j].trace \in 0..j \union {NoTrace}
          /\ span'[j].trace = ClientTrace <=> headers[1].trace = ClientTrace /\ Joined(1, j)
          /\ span'[j].trace # NoTrace <=> Live(j)
          /\ \A i \in 1..j - 1 :
                span'[j].trace # NoTrace /\ span[i].trace = span'[j].trace <=> Joined(i, j)
      BY <1>2, ReceivedJoins
    <3>4. ASSUME NEW i \in 1..j
          PROVE  span'[j].trace # NoTrace /\ span'[i].trace = span'[j].trace <=> Joined(i, j)
      BY <3>1, <3>2, <3>3, <2>1
    <3> QED
      BY <2>1, <2>2, <2>3, <3>3, <3>4 DEF Has
  <2>4. CASE k # j
    <3>1. Handled(k) /\ span'[k] = span[k]
      BY <2>1, <2>4
    <3>2. k < j
      <4>1. CASE k > j
        <5>1. j \in 1..k - 1 /\ at[k] # "idle"
          BY <3>1, <4>1, NAssumption DEF Services, Handled
        <5>2. Handled(j)
          BY <5>1 DEF TracingInv, ChainOrder
        <5> QED
          BY <5>2, <1>2, Received
      <4> QED
        BY <4>1, <2>4, NAssumption DEF Services
    <3>3. \A i \in 1..k : span'[i] = span[i]
      BY <2>1, <3>2, NAssumption DEF Services
    <3> QED
      BY <2>1, <2>2, <3>1, <3>3, <1>a DEF TracesJoin, Has
  <2> QED
    BY <2>3, <2>4
<1> QED
  BY <1>1, <1>2, Steps

LEMMA WholeStep == TracingInv /\ [Next]_vars => WholeTrace'
<1> SUFFICES ASSUME TracingInv, [Next]_vars PROVE WholeTrace'
  OBVIOUS
<1>a. TypeOK /\ WholeTrace /\ ChainOrder /\ SpansAgree /\ TracesJoin
  BY DEF TracingInv
<1>1. CASE Passing
  <2>1. UNCHANGED <<cfg, tracing, span>>
    BY <1>1, <1>a, PassingChanges
  <2> QED
    BY <2>1, <1>a, SettingsKept DEF WholeTrace, Has
<1>2. ASSUME NEW k \in Services, Receive(k) PROVE WholeTrace'
  <2>1. /\ UNCHANGED <<cfg, tracing>> /\ ~Handled(k)
        /\ \A i \in Services \ {k} : span'[i] = span[i]
        /\ \A i \in 1..k - 1 : Handled(i)
    BY <1>2, Received DEF settings
  <2> SUFFICES ASSUME NEW i \in Services, NEW j \in i + 1..N, Has(i)', Has(j)',
                      Joined(i, j), \A l \in i + 1..j : Follows(l)
               PROVE  span'[i].sampled = span'[j].sampled
    BY <2>1, SettingsKept DEF WholeTrace
  <2>2. /\ j \in Services /\ i < j /\ j > 1 /\ j - 1 \in Services /\ i \in 1..j - 1
        /\ j \in i + 1..j
    BY NAssumption DEF Services
  <2>3. i # k
    <3>1. CASE i = k
      <4>1. Handled(j)
        BY <3>1, <2>1, <2>2, <1>a DEF Has, SpansAgree, NoContext
      <4>2. Handled(i)
        BY <4>1, <2>2, <1>a DEF ChainOrder, Handled
      <4> QED
        BY <4>2, <3>1, <2>1
    <3> QED
      BY <3>1
  <2>4. CASE j # k
    BY <2>1, <2>2, <2>3, <2>4, <1>a DEF WholeTrace, Has
  <2>5. CASE j = k
    <3>1. Live(j) /\ Joined(i, j - 1)
      BY <2>2, JoinedLonger
    <3>2. Live(j - 1)
      <4>1. j - 1 \in i..j - 1
        BY <2>2 DEF Services
      <4> QED
        BY <4>1, <3>1 DEF Joined
    <3>3. span'[j].sampled = span[j - 1].sampled
      BY <1>2, <2>2, <2>5, <3>1, <3>2, Received
    <3>4. CASE i = j - 1
      BY <3>3, <3>4, <2>1, <2>3
    <3>5. CASE i # j - 1
      <4>1. j - 1 \in i + 1..N /\ \A l \in i + 1..j - 1 : l \in i + 1..j
        BY <3>5, <2>2 DEF Services
      <4>2. Has(i) /\ Has(j - 1)
        <5>1. Handled(j - 1) /\ j - 1 \in 1..j - 1
          BY <2>1, <2>2, <2>5 DEF Services
        <5>2. Has(j - 1)
          BY <5>1, <3>2, <2>2, <1>a, JoinedAlone DEF TracesJoin, Services
        <5> QED
          BY <5>2, <2>1, <2>3 DEF Has
      <4>3. span[i].sampled = span[j - 1].sampled
        BY <4>1, <4>2, <3>1, <1>a DEF WholeTrace
      <4> QED
        BY <4>3, <3>3, <2>1, <2>3
    <3> QED
      BY <3>4, <3>5
  <2> QED
    BY <2>4, <2>5
<1> QED
  BY <1>1, <1>2, Steps

LEMMA CappedStep == TracingInv /\ [Next]_vars => StateCapped'
<1> SUFFICES ASSUME TracingInv, [Next]_vars PROVE StateCapped'
  OBVIOUS
<1>a. TypeOK /\ StateCapped /\ TracesJoin
  BY DEF TracingInv
<1>1. CASE Passing
  <2>1. UNCHANGED <<cfg, tracing, span>> /\ headers'[1] = headers[1]
    BY <1>1, <1>a, PassingChanges
  <2>2. \A i, j : Joined(i, j)' <=> Joined(i, j)
    BY <2>1, SettingsKept
  <2> QED
    BY <2>1, <2>2, <1>a DEF StateCapped, Has, Cap
<1>2. ASSUME NEW j \in Services, Receive(j) PROVE StateCapped'
  <2>1. /\ UNCHANGED <<cfg, tracing, headers>>
        /\ \A i \in Services \ {j} : span'[i] = span[i]
        /\ \A i \in 1..j - 1 : Handled(i)
    BY <1>2, Received DEF settings
  <2> SUFFICES ASSUME NEW i \in Services, Has(i)'
               PROVE  /\ span'[i].state # "long"
                      /\ headers[1].trace = ClientTrace /\ Joined(1, i) =>
                            /\ span'[i].trace = ClientTrace
                            /\ span'[i].state = Cap(headers[1]).state
    <3>1. \A l, k : Joined(l, k)' <=> Joined(l, k)
      BY <2>1, SettingsKept
    <3> QED
      BY <2>1, <3>1 DEF StateCapped, Cap
  <2>2. CASE i # j
    BY <2>1, <2>2, <1>a DEF StateCapped, Has
  <2>3. CASE i = j
    <3>1. Live(j)
      BY <1>2, <2>3, ReceivedJoins DEF Has
    <3>2. headers[1].trace = ClientTrace /\ Joined(1, j) => span'[j].trace = ClientTrace
      BY <1>2, ReceivedJoins
    <3>3. CASE j = 1
      BY <1>2, <2>3, <3>1, <3>2, <3>3, Received
    <3>4. CASE j # 1
      <4>1. j > 1 /\ j - 1 \in Services /\ 1 \in Services /\ 1 < j /\ j - 1 \in 1..j - 1
        BY <3>4, NAssumption DEF Services
      <4>2. CASE Live(j - 1)
        <5>1. span'[j].state = span[j - 1].state
          BY <1>2, <3>1, <4>1, <4>2, Received
        <5>2. Has(j - 1)
          BY <2>1, <4>1, <4>2, <1>a, JoinedAlone DEF TracesJoin, Services
        <5>3. Joined(1, j) => Joined(1, j - 1)
          BY <4>1, JoinedLonger
        <5> QED
          BY <5>1, <5>2, <5>3, <2>3, <3>2, <4>1, <1>a DEF StateCapped
      <4>3. CASE ~Live(j - 1)
        <5>1. span'[j].state = "absent"
          BY <1>2, <3>1, <4>1, <4>3, Received
        <5>2. ~Joined(1, j)
          <6>1. j - 1 \in 1..j
            BY <4>1 DEF Services
          <6> QED
            BY <6>1, <4>3 DEF Joined
        <5> QED
          BY <5>1, <5>2, <2>3
      <4> QED
        BY <4>2, <4>3
    <3> QED
      BY <3>3, <3>4
  <2> QED
    BY <2>2, <2>3
<1> QED
  BY <1>1, <1>2, Steps

LEMMA LogsStep == TracingInv /\ [Next]_vars => LogsAgree'
<1> SUFFICES ASSUME TracingInv, [Next]_vars PROVE LogsAgree'
  OBVIOUS
<1>a. TypeOK /\ LogsAgree
  BY DEF TracingInv
<1>b. /\ at \in [Services -> {"idle", "called", "handling", "calling", "done"}]
      /\ line \in [Services -> Traces \union {NoTrace}]
  BY <1>a DEF TypeOK
<1>1. ASSUME NEW j \in Services, Receive(j) PROVE LogsAgree'
  <2>1. line' = line /\ at[j] = "called" /\ at' = [at EXCEPT ![j] = "handling"]
    BY <1>1 DEF Receive, Goto
  <2> QED
    BY <1>1, <2>1, <1>a, <1>b, Received DEF LogsAgree
<1>2. ASSUME NEW j \in Services, CallNext(j) PROVE LogsAgree'
  <2>1. j + 1 \in Services /\ j # j + 1
    BY <1>2, NAssumption DEF CallNext, Services
  <2>2. \A i \in Services : at'[i] = "done" <=> at[i] = "done"
    BY <1>2, <2>1, <1>b DEF CallNext
  <2> QED
    BY <1>2, <2>2, <1>a DEF CallNext, LogsAgree
<1>3. ASSUME NEW j \in Services, Return(j) PROVE LogsAgree'
  BY <1>3, <1>a, <1>b DEF Return, Goto, LogsAgree
<1>4. CASE Arrive
  BY <1>4, <1>a, <1>b DEF Arrive, Goto, LogsAgree
<1>5. CASE StartUp \/ Command \/ UNCHANGED vars
  BY <1>5, <1>a DEF StartUp, Command, vars, LogsAgree
<1> QED
  BY <1>1, <1>2, <1>3, <1>4, <1>5, Steps DEF Passing

(* What a call of Instrument adds. *)
LEMMA HooksStep == TracingInv /\ [Next]_vars => HooksAgree'
<1> SUFFICES ASSUME TracingInv, [Next]_vars PROVE HooksAgree'
  OBVIOUS
<1>a. HooksAgree /\ RedisTypeOK
  BY DEF TracingInv, TypeOK
<1>1. CASE StartUp
  <2>1. PICK metrics \in BOOLEAN, tracingErr \in Halves, metricsErr \in Halves :
           /\ hooks' = IF tracingErr = "nil" THEN hooks + 1 ELSE hooks
           /\ outcome' = IF tracingErr = "nil" /\ metrics THEN metricsErr ELSE tracingErr
           /\ careful' = (careful /\ ~metrics /\ outcome # "nil")
    BY <1>1, Zenon DEF StartUp, Instrument
  <2>2. calls' = calls + 1 /\ hooks \in Nat /\ calls \in Nat
    BY <1>1, <1>a, MaxCallsAssumption DEF StartUp, Instrument, RedisTypeOK
  <2>3. hooks' <= calls'
    BY <2>1, <2>2, <1>a DEF HooksAgree
  <2>4. outcome' = "nil" => hooks' >= 1
    BY <2>1, <2>2, <1>a DEF HooksAgree, Halves
  <2>5. ASSUME careful' PROVE hooks' = IF outcome' = "nil" THEN 1 ELSE 0
    <3>1. careful /\ ~metrics /\ outcome # "nil"
      BY <2>1, <2>5, Zenon
    <3>2. hooks = 0
      BY <3>1, <1>a, Zenon DEF HooksAgree
    <3> QED
      BY <2>1, <3>1, <3>2 DEF Halves
  <2> QED
    BY <2>3, <2>4, <2>5 DEF HooksAgree
<1>2. ASSUME UNCHANGED redis PROVE HooksAgree'
  BY <1>2, <1>a DEF redis, HooksAgree
<1> QED
  BY <1>1, <1>2, Steps DEF Passing, Arrive, Command, CallNext, Return, Receive, vars

LEMMA CommandsStep == TracingInv /\ [Next]_vars => CommandsAgree'
<1> SUFFICES ASSUME TracingInv, [Next]_vars PROVE CommandsAgree'
  OBVIOUS
<1>a. TypeOK /\ ChainOrder /\ CommandsAgree /\ TracesJoin
  BY DEF TracingInv
<1>b. N \in Services /\ 1 \in Services
  BY NAssumption DEF Services
<1>c. ASSUME UNCHANGED <<cfg, tracing, commands, redis>>, commands.sent => span'[N] = span[N],
             Handled(N) => Handled(N)'
      PROVE  CommandsAgree'
  <2>1. (Live(N)' <=> Live(N)) /\ (Follows(N)' <=> Follows(N))
    BY <1>c, SettingsKept
  <2> QED
    BY <1>a, <1>c, <2>1 DEF CommandsAgree, redis
<1>1. ASSUME NEW j \in Services, Receive(j) PROVE CommandsAgree'
  <2>1. commands.sent => j # N
    BY <1>1, <1>a, Received DEF CommandsAgree
  <2> QED
    BY <1>1, <2>1, <1>b, <1>c, Received DEF settings
<1>2. CASE StartUp
  <2>1. ~commands.sent
    <3>1. CASE Handled(N)
      <4>1. 1 \in 1..N - 1 \/ 1 = N
        BY NAssumption
      <4>2. Handled(1)
        BY <3>1, <4>1, <1>a, <1>b DEF ChainOrder, Handled
      <4> QED
        BY <4>2, <1>2 DEF StartUp, Handled
    <3> QED
      BY <3>1, <1>a DEF CommandsAgree
  <2> QED
    BY <1>2, <2>1 DEF StartUp, CommandsAgree
<1>3. CASE Command
  <2>1. at[N] = "handling" /\ UNCHANGED <<cfg, tracing, at, span, hooks>>
    BY <1>3 DEF Command, settings, redis
  <2>2. PICK d \in IF Exports(N) THEN Decisions(N, span[N]) ELSE {FALSE} :
           commands' = [sent |-> TRUE, recorded |-> IF d THEN hooks ELSE 0]
    BY <1>3 DEF Command
  <2>3. ASSUME Live(N), Follows(N), span[N].sampled
        PROVE  d
    <3>1. span[N].trace # NoTrace
      BY <2>1, <2>3, <1>a, <1>b, JoinedAlone DEF TracesJoin, Has, Handled, Services
    <3> QED
      BY <2>2, <2>3, <3>1, <1>b, FollowsDecides DEF Live
  <2>4. (Live(N)' <=> Live(N)) /\ (Follows(N)' <=> Follows(N))
    BY <2>1, SettingsKept
  <2> QED
    BY <2>1, <2>2, <2>3, <2>4 DEF CommandsAgree, Handled
<1>4. CASE Arrive \/ UNCHANGED vars
  BY <1>4, <1>a, <1>b, <1>c, PassingChanges DEF Arrive, vars, Passing
<1>5. ASSUME NEW j \in Services, CallNext(j) \/ Return(j) PROVE CommandsAgree'
  BY <1>5, <1>a, <1>b, <1>c, PassingChanges DEF CallNext, Return, Passing
<1> QED
  BY <1>1, <1>2, <1>3, <1>4, <1>5, Steps DEF Passing

-----------------------------------------------------------------------------
(* What the services keep true of the request between them, whatever their *)
(* configurations, the sampler's choices and the calls of Instrument       *)
(* (trace/middleware.go:24-57, trace.go:39-77, redistrace.go:37-75).       *)
THEOREM TracingInvariant == Spec => []TracingInv
<1>1. TracingInv /\ [Next]_vars => TracingInv'
  BY TypeStep, ChainStep, HeadersStep, SpansStep, JoinStep, WholeStep, CappedStep,
     LogsStep, HooksStep, CommandsStep DEF TracingInv
<1> QED
  BY <1>1, InitTracingInv, PTL DEF Spec

(* Every variable keeps its type. *)
THEOREM TypeCorrect == Spec => []TypeOK
BY TracingInvariant, PTL DEF TracingInv

(* Among services that follow their callers and sample at a ratio, a span  *)
(* is recorded wherever the one above it is, and nowhere else, in a chain  *)
(* of any length (trace.go:98-102).                                        *)
THEOREM WholeTraceCorrect == Spec => []WholeTrace
BY TracingInvariant, PTL DEF TracingInv

(* An over-long tracestate gets into no span, and one within the limit     *)
(* reaches every joined service with the client's trace                    *)
(* (trace/middleware.go:29-36).                                            *)
THEOREM StateCappedCorrect == Spec => []StateCapped
BY TracingInvariant, PTL DEF TracingInv

(* Two log lines name one trace exactly when all services between them     *)
(* trace (middleware/logging.go:27-34, trace.go:39, 77).                   *)
THEOREM LinesJoinCorrect == Spec => []LinesJoin
<1>1. TracingInv => LinesJoin
  <2> SUFFICES ASSUME TracingInv, NEW j \in Services, at[j] = "done"
               PROVE  /\ line[j] = ClientTrace <=> headers[1].trace = ClientTrace /\ Joined(1, j)
                      /\ \A i \in 1..j : at[i] = "done" =>
                            (line[j] # NoTrace /\ line[i] = line[j] <=> Joined(i, j))
    BY DEF LinesJoin
  <2>1. Handled(j) /\ \A i \in 1..j : i \in Services
    BY NAssumption DEF Handled, Services
  <2>2. \A i \in 1..j : at[i] = "done" => line[i] = span[i].trace
    BY <2>1 DEF TracingInv, LogsAgree
  <2>3. line[j] = span[j].trace
    BY DEF TracingInv, LogsAgree
  <2> QED
    BY <2>1, <2>2, <2>3 DEF TracingInv, TracesJoin, Has
<1> QED
  BY <1>1, TracingInvariant, PTL

(* A command below a recorded request leaves a span per hook: at least one *)
(* once Instrument succeeded, exactly one if it was called with care, and  *)
(* never more than it was called (redistrace.go:44-48, 58-66).             *)
THEOREM CommandsTracedCorrect == Spec => []CommandsTraced
<1>1. TracingInv => CommandsTraced
  BY DEF TracingInv, CommandsAgree, HooksAgree, CommandsTraced
<1> QED
  BY <1>1, TracingInvariant, PTL
=============================================================================
