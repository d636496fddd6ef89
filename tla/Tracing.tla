------------------------------- MODULE Tracing -------------------------------
(***************************************************************************)
(* One request through a chain of services that each use this library,     *)
(* with tracing on or off in their Bundle, an endpoint or none, and the    *)
(* sampler BuildSampler makes of their rate.  A service caps the tracestate*)
(* header, takes the parent out of the headers, starts a span, calls the   *)
(* next one, and logs a line with the trace id as the handler returns.     *)
(* The last one also has a Redis client.  The services are processes of    *)
(* their own, so each has its own global provider and propagators.         *)
(*                                                                         *)
(* A handler calls the next service with a client that injects the context *)
(* of its request into the headers, by the propagators of its process.     *)
(***************************************************************************)
EXTENDS Integers, Config, Redistrace

CONSTANTS
    N,          \* the length of the chain
    Configs     \* the configurations a service may have

ASSUME NAssumption == N \in Nat \ {0}
ASSUME ConfigsAssumption == Configs \subseteq AllConfigs

Services == 1..N

VARIABLES
    cfg,        \* the configuration of each service
    tracing,    \* whether its Bundle traces
    at,         \* where each service stands with the request
    headers,    \* what each was called with
    span,       \* the span each started
    line,       \* the trace id in the log line of each
    commands    \* Redis commands of the last service, once it sent one:
                \* the spans recorded of it

settings == <<cfg, tracing>>
vars == <<settings, at, headers, span, line, commands, redis>>

(* A trace is named by the service that began it, the client's by 0.       *)
Traces == 0..N
NoTrace == -1
ClientTrace == 0

(* A span context, as a header or in a process. *)
Context == [trace : Traces \union {NoTrace}, sampled : BOOLEAN,
            state : {"absent", "short", "long"}]
NoContext == [trace |-> NoTrace, sampled |-> FALSE, state |-> "absent"]

TypeOK ==
    /\ cfg \in [Services -> Configs]
    /\ tracing \in [Services -> BOOLEAN]
    /\ at \in [Services -> {"idle", "called", "handling", "calling", "done"}]
    /\ headers \in [Services -> Context]
    /\ span \in [Services -> Context]
    /\ line \in [Services -> Traces \union {NoTrace}]
    /\ commands \in [sent : BOOLEAN, recorded : 0..MaxCalls]
    /\ RedisTypeOK

(* The client may send a traceparent or none, and any tracestate. *)
Init ==
    /\ cfg \in [Services -> {c \in Configs : Accepted(c)}]
    /\ tracing \in [Services -> BOOLEAN]
    /\ at = [i \in Services |-> "idle"]
    /\ \E h \in {c \in Context : c.trace = ClientTrace \/ (c.trace = NoTrace /\ ~c.sampled)} :
          headers = [i \in Services |-> IF i = 1 THEN h ELSE NoContext]
    /\ span = [i \in Services |-> NoContext]
    /\ line = [i \in Services |-> NoTrace]
    /\ commands = [sent |-> FALSE, recorded |-> 0]
    /\ RedisInit

-----------------------------------------------------------------------------
(* Without an endpoint trace.Init installs neither provider nor propagators. *)
Exports(i) == cfg[i].OTLPEndpoint # NoEndpoint
Live(i) == tracing[i] /\ Exports(i)

(* Mutant: Init forgets the propagators. *)
PropagatesNothing(context, i) == NoContext

(* The propagators carry a valid context, tracestate included, unchanged.  *)
Propagated(context, i) ==
    IF Exports(i) /\ context.trace # NoTrace THEN context ELSE NoContext

(* Mutant: a tracestate that is too long is cut to size. *)
CapTruncated(context) ==
    IF context.state = "long" THEN [context EXCEPT !.state = "truncated"] ELSE context

(* Mutant: no limit. *)
CapNothing(context) == context

(* A tracestate above the limit is dropped, and the traceparent stays.     *)
Cap(context) ==
    IF context.state = "long" THEN [context EXCEPT !.state = "absent"] ELSE context

(* What the root sampler may decide below a parent, or without one; a      *)
(* ratio, NaN included, decides either way.                                *)
Decisions(i, parent) ==
    CASE BuildSampler(cfg[i]) = "always" -> {TRUE}
      [] BuildSampler(cfg[i]) = "never" -> {FALSE}
      [] BuildSampler(cfg[i]) = "parentBased" /\ parent.trace # NoTrace -> {parent.sampled}
      [] OTHER -> BOOLEAN

(* The span continues its parent's trace and keeps its tracestate. *)
Started(i, parent, decision) ==
    [trace   |-> IF parent.trace = NoTrace THEN i ELSE parent.trace,
     sampled |-> decision,
     state   |-> parent.state]

Goto(i, label) == at' = [at EXCEPT ![i] = label]

(* The client of a command goes on, though Instrument failed. *)
StartUp ==
    /\ at[1] = "idle"
    /\ Instrument
    /\ UNCHANGED <<settings, at, headers, span, line, commands>>

Arrive ==
    /\ at[1] = "idle"
    /\ Goto(1, "called")
    /\ UNCHANGED <<settings, headers, span, line, commands, redis>>

(* HTTPMiddleware of a traced service: cap, extract, start. *)
Receive(i) ==
    /\ at[i] = "called"
    /\ LET parent == Propagated(Cap(headers[i]), i) IN
       IF Live(i)
       THEN \E d \in Decisions(i, parent) :
               span' = [span EXCEPT ![i] = Started(i, parent, d)]
       ELSE UNCHANGED span
    /\ Goto(i, "handling")
    /\ UNCHANGED <<settings, headers, line, commands, redis>>

(* The handler calls the next service and waits for it. *)
CallNext(i) ==
    /\ at[i] = "handling" /\ i < N /\ at[i + 1] = "idle"
    /\ headers' = [headers EXCEPT ![i + 1] = Propagated(span[i], i)]
    /\ at' = [at EXCEPT ![i] = "calling", ![i + 1] = "called"]
    /\ UNCHANGED <<settings, span, line, commands, redis>>

(* Each hook opens a span below the request's, in the global provider.     *)
Command ==
    /\ at[N] = "handling" /\ ~commands.sent
    /\ \E d \in IF Exports(N) THEN Decisions(N, span[N]) ELSE {FALSE} :
          commands' = [sent |-> TRUE, recorded |-> IF d THEN hooks ELSE 0]
    /\ UNCHANGED <<settings, at, headers, span, line, redis>>

(* logRequest names the trace of the context, recorded or not. *)
Return(i) ==
    /\ at[i] = "handling" \/ (at[i] = "calling" /\ at[i + 1] = "done")
    /\ line' = [line EXCEPT ![i] = span[i].trace]
    /\ Goto(i, "done")
    /\ UNCHANGED <<settings, headers, span, commands, redis>>

Answered == at[1] = "done" /\ UNCHANGED vars

Next ==
    \/ StartUp \/ Arrive \/ Command
    \/ \E i \in Services : Receive(i) \/ CallNext(i) \/ Return(i)
    \/ Answered

Spec == Init /\ [][Next]_vars

-----------------------------------------------------------------------------
Joined(i, j) == \A k \in i..j : Live(k)
Follows(i) == ~cfg[i].DevMode /\ cfg[i].SampleRate \in {"fraction", "NaN"}
Has(i) == span[i].trace # NoTrace

(* Below a service whose span is recorded, services that sample at a ratio *)
(* record theirs, and below one that is not, none does: no trace is cut by *)
(* local sampling, whatever the ratios are (trace.go:98-102).              *)
WholeTrace ==
    \A i \in Services : \A j \in i + 1..N :
        /\ Has(i) /\ Has(j)
        /\ Joined(i, j) /\ \A k \in i + 1..j : Follows(k)
        => span[i].sampled = span[j].sampled

(* The log lines of two services carry one trace id exactly when every     *)
(* service from the one to the other traces to an endpoint: no service is  *)
(* skipped, nothing is joined that was cut, and the client's own trace is  *)
(* continued under the same condition (logging.go:27-34, trace.go:39, 77). *)
LinesJoin ==
    \A j \in Services : at[j] = "done" =>
        /\ line[j] = ClientTrace <=> headers[1].trace = ClientTrace /\ Joined(1, j)
        /\ \A i \in 1..j : at[i] = "done" =>
              (line[j] # NoTrace /\ line[i] = line[j] <=> Joined(i, j))

(* No span context ever holds an over-long tracestate, wherever along the  *)
(* chain it comes in; one within the limit reaches every joined service,   *)
(* and dropping it costs no service its parent (trace/middleware.go:29-36, *)
(* middleware_test.go:151-152).                                            *)
StateCapped ==
    \A i \in Services : Has(i) =>
        /\ span[i].state # "long"
        /\ headers[1].trace = ClientTrace /\ Joined(1, i) =>
              /\ span[i].trace = ClientTrace
              /\ span[i].state = Cap(headers[1]).state

(* A service that calls Instrument, without metrics, until it returns nil  *)
(* has one span per command below a recorded request, and it never has     *)
(* more than it had calls; only a call that wanted metrics, or one after a *)
(* success, can double them (redistrace.go:44-48, 58-66).                  *)
CommandsTraced ==
    commands.sent /\ Live(N) /\ Follows(N) /\ span[N].sampled =>
        /\ outcome = "nil" => commands.recorded >= 1
        /\ careful => commands.recorded = IF outcome = "nil" THEN 1 ELSE 0
        /\ commands.recorded <= calls

(* A traced service follows its caller's decision, unless it is in DevMode *)
(* (docs/integration-guide.md:245-246, "respects parent decisions").       *)
ParentRespected ==
    \A i \in Services : Has(i) /\ ~cfg[i].DevMode /\ headers[i].trace # NoTrace =>
        span[i].sampled = headers[i].sampled
=============================================================================
