------------------------------ MODULE Lifecycle ------------------------------
(***************************************************************************)
(* obs.Init and Obs.Shutdown, called any number of times in one process    *)
(* and at the same time: the logger, the trace provider and the metrics    *)
(* registry are set up in that order, a failure undoes what came before,   *)
(* and the trace provider is registered globally on the way.  A middleware *)
(* chain takes its tracer from the global provider when it is built, not   *)
(* from the Obs it belongs to, and ends a span per request.                *)
(*                                                                         *)
(* OpenTelemetry (external): a provider batches ended spans and exports    *)
(* them later; the default global provider forwards to the first provider  *)
(* that was ever registered.  Shut down, a provider gives out no tracer    *)
(* that records; its batch processor takes no more spans and drains those  *)
(* it has in the background, unless the context was over to begin with, in *)
(* which case it is not told.                                              *)
(***************************************************************************)
EXTENDS Config

CONSTANTS
    Inits,      \* the calls of obs.Init
    NoInit,     \* the default global provider, or no provider
    Configs     \* the configurations they may be called with

ASSUME NoInitAssumption == NoInit \notin Inits
ASSUME ConfigsAssumption == Configs \subseteq AllConfigs

VARIABLES
    cfg,        \* the configuration of each call of Init
    at,         \* where each Init, or the Obs it returned, stands
    err,        \* the part of Init whose error it returns, or nil
    provider,   \* the SDK provider each Init made
    global,     \* whose provider otel.GetTracerProvider returns
    delegate,   \* where the default global provider forwards
    chain,      \* whether the Obs has built a middleware chain
    tracer,     \* the provider the chain took its tracer from
    mute,       \* the chains whose tracer came from a provider shut down
    buffered,   \* the chains whose spans each provider still holds
    exported,   \* <<chain, provider>> of the spans that were sent
    older       \* history: the providers registered before each one

outcome == <<cfg, err>>
registration == <<global, delegate, older>>
serving == <<chain, tracer, mute>>
spans == <<buffered, exported>>
vars == <<outcome, at, provider, registration, serving, spans>>

Stages == {"idle", "configured", "logged", "tracing", "traced",
           "unwinding", "failed", "up", "closing", "down", "cut"}
Errors == {"nil", "config", "log", "trace", "exporter", "metrics"}

HasEndpoint(i) == cfg[i].OTLPEndpoint # NoEndpoint

(* A provider is made only for a configuration with an endpoint. *)
TypeOK ==
    /\ cfg \in [Inits -> Configs]
    /\ at \in [Inits -> Stages]
    /\ err \in [Inits -> Errors]
    /\ provider \in [Inits -> {"none", "live", "abandoned", "draining", "shut"}]
    /\ \A i \in Inits : provider[i] # "none" => HasEndpoint(i)
    /\ global \in Inits \union {NoInit}
    /\ delegate \in Inits \union {NoInit}
    /\ chain \subseteq Inits
    /\ tracer \in [Inits -> Inits \union {NoInit}]
    /\ mute \subseteq chain
    /\ buffered \in [Inits -> SUBSET Inits]
    /\ exported \subseteq Inits \X Inits
    /\ older \in [Inits -> SUBSET Inits]

Init ==
    /\ cfg \in [Inits -> Configs]
    /\ at = [i \in Inits |-> "idle"]
    /\ err = [i \in Inits |-> "nil"]
    /\ provider = [i \in Inits |-> "none"]
    /\ global = NoInit
    /\ delegate = NoInit
    /\ chain = {}
    /\ tracer = [i \in Inits |-> NoInit]
    /\ mute = {}
    /\ buffered = [i \in Inits |-> {}]
    /\ exported = {}
    /\ older = [i \in Inits |-> {}]

-----------------------------------------------------------------------------
(* obs.Init *)

Goto(i, stage) == at' = [at EXCEPT ![i] = stage]
SetProvider(i, state) == provider' = [provider EXCEPT ![i] = state]

Advance(i, stage) ==
    /\ Goto(i, stage)
    /\ UNCHANGED <<outcome, provider, registration, serving, spans>>

(* Init returns an error of the part that failed. *)
Fail(i, part) ==
    /\ Goto(i, "failed")
    /\ err' = [err EXCEPT ![i] = part]
    /\ UNCHANGED <<cfg, provider, registration, serving, spans>>

Validate(i) ==
    /\ at[i] = "idle"
    /\ IF Accepted(cfg[i]) THEN Advance(i, "configured")
                           ELSE Fail(i, "config")

LogInit(i) ==
    /\ at[i] = "configured"
    /\ IF ParseLevel(cfg[i].LogLevel) \in ValidLevels
          THEN Advance(i, "logged") ELSE Fail(i, "log")

TraceValidate(i) ==
    /\ at[i] = "logged"
    /\ IF TraceAccepted(cfg[i]) THEN Advance(i, "tracing")
                                ELSE Fail(i, "trace")

(* trace.Init without an endpoint makes nothing and registers nothing. *)
TraceNoop(i) ==
    /\ at[i] = "tracing"
    /\ ~HasEndpoint(i)
    /\ Advance(i, "traced")

(* Mutant: the global provider is set once and never replaced. *)
RegisterOnce(i) ==
    /\ global' = IF global = NoInit THEN i ELSE global
    /\ delegate' = IF delegate = NoInit THEN i ELSE delegate
    /\ older' = [older EXCEPT ![i] = {j \in Inits \ {i} : provider[j] # "none"}]

Register(i) ==
    /\ global' = i
    /\ delegate' = IF delegate = NoInit THEN i ELSE delegate
    /\ older' = [older EXCEPT ![i] = {j \in Inits \ {i} : provider[j] # "none"}]

(* Mutant: no early return where there is no endpoint. *)
TraceInitAlways(i) ==
    /\ at[i] = "tracing"
    /\ SetProvider(i, "live")
    /\ Register(i)
    /\ Goto(i, "traced")
    /\ UNCHANGED <<outcome, serving, spans>>

TraceInit(i) ==
    /\ at[i] = "tracing"
    /\ HasEndpoint(i)
    /\ SetProvider(i, "live")
    /\ Register(i)
    /\ Goto(i, "traced")
    /\ UNCHANGED <<outcome, serving, spans>>

(* The exporter cannot be created: there is only the logger to undo. *)
TraceFails(i) ==
    /\ at[i] = "tracing"
    /\ HasEndpoint(i)
    /\ Fail(i, "exporter")

MetricsInit(i) ==
    /\ at[i] = "traced"
    /\ MetricsAccepted(cfg[i])
    /\ Advance(i, "up")

(* Mutant: whatever provider is registered is shut down. *)
BeginDrainRegistered(i) ==
    provider' = [p \in Inits |-> IF p = global /\ provider[p] = "live"
                                 THEN "draining" ELSE provider[p]]

(* The SDK provider, if there is one, begins to drain. *)
BeginDrain(i) ==
    SetProvider(i, IF provider[i] = "live" THEN "draining" ELSE provider[i])

(* Mutant: the provider of an Init that fails late is left running. *)
MetricsFailsLeaky(i) ==
    /\ at[i] = "traced"
    /\ ~MetricsAccepted(cfg[i])
    /\ Fail(i, "metrics")

(* Init shuts the provider down under a context that never ends. *)
MetricsFails(i) ==
    /\ at[i] = "traced"
    /\ ~MetricsAccepted(cfg[i])
    /\ BeginDrain(i)
    /\ Goto(i, "unwinding")
    /\ err' = [err EXCEPT ![i] = "metrics"]
    /\ UNCHANGED <<cfg, registration, serving, spans>>

-----------------------------------------------------------------------------
(* Obs.Shutdown under the caller's context; the metrics' and the logger's  *)
(* do nothing.  It tells nobody whether the provider's returned an error.  *)

Shutdown(i) ==
    /\ at[i] = "up"
    /\ BeginDrain(i)
    /\ Goto(i, "closing")
    /\ UNCHANGED <<outcome, registration, serving, spans>>

(* The context is over already: the provider is marked as shut down, its   *)
(* processor runs on for the chains that have a tracer.                    *)
ShutdownLate(i) ==
    /\ at[i] = "up"
    /\ SetProvider(i, IF provider[i] = "live" THEN "abandoned" ELSE provider[i])
    /\ Goto(i, IF provider[i] = "live" THEN "cut" ELSE "down")
    /\ UNCHANGED <<outcome, registration, serving, spans>>

(* The drain is over, or there was none. *)
Returned(i) ==
    /\ at[i] \in {"unwinding", "closing"}
    /\ provider[i] # "draining"
    /\ Goto(i, IF at[i] = "closing" THEN "down" ELSE "failed")
    /\ UNCHANGED <<outcome, provider, registration, serving, spans>>

(* The context ends first; the drain goes on. *)
CutOff(i) ==
    /\ at[i] = "closing"
    /\ provider[i] = "draining"
    /\ Goto(i, "cut")
    /\ UNCHANGED <<outcome, provider, registration, serving, spans>>

Sent(p) == exported \union (buffered[p] \X {p})

(* A processor empties its batch; a collector that is away loses it. *)
Flush(p) ==
    /\ exported' \in {exported, Sent(p)}
    /\ buffered' = [buffered EXCEPT ![p] = {}]

Drain(p) ==
    /\ provider[p] = "draining"
    /\ SetProvider(p, "shut")
    /\ Flush(p)
    /\ UNCHANGED <<outcome, at, registration, serving>>

-----------------------------------------------------------------------------
(* Requests. *)

Build(i) ==
    /\ at[i] \in {"up", "closing", "down", "cut"}
    /\ i \notin chain
    /\ chain' = chain \union {i}
    /\ tracer' = [tracer EXCEPT ![i] = global]
    /\ mute' = IF global # NoInit /\ provider[global] # "live"
               THEN mute \union {i} ELSE mute
    /\ UNCHANGED <<outcome, at, provider, registration, spans>>

Destination(i) == IF tracer[i] = NoInit THEN delegate ELSE tracer[i]

(* Whether the provider's processor takes spans. *)
Runs(p) == provider[p] \in {"live", "abandoned"}

Serve(i) ==
    /\ i \in chain \ mute
    /\ \E p \in Inits :
        /\ p = Destination(i) /\ Runs(p)
        /\ BuildSampler(cfg[p]) # "never"
        /\ buffered' = [buffered EXCEPT ![p] = @ \union {i}]
    /\ UNCHANGED <<outcome, at, provider, registration, serving, exported>>

(* The batch timer fires. *)
Export(p) ==
    /\ Runs(p)
    /\ buffered[p] # {}
    /\ Flush(p)
    /\ UNCHANGED <<outcome, at, provider, registration, serving>>

Initialise(i) ==
    \/ Validate(i) \/ LogInit(i) \/ TraceValidate(i)
    \/ TraceNoop(i) \/ TraceInit(i) \/ TraceFails(i)
    \/ MetricsInit(i) \/ MetricsFails(i)

Next == \E i \in Inits :
    \/ Initialise(i)
    \/ Shutdown(i) \/ ShutdownLate(i) \/ Returned(i) \/ CutOff(i) \/ Drain(i)
    \/ Build(i) \/ Serve(i) \/ Export(i)

Spec == Init /\ [][Next]_vars

-----------------------------------------------------------------------------
(* An Init that returned an error left no provider running, however far it *)
(* got, and no span behind (obs.go:65-81).                                 *)
FailedInitHoldsNothing ==
    \A i \in Inits : at[i] = "failed" =>
        provider[i] \in {"none", "shut"} /\ buffered[i] = {}

(* What config.Config.Validate accepts, the logger and trace.Config accept *)
(* too: past it, Init fails only for what it does not look at, the metrics *)
(* prefix and the exporter (config.go:27-57, "keep both in sync"           *)
(* trace/config.go:46, log.go:112-131).                                    *)
AcceptedIsUsable == \A i \in Inits : err[i] \notin {"log", "trace"}

(* A provider is stopped by its own Obs and by nothing that another one    *)
(* does, though it may be the other's that is registered; and once a       *)
(* Shutdown has returned, it takes no more spans and holds none, also none *)
(* of the chains of others, unless the context ended first                 *)
(* (obs.go:75-80, 104-109, trace.go:106-113).                              *)
StoppedByOwn ==
    \A i \in Inits :
        /\ at[i] \in {"traced", "up"} => provider[i] \in {"none", "live"}
        /\ at[i] = "down" => provider[i] \in {"none", "shut"} /\ buffered[i] = {}
        /\ at[i] = "cut" => provider[i] \in {"abandoned", "draining", "shut"}

(* The spans of an Obs with an endpoint go to its own provider, or to one  *)
(* registered after it, never to one it has replaced (trace.go:29-30).     *)
SpansReachOwnOrNewer ==
    \A s \in exported : HasEndpoint(s[1]) => s[2] \notin older[s[1]]

(* An Obs without an endpoint exports nothing (README.md:187-188, "When    *)
(* OTLPEndpoint is empty, Init() installs a no-op tracer - no spans are    *)
(* exported and no network connection is made").                           *)
NoopExportsNothing == \A s \in exported : HasEndpoint(s[1])
=============================================================================
