------------------------------ MODULE MCLifecycle ------------------------------
(* Lifecycle with a few interchangeable calls of Init. *)
EXTENDS Lifecycle, TLC

InitSymmetry == Permutations(Inits)

Collector == [shape |-> "host:port", address |-> "name"]

Production(endpoint, rate, prefix) ==
    [ServiceName |-> "svc", Environment |-> "production", LogLevel |-> "info",
     OTLPEndpoint |-> endpoint, SampleRate |-> rate, DevMode |-> FALSE,
     MetricsPrefix |-> prefix]

(* One configuration for each way through Init and each sampler. *)
TypicalConfigs ==
    {Production(NoEndpoint, "above", "")}
    \union {Production(e, "one", p) : e \in {NoEndpoint, Collector},
                                      p \in {"app", "my-app"}}
    \union {Production(Collector, r, "app") : r \in {"zero", "fraction"}}
=============================================================================
