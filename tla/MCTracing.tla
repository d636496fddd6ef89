------------------------------ MODULE MCTracing ------------------------------
(* Tracing on a short chain of services with one configuration per sampler. *)
EXTENDS Tracing

Collector == [shape |-> "host:port", address |-> "name"]

Service(endpoint, rate, devMode) ==
    [ServiceName |-> "svc", Environment |-> "development", LogLevel |-> "info",
     OTLPEndpoint |-> endpoint, SampleRate |-> rate, DevMode |-> devMode,
     MetricsPrefix |-> ""]

Silent == Service(NoEndpoint, "one", FALSE)

ChainConfigs ==
    {Silent} \union {Service(Collector, r, FALSE) : r \in {"zero", "NaN", "one"}}

(* The documented default, a ratio, and a ratio overruled by DevMode. *)
SamplerConfigs ==
    {Service(Collector, "one", FALSE)}
    \union {Service(Collector, "fraction", dev) : dev \in BOOLEAN}
=============================================================================
