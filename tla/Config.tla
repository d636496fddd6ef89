-------------------------------- MODULE Config --------------------------------
(***************************************************************************)
(* The configuration of the library and the functions that judge it.       *)
(* obs.Init asks four of them in turn: config.Config.Validate, the level   *)
(* parser of the logger, trace.Config.Validate and metrics.Config.Validate.*)
(* A field takes the values that one of them treats differently.           *)
(***************************************************************************)

(* An endpoint is the text of an address in one of the shapes that         *)
(* net.SplitHostPort tells apart; a scheme in front of it is cut off.      *)
Addresses == {"name", "routable", "loopback", "linkLocal", "unspecified"}
Shapes == {"host", "host:port", "[host]", "[host]:port"}
Endpoint == [shape : Shapes, address : Addresses]
NoEndpoint == [shape |-> "", address |-> ""]

(* The rates: below 0, 0, between, 1, above 1, and not a number. *)
Rates == {"negative", "zero", "fraction", "one", "above", "NaN"}

AllConfigs ==
    [ServiceName   : {"", "svc"},
     Environment   : {"development", "production", "Production"},
     LogLevel      : {"", "info", "INFO", "verbose"},
     OTLPEndpoint  : Endpoint \union {NoEndpoint},
     SampleRate    : Rates,
     DevMode       : BOOLEAN,
     MetricsPrefix : {"", "app", "my-app"}]

(* strings.ToLower on the texts above. *)
ToLower(text) == CASE text = "INFO" -> "info"
                   [] text = "Production" -> "production"
                   [] OTHER -> text
EqualFold(s, t) == ToLower(s) = ToLower(t)

-----------------------------------------------------------------------------
(* config.Config *)

ValidLevels == {"debug", "info", "warn", "error", "fatal"}

(* SplitHostPort takes a bracketed host apart only if a port follows it;   *)
(* otherwise it fails and the text stays as it is, brackets included.      *)
ExtractHost(endpoint) == [bracketed |-> endpoint.shape = "[host]",
                          address   |-> endpoint.address]

(* A bracketed text and a name are no IP address to net.ParseIP. *)
IsDangerousHost(host) ==
    /\ ~host.bracketed
    /\ host.address \in {"loopback", "linkLocal", "unspecified"}

(* Both comparisons with a NaN are false. *)
OutOfRange(rate) == rate \in {"negative", "above"}

(* Mutant: the environment is compared with ==, as written. *)
DevInProductionAsWritten(c) == c.DevMode /\ c.Environment = "production"

DevInProduction(c) == c.DevMode /\ EqualFold(c.Environment, "production")

Accepted(c) ==
    /\ c.ServiceName # ""
    /\ ToLower(c.LogLevel) \in ValidLevels
    /\ ~DevInProduction(c)
    /\ ~OutOfRange(c.SampleRate)
    /\ ~(/\ c.OTLPEndpoint # NoEndpoint
         /\ ~c.DevMode
         /\ IsDangerousHost(ExtractHost(c.OTLPEndpoint)))

-----------------------------------------------------------------------------
(* log, trace and metrics *)

ParseLevel(text) ==
    CASE text = "" -> "info"
      [] ToLower(text) \in ValidLevels -> ToLower(text)
      [] OTHER -> "unrecognised"

(* trace.Config.Validate keeps checks of its own, "in sync" by hand. *)
TraceAccepted(c) ==
    /\ c.ServiceName # ""
    /\ c.SampleRate \notin {"negative", "above"}
    /\ ~(c.DevMode /\ EqualFold(c.Environment, "production"))

MetricsAccepted(c) == c.MetricsPrefix \in {"", "app"}

(* Mutant: a ratio without ParentBased around it. *)
BuildSamplerRatio(c) ==
    CASE c.DevMode -> "always"
      [] ~c.DevMode /\ c.SampleRate \in {"negative", "zero"} -> "never"
      [] ~c.DevMode /\ c.SampleRate \in {"one", "above"} -> "always"
      [] OTHER -> "ratio"

(* The root sampler of a provider made from c. *)
BuildSampler(c) ==
    CASE c.DevMode -> "always"
      [] ~c.DevMode /\ c.SampleRate \in {"negative", "zero"} -> "never"
      [] ~c.DevMode /\ c.SampleRate \in {"one", "above"} -> "always"
      [] OTHER -> "parentBased"
=============================================================================
