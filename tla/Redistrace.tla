------------------------------ MODULE Redistrace ------------------------------
(***************************************************************************)
(* redistrace.Instrument on one Redis client: it adds a tracing hook in    *)
(* place, then, if asked to, metrics.  Either half may fail.  A service    *)
(* calls it while it starts, and again when it likes.                      *)
(***************************************************************************)
EXTENDS Naturals

CONSTANT MaxCalls \* bound on the calls of Instrument

ASSUME MaxCallsAssumption == MaxCalls \in Nat

VARIABLES
    hooks,      \* tracing hooks on the client: spans per command
    calls,      \* of Instrument
    outcome,    \* of the last call: none, nil or err
    careful     \* history: no call wanted metrics or came after a success

redis == <<hooks, calls, outcome, careful>>

RedisTypeOK ==
    /\ hooks \in 0..MaxCalls
    /\ calls \in 0..MaxCalls
    /\ outcome \in {"none", "nil", "err"}
    /\ careful \in BOOLEAN

RedisInit == hooks = 0 /\ calls = 0 /\ outcome = "none" /\ careful = TRUE

(* redisotel.InstrumentTracing adds its hook or fails with none added;     *)
(* InstrumentMetrics fails where its instruments cannot be registered.     *)
Halves == {"nil", "err"}

(* Mutant: the metrics are set up whether they are wanted or not. *)
InstrumentBoth ==
    /\ calls < MaxCalls
    /\ calls' = calls + 1
    /\ \E metrics \in BOOLEAN, tracingErr \in Halves, metricsErr \in Halves :
        /\ hooks' = IF tracingErr = "nil" THEN hooks + 1 ELSE hooks
        /\ outcome' = IF tracingErr = "nil" THEN metricsErr ELSE "err"
        /\ careful' = (careful /\ ~metrics /\ outcome # "nil")

Instrument ==
    /\ calls < MaxCalls
    /\ calls' = calls + 1
    /\ \E metrics \in BOOLEAN, tracingErr \in Halves, metricsErr \in Halves :
        /\ hooks' = IF tracingErr = "nil" THEN hooks + 1 ELSE hooks
        /\ outcome' = IF tracingErr = "nil" /\ metrics THEN metricsErr
                                                        ELSE tracingErr
        /\ careful' = (careful /\ ~metrics /\ outcome # "nil")
=============================================================================
