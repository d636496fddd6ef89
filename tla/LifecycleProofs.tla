---------------------------- MODULE LifecycleProofs ----------------------------
(***************************************************************************)
(* Theorems about Lifecycle, for any number of calls of obs.Init and any   *)
(* configurations.  The invariant has three parts on top of the types: the *)
(* stage of an Init determines the state of its provider; the providers    *)
(* are ordered by registration, with the global one newest; and a span     *)
(* only moves between providers its chain may use.                         *)
(***************************************************************************)
EXTENDS Lifecycle, TLAPS

(* What Validate accepted is still to be looked at by the other packages.  *)
Validated == \A i \in Inits :
    /\ at[i] \in {"configured", "logged"} => Accepted(cfg[i])
    /\ err[i] \notin {"log", "trace"}

(* The provider of an Init, by the stage of the Init. *)
StagesAgree == \A i \in Inits :
    /\ at[i] \in {"idle", "configured", "logged", "tracing"} =>
           provider[i] = "none"
    /\ at[i] \in {"traced", "up"} => provider[i] \in {"none", "live"}
    /\ at[i] \in {"unwinding", "closing"} =>
           provider[i] \in {"none", "draining", "shut"}
    /\ at[i] \in {"failed", "down"} => provider[i] \in {"none", "shut"}
    /\ at[i] = "cut" => provider[i] \in {"abandoned", "draining", "shut"}
    /\ at[i] \in {"traced", "up", "closing", "down", "cut"} /\ HasEndpoint(i) =>
           provider[i] # "none"
    /\ provider[i] \in {"none", "shut"} => buffered[i] = {}

Registered == {j \in Inits : provider[j] # "none"}

(* older is the order of registration, and global its newest element. *)
GlobalIsNewest ==
    /\ \A i \in Inits : older[i] \subseteq Registered \ {i}
    /\ \A i, j \in Inits : i \in older[j] => j \notin older[i]
    /\ global = NoInit => Registered = {}
    /\ global # NoInit => older[global] = Registered \ {global}

(* No span of a chain is held by, or was sent by, a provider older than    *)
(* the one its own Obs made.                                               *)
SpansOnTrack ==
    /\ \A i \in chain : at[i] \in {"up", "closing", "down", "cut"}
    /\ \A i \in chain : HasEndpoint(i) => tracer[i] \in Inits \ older[i]
    /\ \A p \in Inits : buffered[p] \subseteq chain
    /\ \A p, i \in Inits : i \in buffered[p] /\ HasEndpoint(i) => p \notin older[i]
    /\ \A s \in exported : s[1] \in chain
    /\ SpansReachOwnOrNewer

(* The validators of the packages agree: what config.Config accepts, the   *)
(* logger's level parser and trace.Config accept (config.go:27-57).        *)
LEMMA ValidatorsAgree ==
    ASSUME NEW c \in AllConfigs, Accepted(c)
    PROVE  TraceAccepted(c) /\ ParseLevel(c.LogLevel) \in ValidLevels
<1>1. TraceAccepted(c)
  BY DEF Accepted, TraceAccepted, OutOfRange, DevInProduction
<1>2. c.LogLevel # ""
  BY DEF Accepted, ToLower, ValidLevels
<1>3. ParseLevel(c.LogLevel) = ToLower(c.LogLevel)
  BY <1>2 DEF Accepted, ParseLevel
<1> QED
  BY <1>1, <1>3 DEF Accepted

-----------------------------------------------------------------------------
LEMMA TypeInit == Init => TypeOK
  BY DEF Init, TypeOK, Stages, Errors

(* Steps of obs.Init that only move the Init on, or end it with an error. *)
LEMMA TypeQuiet ==
    ASSUME TypeOK, NEW i \in Inits,
           \/ \E stage \in Stages : Advance(i, stage)
           \/ \E part \in Errors : Fail(i, part)
    PROVE  TypeOK'
  BY DEF TypeOK, Advance, Fail, Goto, Stages, Errors, HasEndpoint, outcome, registration,
         serving, spans

(* A processor that empties its batch sends some of the spans it held. *)
LEMMA FlushTypes ==
    ASSUME TypeOK, NEW p \in Inits, Flush(p)
    PROVE  /\ buffered' \in [Inits -> SUBSET Inits]
           /\ exported' \subseteq Inits \X Inits
<1>1. Sent(p) \subseteq Inits \X Inits
  BY DEF TypeOK, Sent
<1> QED
  BY <1>1 DEF Flush, TypeOK

LEMMA TypeStep == TypeOK /\ [Next]_vars => TypeOK'
<1> SUFFICES ASSUME TypeOK, [Next]_vars PROVE TypeOK'
  OBVIOUS
<1> USE DEF outcome, registration, serving, spans, HasEndpoint
<1>1. CASE UNCHANGED vars
  BY <1>1 DEF vars, TypeOK
<1>2. ASSUME NEW i \in Inits, Initialise(i) PROVE TypeOK'
  <2>1. CASE Validate(i)
    BY <2>1, TypeQuiet DEF Validate, Stages, Errors
  <2>2. CASE LogInit(i)
    BY <2>2, TypeQuiet DEF LogInit, Stages, Errors
  <2>3. CASE TraceValidate(i)
    BY <2>3, TypeQuiet DEF TraceValidate, Stages, Errors
  <2>4. CASE TraceNoop(i)
    BY <2>4, TypeQuiet DEF TraceNoop, Stages
  <2>5. CASE TraceInit(i)
    BY <2>5 DEF TraceInit, TypeOK, Register, Goto, SetProvider, Stages
  <2>6. CASE TraceFails(i)
    BY <2>6, TypeQuiet DEF TraceFails, Errors
  <2>7. CASE MetricsInit(i)
    BY <2>7, TypeQuiet DEF MetricsInit, Stages
  <2>8. CASE MetricsFails(i)
    BY <2>8 DEF MetricsFails, TypeOK, BeginDrain, Goto, SetProvider, Stages, Errors
  <2> QED
    BY <1>2, <2>1, <2>2, <2>3, <2>4, <2>5, <2>6, <2>7, <2>8 DEF Initialise
<1>3. ASSUME NEW i \in Inits, Shutdown(i) \/ ShutdownLate(i) PROVE TypeOK'
  BY <1>3 DEF Shutdown, ShutdownLate, TypeOK, BeginDrain, Goto, SetProvider, Stages
<1>4. ASSUME NEW i \in Inits, Returned(i) \/ CutOff(i) PROVE TypeOK'
  BY <1>4 DEF Returned, CutOff, TypeOK, Goto, Stages
<1>8. ASSUME NEW i \in Inits, Drain(i) PROVE TypeOK'
  BY <1>8, FlushTypes DEF Drain, TypeOK, SetProvider
<1>5. ASSUME NEW i \in Inits, Build(i) PROVE TypeOK'
  BY <1>5 DEF Build, TypeOK
<1>6. ASSUME NEW i \in Inits, Serve(i) PROVE TypeOK'
  BY <1>6 DEF Serve, TypeOK
<1>7. ASSUME NEW i \in Inits, Export(i) PROVE TypeOK'
  BY <1>7, FlushTypes DEF Export, TypeOK
<1> QED
  BY <1>1, <1>2, <1>3, <1>4, <1>5, <1>6, <1>7, <1>8 DEF Next

(* Every variable of Lifecycle keeps its type, whatever the Inits do. *)
THEOREM TypeCorrect == Spec => []TypeOK
  BY TypeInit, TypeStep, PTL DEF Spec

-----------------------------------------------------------------------------
LEMMA ValidatedStep == TypeOK /\ Validated /\ [Next]_vars => Validated'
<1> SUFFICES ASSUME TypeOK, Validated, [Next]_vars PROVE Validated'
  OBVIOUS
<1> USE DEF outcome, registration, serving, spans
<1>1. CASE UNCHANGED vars
  BY <1>1 DEF vars, Validated
<1>2. ASSUME NEW i \in Inits, Initialise(i) PROVE Validated'
  <2>1. cfg[i] \in AllConfigs
    BY ConfigsAssumption DEF TypeOK
  <2>2. CASE Validate(i)
    BY <2>2 DEF Validate, Advance, Fail, Goto, TypeOK, Validated
  <2>3. CASE LogInit(i)
    <3>1. Advance(i, "logged")
      BY <2>1, <2>3, ValidatorsAgree DEF LogInit, Validated
    <3> QED
      BY <2>3, <3>1 DEF LogInit, Advance, Goto, TypeOK, Validated
  <2>4. CASE TraceValidate(i)
    <3>1. Advance(i, "tracing")
      BY <2>1, <2>4, ValidatorsAgree DEF TraceValidate, Validated
    <3> QED
      BY <2>4, <3>1 DEF TraceValidate, Advance, Goto, TypeOK, Validated
  <2>5. CASE TraceNoop(i) \/ MetricsInit(i)
    BY <2>5 DEF TraceNoop, MetricsInit, Advance, Goto, TypeOK, Validated
  <2>6. CASE TraceInit(i)
    BY <2>6 DEF TraceInit, Goto, TypeOK, Validated
  <2>7. CASE TraceFails(i)
    BY <2>7 DEF TraceFails, Fail, Goto, TypeOK, Validated
  <2>8. CASE MetricsFails(i)
    BY <2>8 DEF MetricsFails, Goto, TypeOK, Validated
  <2> QED
    BY <1>2, <2>2, <2>3, <2>4, <2>5, <2>6, <2>7, <2>8 DEF Initialise
<1>3. ASSUME NEW i \in Inits,
             Shutdown(i) \/ ShutdownLate(i) \/ Returned(i) \/ CutOff(i)
      PROVE  Validated'
  BY <1>3 DEF Shutdown, ShutdownLate, Returned, CutOff, Goto, TypeOK, Validated
<1>4. ASSUME NEW i \in Inits, Build(i) \/ Serve(i) \/ Export(i) \/ Drain(i)
      PROVE  Validated'
  BY <1>4 DEF Build, Serve, Export, Drain, Validated
<1> QED
  BY <1>1, <1>2, <1>3, <1>4 DEF Next

(* Init fails at the configuration, the exporter or the metrics prefix, at *)
(* the logger and at trace.Config never (config.go:27-57).                 *)
THEOREM AcceptedIsUsableAlways == Spec => []AcceptedIsUsable
<1>1. Init => Validated
  BY DEF Init, Validated
<1>2. Validated => AcceptedIsUsable
  BY DEF Validated, AcceptedIsUsable
<1> QED
  BY <1>1, <1>2, TypeCorrect, ValidatedStep, PTL DEF Spec

-----------------------------------------------------------------------------
LEMMA StagesStep == TypeOK /\ StagesAgree /\ [Next]_vars => StagesAgree'
<1> SUFFICES ASSUME TypeOK, StagesAgree, [Next]_vars PROVE StagesAgree'
  OBVIOUS
<1> USE DEF outcome, registration, serving, spans, HasEndpoint
<1>1. CASE UNCHANGED vars
  BY <1>1 DEF vars, StagesAgree
<1>2. ASSUME NEW i \in Inits, Initialise(i) PROVE StagesAgree'
  <2>1. CASE Validate(i)
    BY <2>1 DEF Validate, Advance, Fail, Goto, TypeOK, StagesAgree
  <2>2. CASE LogInit(i)
    BY <2>2 DEF LogInit, Advance, Fail, Goto, TypeOK, StagesAgree
  <2>3. CASE TraceValidate(i)
    BY <2>3 DEF TraceValidate, Advance, Fail, Goto, TypeOK, StagesAgree
  <2>4. CASE TraceNoop(i)
    BY <2>4 DEF TraceNoop, Advance, Goto, TypeOK, StagesAgree
  <2>5. CASE TraceInit(i)
    BY <2>5 DEF TraceInit, SetProvider, Goto, TypeOK, StagesAgree
  <2>6. CASE TraceFails(i)
    BY <2>6 DEF TraceFails, Fail, Goto, TypeOK, StagesAgree
  <2>7. CASE MetricsInit(i)
    BY <2>7 DEF MetricsInit, Advance, Goto, TypeOK, StagesAgree
  <2>8. CASE MetricsFails(i)
    BY <2>8 DEF MetricsFails, BeginDrain, SetProvider, Goto, TypeOK, StagesAgree
  <2> QED
    BY <1>2, <2>1, <2>2, <2>3, <2>4, <2>5, <2>6, <2>7, <2>8 DEF Initialise
<1>3. ASSUME NEW i \in Inits, Shutdown(i) PROVE StagesAgree'
  BY <1>3 DEF Shutdown, BeginDrain, SetProvider, Goto, TypeOK, StagesAgree
<1>4. ASSUME NEW i \in Inits, ShutdownLate(i) PROVE StagesAgree'
  BY <1>4 DEF ShutdownLate, SetProvider, Goto, TypeOK, StagesAgree
<1>8. ASSUME NEW i \in Inits, Returned(i) PROVE StagesAgree'
  BY <1>8 DEF Returned, Goto, TypeOK, StagesAgree
<1>9. ASSUME NEW i \in Inits, CutOff(i) PROVE StagesAgree'
  BY <1>9 DEF CutOff, Goto, TypeOK, StagesAgree
<1>10. ASSUME NEW i \in Inits, Drain(i) PROVE StagesAgree'
  <2>1. /\ at[i] \in {"unwinding", "closing", "cut"}
        /\ provider' = [provider EXCEPT ![i] = "shut"]
        /\ buffered' = [buffered EXCEPT ![i] = {}]
        /\ UNCHANGED <<at, cfg>>
    BY <1>10 DEF Drain, Flush, SetProvider, TypeOK, Stages, StagesAgree
  <2> QED
    BY <2>1 DEF TypeOK, StagesAgree
<1>5. ASSUME NEW i \in Inits, Build(i) PROVE StagesAgree'
  BY <1>5 DEF Build, StagesAgree
<1>6. ASSUME NEW i \in Inits, Serve(i) PROVE StagesAgree'
  BY <1>6 DEF Serve, Runs, TypeOK, StagesAgree
<1>7. ASSUME NEW i \in Inits, Export(i) PROVE StagesAgree'
  BY <1>7 DEF Export, Flush, TypeOK, StagesAgree
<1> QED
  BY <1>1, <1>2, <1>3, <1>4, <1>5, <1>6, <1>7, <1>8, <1>9, <1>10 DEF Next

THEOREM StagesAlwaysAgree == Spec => []StagesAgree
<1>1. Init => StagesAgree
  BY DEF Init, StagesAgree
<1> QED
  BY <1>1, TypeCorrect, StagesStep, PTL DEF Spec

(* An Init that returned an error, however far it got, left no provider    *)
(* running and no span behind (obs.go:65-81).                              *)
THEOREM FailedInitCorrect == Spec => []FailedInitHoldsNothing
<1>1. StagesAgree => FailedInitHoldsNothing
  BY DEF StagesAgree, FailedInitHoldsNothing
<1> QED
  BY <1>1, StagesAlwaysAgree, PTL

(* A provider is stopped by its own Obs alone, and where no context cut    *)
(* its Shutdown short it has ended and holds no span once that returned    *)
(* (obs.go:104-109, trace.go:106-113).                                     *)
THEOREM ShutdownCorrect == Spec => []StoppedByOwn
<1>1. StagesAgree => StoppedByOwn
  BY DEF StagesAgree, StoppedByOwn
<1> QED
  BY <1>1, StagesAlwaysAgree, PTL

-----------------------------------------------------------------------------
(* Only trace.Init registers: no other step makes a provider or forgets one. *)
LEMMA OnlyTraceInitRegisters ==
    ASSUME TypeOK, NEW i \in Inits,
           \/ Initialise(i) /\ ~TraceInit(i)
           \/ Shutdown(i) \/ ShutdownLate(i) \/ Returned(i) \/ CutOff(i) \/ Drain(i)
           \/ Build(i) \/ Serve(i) \/ Export(i)
    PROVE  UNCHANGED registration /\ Registered' = Registered
<1> USE DEF outcome, registration, serving, spans
<1>1. CASE UNCHANGED <<registration, provider>>
  BY <1>1 DEF Registered
<1>2. CASE MetricsFails(i) \/ Shutdown(i)
  BY <1>2 DEF MetricsFails, Shutdown, BeginDrain, SetProvider, TypeOK, Registered
<1>3. CASE ShutdownLate(i) \/ Drain(i)
  BY <1>3 DEF ShutdownLate, Drain, SetProvider, TypeOK, Registered
<1>4. CASE Validate(i) \/ LogInit(i) \/ TraceValidate(i)
  BY <1>1, <1>4 DEF Validate, LogInit, TraceValidate, Advance, Fail
<1>5. CASE TraceNoop(i) \/ TraceFails(i) \/ MetricsInit(i)
  BY <1>1, <1>5 DEF TraceNoop, TraceFails, MetricsInit, Advance, Fail
<1>6. CASE Build(i) \/ Serve(i) \/ Export(i) \/ Returned(i) \/ CutOff(i)
  BY <1>1, <1>6 DEF Build, Serve, Export, Returned, CutOff
<1> QED
  BY <1>2, <1>3, <1>4, <1>5, <1>6 DEF Initialise

(* Registering i puts it above every provider there is. *)
LEMMA TraceInitRegisters ==
    ASSUME TypeOK, StagesAgree, NEW i \in Inits, TraceInit(i)
    PROVE  /\ i \notin Registered
           /\ Registered' = Registered \union {i}
           /\ older' = [older EXCEPT ![i] = Registered]
           /\ global' = i
<1>1. provider[i] = "none" /\ provider' = [provider EXCEPT ![i] = "live"]
  BY DEF TraceInit, SetProvider, StagesAgree
<1>2. i \notin Registered /\ Registered' = Registered \union {i}
  BY <1>1 DEF TypeOK, Registered
<1>3. {j \in Inits \ {i} : provider[j] # "none"} = Registered
  BY <1>2 DEF Registered
<1> QED
  BY <1>2, <1>3 DEF TraceInit, Register

LEMMA NewestStep ==
    TypeOK /\ StagesAgree /\ GlobalIsNewest /\ [Next]_vars => GlobalIsNewest'
<1> SUFFICES ASSUME TypeOK, StagesAgree, GlobalIsNewest, [Next]_vars
             PROVE  GlobalIsNewest'
  OBVIOUS
<1>1. CASE UNCHANGED <<registration, Registered>>
  BY <1>1 DEF GlobalIsNewest, registration
<1>2. ASSUME NEW i \in Inits, TraceInit(i) PROVE GlobalIsNewest'
  <2> USE <1>2, TraceInitRegisters, NoInitAssumption
  <2>1. \A j \in Inits : older'[j] = IF j = i THEN Registered ELSE older[j]
    BY DEF TypeOK
  <2>2. \A j \in Inits : older'[j] \subseteq Registered' \ {j}
    BY <2>1 DEF GlobalIsNewest
  <2>3. \A j, k \in Inits : j \in older'[k] => k \notin older'[j]
    BY <2>1 DEF GlobalIsNewest
  <2>4. older'[global'] = Registered' \ {global'}
    BY <2>1
  <2> QED
    BY <2>2, <2>3, <2>4 DEF GlobalIsNewest
<1>3. CASE UNCHANGED vars
  BY <1>1, <1>3 DEF vars, registration, Registered
<1> QED
  BY <1>1, <1>2, <1>3, OnlyTraceInitRegisters DEF Next, Initialise

(* A chain built now takes a tracer of a provider that is at least as new  *)
(* as the one its own Obs made.                                            *)
LEMMA TracerIsNewEnough ==
    ASSUME TypeOK, StagesAgree, GlobalIsNewest, NEW i \in Inits, HasEndpoint(i),
           at[i] \in {"up", "closing", "down", "cut"}
    PROVE  global \in Inits \ older[i]
<1>1. i \in Registered
  BY DEF StagesAgree, Registered
<1>2. global \in Inits /\ older[global] = Registered \ {global}
  BY <1>1 DEF GlobalIsNewest, TypeOK
<1>3. CASE global = i
  BY <1>2, <1>3 DEF GlobalIsNewest
<1>4. CASE global # i
  <2>1. i \in older[global]
    BY <1>1, <1>2, <1>4
  <2> QED
    BY <1>2, <2>1 DEF GlobalIsNewest
<1> QED
  BY <1>3, <1>4

-----------------------------------------------------------------------------
(* The spans a provider sends were on track while it held them. *)
LEMMA SentOnTrack ==
    ASSUME TypeOK, SpansOnTrack, NEW p \in Inits, NEW s \in Sent(p)
    PROVE  s[1] \in chain /\ (HasEndpoint(s[1]) => s[2] \notin older[s[1]])
<1>1. CASE s \in exported
  BY <1>1 DEF SpansOnTrack, SpansReachOwnOrNewer
<1>2. CASE s \in buffered[p] \X {p}
  BY <1>2 DEF SpansOnTrack, TypeOK
<1> QED
  BY <1>1, <1>2 DEF Sent

(* Emptying a batch moves spans, and none off the track.                   *)
LEMMA FlushOnTrack ==
    ASSUME TypeOK, SpansOnTrack, NEW p \in Inits, Flush(p),
           UNCHANGED <<cfg, chain, tracer, older>>,
           \A i \in chain : at'[i] \in {"up", "closing", "down", "cut"}
    PROVE  SpansOnTrack'
<1> USE DEF HasEndpoint
<1>1. \A s \in exported' :
          s[1] \in chain /\ (HasEndpoint(s[1]) => s[2] \notin older[s[1]])
  BY SentOnTrack DEF Flush, SpansOnTrack, SpansReachOwnOrNewer
<1> QED
  BY <1>1 DEF Flush, TypeOK, SpansOnTrack, SpansReachOwnOrNewer

LEMMA OnTrackStep ==
    TypeOK /\ StagesAgree /\ GlobalIsNewest /\ SpansOnTrack /\ [Next]_vars
        => SpansOnTrack'
<1> SUFFICES ASSUME TypeOK, StagesAgree, GlobalIsNewest, SpansOnTrack, [Next]_vars
             PROVE  SpansOnTrack'
  OBVIOUS
<1> USE DEF outcome, registration, serving, spans, HasEndpoint
<1>1. CASE UNCHANGED vars
  BY <1>1 DEF vars, SpansOnTrack, SpansReachOwnOrNewer
<1>2. ASSUME NEW i \in Inits, Initialise(i) PROVE SpansOnTrack'
  <2>1. i \notin chain
    BY <1>2 DEF SpansOnTrack, Initialise, Validate, LogInit, TraceValidate, TraceNoop,
                TraceInit, TraceFails, MetricsInit, MetricsFails
  <2>2. UNCHANGED <<cfg, chain, tracer, buffered, exported>>
    BY <1>2 DEF Initialise, Validate, LogInit, TraceValidate, TraceNoop, TraceInit,
                TraceFails, MetricsInit, MetricsFails, Advance, Fail
  <2>3. \A j \in Inits \ {i} : at'[j] = at[j]
    BY <1>2 DEF Initialise, Validate, LogInit, TraceValidate, TraceNoop, TraceInit,
                TraceFails, MetricsInit, MetricsFails, Advance, Fail, Goto, TypeOK
  <2>4. \A j \in Inits \ {i} : older'[j] = older[j]
    <3>1. CASE TraceInit(i)
      BY <3>1, TraceInitRegisters DEF TypeOK
    <3> QED
      BY <1>2, <3>1, OnlyTraceInitRegisters
  <2>5. chain \subseteq Inits \ {i}
    BY <2>1 DEF TypeOK
  <2>6. \A j \in chain : at'[j] = at[j] /\ older'[j] = older[j]
    BY <2>3, <2>4, <2>5
  <2>7. \A j \in chain' : at'[j] \in {"up", "closing", "down", "cut"}
    BY <2>2, <2>6 DEF SpansOnTrack
  <2>8. \A j \in chain' : HasEndpoint(j)' => tracer'[j] \in Inits \ older'[j]
    BY <2>2, <2>6 DEF SpansOnTrack
  <2>9. \A p, j \in Inits : j \in buffered'[p] /\ HasEndpoint(j)' => p \notin older'[j]
    BY <2>2, <2>6 DEF SpansOnTrack
  <2>10. SpansReachOwnOrNewer'
    BY <2>2, <2>6 DEF SpansOnTrack, SpansReachOwnOrNewer
  <2> QED
    BY <2>2, <2>7, <2>8, <2>9, <2>10 DEF SpansOnTrack
<1>3. ASSUME NEW i \in Inits,
             Shutdown(i) \/ ShutdownLate(i) \/ Returned(i) \/ CutOff(i)
      PROVE  SpansOnTrack'
  <2>1. /\ UNCHANGED <<cfg, chain, tracer, buffered, exported, older>>
        /\ at[i] \in {"up", "unwinding", "closing"}
        /\ \A j \in Inits \ {i} : at'[j] = at[j]
        /\ at[i] # "unwinding" => at'[i] \in {"up", "closing", "down", "cut"}
    BY <1>3 DEF Shutdown, ShutdownLate, Returned, CutOff, Goto, TypeOK
  <2>2. \A j \in chain : at'[j] \in {"up", "closing", "down", "cut"}
    BY <2>1 DEF TypeOK, SpansOnTrack
  <2> QED
    BY <2>1, <2>2 DEF SpansOnTrack, SpansReachOwnOrNewer
<1>4. ASSUME NEW i \in Inits, Drain(i) \/ Export(i) PROVE SpansOnTrack'
  BY <1>4, FlushOnTrack DEF Drain, Export, SpansOnTrack
<1>5. ASSUME NEW i \in Inits, Build(i) PROVE SpansOnTrack'
  <2>1. HasEndpoint(i) => global \in Inits \ older[i]
    BY <1>5, TracerIsNewEnough DEF Build
  <2> QED
    BY <1>5, <2>1 DEF Build, TypeOK, SpansOnTrack, SpansReachOwnOrNewer
<1>6. ASSUME NEW i \in Inits, Serve(i) PROVE SpansOnTrack'
  <2>1. PICK p \in Inits : /\ p = Destination(i)
                           /\ buffered' = [buffered EXCEPT ![p] = @ \union {i}]
    BY <1>6 DEF Serve
  <2>2. i \in chain /\ (HasEndpoint(i) => p \notin older[i])
    BY <1>6, <2>1, NoInitAssumption DEF Serve, Destination, SpansOnTrack
  <2> QED
    BY <1>6, <2>1, <2>2 DEF Serve, TypeOK, SpansOnTrack, SpansReachOwnOrNewer
<1> QED
  BY <1>1, <1>2, <1>3, <1>4, <1>5, <1>6 DEF Next

(* The spans of an Obs with an endpoint are never sent by a provider that  *)
(* its own has replaced: by its own, or by a newer one (trace.go:74-76).   *)
THEOREM SpansCorrect == Spec => []SpansReachOwnOrNewer
<1>1. Init => GlobalIsNewest /\ SpansOnTrack
  BY DEF Init, GlobalIsNewest, SpansOnTrack, SpansReachOwnOrNewer, Registered
<1>2. SpansOnTrack => SpansReachOwnOrNewer
  BY DEF SpansOnTrack
<1>3. Spec => [](GlobalIsNewest /\ SpansOnTrack)
  BY <1>1, TypeCorrect, StagesAlwaysAgree, NewestStep, OnTrackStep, PTL DEF Spec
<1> QED
  BY <1>2, <1>3, PTL
=============================================================================
