----------------------------- MODULE BundleProofs -----------------------------
(***************************************************************************)
(* Theorems about Bundle, for any requests, codes, patterns and length of  *)
(* a handler: its types, that the gauge is exact, that each measured reply *)
(* is counted once, what a scrape can show of the two metrics, and which   *)
(* route and status the metrics and the log line name.                     *)
(***************************************************************************)
EXTENDS Bundle, FiniteSetTheorems, TLAPS

(* Only the Bundle's own requests stand between the metrics and the log. *)
RoutesApart == \A r \in Requests : at[r] = "recorded" => r \notin standalone

(* Until a 1xx or a flush gets ahead of the status, the status writer and  *)
(* net/http agree on it; the last word of net/http is the default of both. *)
WriterAgrees ==
    \A r \in Requests : ~detour[r] =>
        IF wire[r] = 0
        THEN ~wroteHeader[r] /\ status[r] = 200 /\ at[r] # "left"
        ELSE status[r] = wire[r] /\ (wroteHeader[r] \/ at[r] = "left")

(* A line tells what was known of the request when it was logged, and that *)
(* does not change.                                                        *)
LinesAgree ==
    \A r \in Requests :
        logged[r] = IF Logs(r) /\ at[r] \in {"logged", "left"}
                    THEN [level |-> Level(status[r]), path |-> path[r],
                          status |-> status[r]]
                    ELSE NoLine

(* The middleware has a route only once the handler can no longer change   *)
(* what chi matched, and it is the one chi matched.                        *)
PathsMatch ==
    \A r \in Requests :
        path[r] # "" => /\ at[r] \notin {"arriving", "handling"}
                        /\ path[r] = Matched(r)

(* The requests of S with one label. *)
Labelled(S, l) == {r \in S : Label(r) = l}

(* A metric that a scrape has read shows some of the requests observed by  *)
(* now, and those that it missed or that are not in the other metric yet   *)
(* were caught between the two.                                            *)
Shows(reading) ==
    \E S \in SUBSET Observed :
        /\ \A l \in Labels : reading[l] = Cardinality(Labelled(S, l))
        /\ Observed \ S \subseteq between
        /\ S \ Counted \subseteq between

ScrapeHalf ==
    /\ between \subseteq Observed
    /\ page.durations # Unread /\ page.totals = Unread => Shows(page.durations)
    /\ page.totals # Unread /\ page.durations = Unread => Shows(page.totals)

BundleInv ==
    /\ TypeOK
    /\ GaugeExact
    /\ CountedOnce
    /\ RoutesApart
    /\ WriterAgrees
    /\ LinesAgree
    /\ PathsMatch
    /\ ScrapeHalf
    /\ ScrapeConsistent

-----------------------------------------------------------------------------
(* Sets of requests and their sizes. *)

LEMMA Sizes ==
  ASSUME NEW S \in SUBSET Requests
  PROVE  IsFiniteSet(S) /\ Cardinality(S) \in Nat
BY FS_Subset, FS_CardinalityType, RequestsAssumption

(* One more request counts on its own label only. *)
LEMMA OneMore ==
  ASSUME NEW S \in SUBSET Requests, NEW r \in Requests, r \notin S, NEW l
  PROVE  Cardinality(Labelled(S \union {r}, l))
            = Cardinality(Labelled(S, l)) + IF Label(r) = l THEN 1 ELSE 0
<1>1. Labelled(S, l) \in SUBSET Requests
  BY DEF Labelled
<1>2. CASE Label(r) = l
  <2>1. Labelled(S \union {r}, l) = Labelled(S, l) \union {r} /\ r \notin Labelled(S, l)
    BY <1>2 DEF Labelled
  <2> QED
    BY <1>1, <1>2, <2>1, Sizes, FS_AddElement
<1>3. CASE Label(r) # l
  <2>1. Labelled(S \union {r}, l) = Labelled(S, l)
    BY <1>3 DEF Labelled
  <2> QED
    BY <1>1, <1>3, <2>1, Sizes
<1> QED
  BY <1>2, <1>3

(* Two sets that differ only by elements of a third differ in size by no   *)
(* more than its size.                                                     *)
LEMMA SizesClose ==
  ASSUME NEW A \in SUBSET Requests, NEW B \in SUBSET Requests, NEW C \in SUBSET Requests,
         A \ B \subseteq C, B \ A \subseteq C
  PROVE  Cardinality(A) - Cardinality(B) \in -Cardinality(C)..Cardinality(C)
<1>1. ASSUME NEW S \in SUBSET Requests, NEW T \in SUBSET Requests, S \ T \subseteq C
      PROVE  Cardinality(S) <= Cardinality(T) + Cardinality(C)
  <2>1. S \subseteq T \union C /\ T \union C \in SUBSET Requests
    BY <1>1
  <2>2. Cardinality(S) <= Cardinality(T \union C)
    BY <2>1, Sizes, FS_Subset
  <2>3. Cardinality(T \union C) = Cardinality(T) + Cardinality(C) - Cardinality(T \cap C)
    BY Sizes, FS_Union
  <2>4. Cardinality(T \cap C) \in Nat
    BY Sizes
  <2> QED
    BY <2>1, <2>2, <2>3, <2>4, Sizes
<1>2. Cardinality(A) <= Cardinality(B) + Cardinality(C)
  BY <1>1
<1>3. Cardinality(B) <= Cardinality(A) + Cardinality(C)
  BY <1>1
<1> QED
  BY <1>2, <1>3, Sizes

(* A metric that was read is not taken for one that was not. *)
LEMMA ReadIsRead == ASSUME NEW m \in [Labels -> Nat] PROVE m \in Reading /\ m # Unread
<1>1. <<"/unknown", 200>> \in Labels
  BY DEF Labels, Routes, AllCodes
<1>2. DOMAIN m # {} /\ DOMAIN <<>> = {}
  BY <1>1
<1> QED
  BY <1>2 DEF Reading, Unread

-----------------------------------------------------------------------------
(* The steps, by what they have to do with the metrics. *)
Handling(r) == \/ Enter(r) \/ EnterStandalone(r) \/ Route(r)
               \/ WriteHeader(r) \/ Write(r) \/ Flush(r) \/ Return(r) \/ Panic(r)
Observing(r) == Observe(r) \/ ObserveStandalone(r)
Counting(r) == Count(r) \/ CountStandalone(r)
Ending(r) == Log(r) \/ Leave(r) \/ Unwind(r)

LEMMA Steps ==
  ASSUME [Next]_vars
  PROVE  \/ \E r \in Requests : \/ Handling(r) \/ ResolvePath(r) \/ Observing(r)
                                \/ Counting(r) \/ Ending(r)
         \/ Scrape
         \/ UNCHANGED vars
BY DEF Next, Handling, Observing, Counting, Ending, Served

States == Inside \union {"arriving", "left", "aborted"}

(* What the handler does is between it and its own writer. *)
LEMMA HandlingChanges ==
  ASSUME TypeOK, NEW r \in Requests, Handling(r)
  PROVE  /\ UNCHANGED <<config, path, registry, logged, scrape>>
         /\ at[r] \in {"arriving", "handling"}
         /\ at'[r] \in {"handling", "returned", "panicked"}
         /\ \A q \in Requests \ {r} :
               /\ at'[q] = at[q] /\ status'[q] = status[q] /\ pattern'[q] = pattern[q]
               /\ wire'[q] = wire[q] /\ wroteHeader'[q] = wroteHeader[q]
               /\ detour'[q] = detour[q]
BY DEF TypeOK, Handling, Enter, EnterStandalone, Route, WriteHeader, Write, Flush,
       Return, Panic, Op, Capture, Send, Forget, Goto, writer, route, config, registry, scrape

(* Reading the route moves its request on and changes nothing else. *)
LEMMA ResolveChanges ==
  ASSUME TypeOK, NEW r \in Requests, ResolvePath(r)
  PROVE  /\ at[r] = "returned" /\ at' = [at EXCEPT ![r] = "resolved"]
         /\ path' = [path EXCEPT ![r] = RoutePattern(r)]
         /\ RoutePattern(r) \in Routes /\ RoutePattern(r) = Matched(r)
         /\ UNCHANGED <<config, writer, pattern, active, registry, logged, scrape>>
<1>1. pattern[r] \in Patterns \union {""}
  BY DEF TypeOK
<1>2. RoutePattern(r) \in Routes /\ RoutePattern(r) = Matched(r)
  BY <1>1, PatternsAssumption DEF RoutePattern, Matched, Routes
<1> QED
  BY <1>2 DEF ResolvePath, Goto

(* The types, in the parts that a step can disturb on its own. *)
WriterTypes ==
    /\ ops \in [Requests -> 0..MaxOps]
    /\ status \in [Requests -> AllCodes]
    /\ wroteHeader \in [Requests -> BOOLEAN]
    /\ wire \in [Requests -> AllCodes \union {0}]
    /\ detour \in [Requests -> BOOLEAN]
ConfigTypes ==
    /\ metricsEnabled \in BOOLEAN /\ loggingEnabled \in BOOLEAN
    /\ standalone \in SUBSET Requests
RequestTypes ==
    /\ at \in [Requests -> States]
    /\ pattern \in [Requests -> Patterns \union {""}]
    /\ path \in [Requests -> Routes \union {""}]
    /\ \A r \in Requests : at[r] \notin Unresolved => path[r] \in Routes
    /\ logged \in [Requests -> Lines \union {NoLine}]
MetricTypes ==
    /\ active \in Int
    /\ durations \in [Labels -> Nat]
    /\ totals \in [Labels -> Nat]
ScrapeTypes ==
    /\ page \in [durations : Reading, totals : Reading]
    /\ between \subseteq Requests

LEMMA TypeParts ==
  /\ TypeOK => WriterTypes /\ ConfigTypes /\ RequestTypes /\ MetricTypes /\ ScrapeTypes
  /\ (WriterTypes /\ ConfigTypes /\ RequestTypes /\ MetricTypes /\ ScrapeTypes)' => TypeOK'
BY DEF TypeOK, WriterTypes, ConfigTypes, RequestTypes, MetricTypes, ScrapeTypes, States

LEMMA PartsKept ==
  /\ WriterTypes /\ UNCHANGED writer => WriterTypes'
  /\ ConfigTypes /\ UNCHANGED config => ConfigTypes'
  /\ MetricTypes /\ UNCHANGED <<active, registry>> => MetricTypes'
  /\ ScrapeTypes /\ UNCHANGED scrape => ScrapeTypes'
BY DEF WriterTypes, ConfigTypes, MetricTypes, ScrapeTypes, writer, config, registry, scrape

LEMMA SentType ==
  ASSUME WriterTypes, NEW r \in Requests, NEW code \in AllCodes
  PROVE  Sent(r, code) \in AllCodes \union {0}
<1>1. wire[r] \in AllCodes \union {0}
  BY DEF WriterTypes
<1> QED
  BY <1>1 DEF Sent

LEMMA OpTypes ==
  ASSUME WriterTypes, NEW r \in Requests, Op(r)
  PROVE  ops' \in [Requests -> 0..MaxOps]
<1>1. ops[r] \in 0..MaxOps /\ ops[r] < MaxOps
  BY DEF WriterTypes, Op
<1>2. ops[r] + 1 \in 0..MaxOps
  BY <1>1, MaxOpsAssumption
<1> QED
  BY <1>2 DEF WriterTypes, Op

LEMMA CaptureTypes ==
  ASSUME WriterTypes, NEW r \in Requests, NEW code \in AllCodes, Capture(r, code)
  PROVE  status' \in [Requests -> AllCodes] /\ wroteHeader' \in [Requests -> BOOLEAN]
BY DEF WriterTypes, Capture

LEMMA SendTypes ==
  ASSUME WriterTypes, NEW r \in Requests, NEW code \in AllCodes, Send(r, code)
  PROVE  wire' \in [Requests -> AllCodes \union {0}]
BY SentType DEF WriterTypes, Send

LEMMA HandlingTypes == ASSUME TypeOK, NEW r \in Requests, Handling(r) PROVE TypeOK'
<1>a. WriterTypes /\ ConfigTypes /\ RequestTypes /\ MetricTypes /\ ScrapeTypes
  BY TypeParts
<1>b. UNCHANGED <<config, path, registry, logged, scrape>>
  BY HandlingChanges
<1>1. 200 \in AllCodes /\ \A code \in Codes : code \in AllCodes
  BY DEF AllCodes
<1>2. RequestTypes'
  <2>1. at' \in [Requests -> States] /\ pattern' \in [Requests -> Patterns \union {""}]
    BY <1>a DEF Handling, Enter, EnterStandalone, Route, WriteHeader, Write, Flush,
                Return, Panic, Goto, route, RequestTypes, States, Inside
  <2>2. \A q \in Requests : at'[q] \notin Unresolved => path'[q] \in Routes
    BY <1>a, <1>b, HandlingChanges DEF RequestTypes, Unresolved
  <2> QED
    BY <2>1, <2>2, <1>a, <1>b DEF RequestTypes
<1>3. MetricTypes'
  <2>1. active' \in {active, active + 1}
    BY DEF Handling, Enter, EnterStandalone, Route, WriteHeader, Write, Flush, Return, Panic
  <2> QED
    BY <2>1, <1>a, <1>b DEF MetricTypes, registry
<1>4. WriterTypes'
  <2>1. CASE Enter(r) \/ EnterStandalone(r) \/ Route(r)
    BY <2>1, <1>a, PartsKept DEF Enter, EnterStandalone, Route
  <2>2. CASE WriteHeader(r)
    <3>1. PICK code \in Codes :
             /\ Capture(r, code)
             /\ Send(r, code)
             /\ detour' = [detour EXCEPT ![r] = @ \/ (wire[r] = 0 /\ Informational(code))]
      BY <2>2 DEF WriteHeader
    <3>2. detour' \in [Requests -> BOOLEAN]
      BY <3>1, <1>a DEF WriterTypes
    <3>3. Op(r)
      BY <2>2 DEF WriteHeader
    <3> QED
      BY <3>1, <3>2, <3>3, <1>a, <1>1, OpTypes, CaptureTypes, SendTypes DEF WriterTypes
  <2>3. CASE Write(r)
    <3>1. Op(r) /\ Capture(r, 200) /\ Send(r, 200) /\ detour' = detour
      BY <2>3 DEF Write
    <3> QED
      BY <3>1, <1>a, <1>1, OpTypes, CaptureTypes, SendTypes DEF WriterTypes
  <2>4. CASE Flush(r)
    <3>1. /\ Op(r) /\ Send(r, 200) /\ UNCHANGED <<status, wroteHeader>>
          /\ detour' = [detour EXCEPT ![r] = @ \/ wire[r] = 0]
      BY <2>4 DEF Flush
    <3>2. detour' \in [Requests -> BOOLEAN]
      BY <3>1, <1>a DEF WriterTypes
    <3> QED
      BY <3>1, <3>2, <1>a, <1>1, OpTypes, SendTypes DEF WriterTypes
  <2>5. CASE Return(r) \/ Panic(r)
    <3>1. ops' = [ops EXCEPT ![r] = 0] /\ UNCHANGED <<status, wroteHeader, wire, detour>>
      BY <2>5 DEF Return, Panic, Forget
    <3>2. 0 \in 0..MaxOps
      BY MaxOpsAssumption
    <3> QED
      BY <3>1, <3>2, <1>a DEF WriterTypes
  <2> QED
    BY <2>1, <2>2, <2>3, <2>4, <2>5 DEF Handling
<1> QED
  BY <1>2, <1>3, <1>4, <1>a, <1>b, TypeParts, PartsKept

(* A bumped metric is one again. *)
LEMMA BumpType ==
  ASSUME TypeOK, NEW r \in Requests, at[r] \notin Unresolved
  PROVE  /\ Label(r) \in Labels
         /\ \A m \in [Labels -> Nat] : Bump(m, r) \in [Labels -> Nat]
<1>1. path[r] \in Routes /\ status[r] \in AllCodes
  BY TypeParts DEF RequestTypes, WriterTypes
<1>2. Label(r) \in Labels
  BY <1>1 DEF Label, Labels
<1> QED
  BY <1>2 DEF Bump

LEMMA TypeStep == TypeOK /\ [Next]_vars => TypeOK'
<1> SUFFICES ASSUME TypeOK, [Next]_vars PROVE TypeOK'
  OBVIOUS
<1>a. WriterTypes /\ ConfigTypes /\ RequestTypes /\ MetricTypes /\ ScrapeTypes
  BY TypeParts
<1>1. ASSUME NEW r \in Requests, Observing(r) PROVE TypeOK'
  <2>1. UNCHANGED <<config, writer, route, active, totals, logged, page>>
    BY <1>1 DEF Observing, Observe, ObserveStandalone
  <2>r. at[r] = "resolved" /\ at' = [at EXCEPT ![r] = "observed"] /\ at[r] \notin Unresolved
    BY <1>1 DEF Observing, Observe, ObserveStandalone, Goto, Unresolved
  <2>2. RequestTypes'
    BY <1>a, <2>1, <2>r DEF route, RequestTypes, States, Inside, Unresolved
  <2>3. durations' \in {durations, Bump(durations, r)}
    BY <1>1 DEF Observing, Observe, ObserveStandalone
  <2>4. MetricTypes'
    BY <2>1, <2>3, <2>r, <1>a, BumpType DEF MetricTypes
  <2>5. between' \in {between, between \union {r}}
    BY <1>1 DEF Observing, Observe, ObserveStandalone, Stand
  <2>6. ScrapeTypes'
    BY <2>1, <2>5, <1>a DEF ScrapeTypes
  <2> QED
    BY <2>1, <2>2, <2>4, <2>6, <1>a, TypeParts, PartsKept
<1>2. ASSUME NEW r \in Requests, Counting(r) PROVE TypeOK'
  <2>1. UNCHANGED <<config, writer, route, active, durations, logged, scrape>>
    BY <1>2 DEF Counting, Count, CountStandalone
  <2>r. /\ at[r] = "observed" /\ at[r] \notin Unresolved
        /\ \E l \in {"recorded", "logged"} : at' = [at EXCEPT ![r] = l]
    BY <1>2 DEF Counting, Count, CountStandalone, Goto, Unresolved
  <2>2. RequestTypes'
    BY <1>a, <2>1, <2>r DEF route, RequestTypes, States, Inside, Unresolved
  <2>3. totals' \in {totals, Bump(totals, r)}
    BY <1>2 DEF Counting, Count, CountStandalone
  <2>4. MetricTypes'
    BY <2>1, <2>3, <2>r, <1>a, BumpType DEF MetricTypes
  <2> QED
    BY <2>1, <2>2, <2>4, <1>a, TypeParts, PartsKept
<1>3. ASSUME NEW r \in Requests, Ending(r) PROVE TypeOK'
  <2>1. UNCHANGED <<config, status, wroteHeader, ops, detour, route, registry, scrape>>
    BY <1>3 DEF Ending, Log, Leave, Unwind, writer
  <2>2. wire' \in [Requests -> AllCodes \union {0}]
    <3>1. Leave(r) => wire' \in [Requests -> AllCodes \union {0}]
      BY <1>a, SendTypes DEF Leave, AllCodes
    <3>2. Log(r) \/ Unwind(r) => wire' = wire
      BY DEF Log, Unwind, writer
    <3> QED
      BY <3>1, <3>2, <1>3, <1>a DEF Ending, WriterTypes
  <2>3. WriterTypes'
    BY <2>1, <2>2, <1>a DEF WriterTypes
  <2>4. active' \in {active, active - 1}
    BY <1>3 DEF Ending, Log, Leave, Unwind, CountOut
  <2>5. MetricTypes'
    BY <2>1, <2>4, <1>a DEF MetricTypes, registry
  <2>6. logged' \in [Requests -> Lines \union {NoLine}]
    <3>1. Log(r) => path[r] \in Routes /\ status[r] \in AllCodes
      BY <1>a DEF Log, RequestTypes, WriterTypes, Unresolved
    <3>2. Log(r) => [level |-> Level(status[r]), path |-> path[r], status |-> status[r]] \in Lines
      BY <3>1 DEF Lines, Level
    <3> QED
      BY <3>2, <1>3, <1>a DEF Ending, Log, Leave, Unwind, RequestTypes
  <2>7. /\ at' \in [Requests -> States]
        /\ \A q \in Requests : at'[q] \notin Unresolved => at[q] \notin Unresolved
    BY <1>3, <1>a DEF Ending, Log, Leave, Unwind, Goto, RequestTypes, States, Inside, Unresolved
  <2>8. RequestTypes'
    BY <2>1, <2>6, <2>7, <1>a DEF RequestTypes, route
  <2> QED
    BY <2>1, <2>3, <2>5, <2>8, <1>a, TypeParts, PartsKept
<1>4. CASE Scrape
  <2>1. UNCHANGED <<config, at, writer, route, active, registry, logged>>
    BY <1>4 DEF Scrape, Read
  <2>2. between' \in SUBSET Requests
    BY <1>4, <1>a DEF Scrape, Read, ScrapeTypes, Standing
  <2>3. page' \in [durations : Reading, totals : Reading]
    BY <1>4, <1>a, ReadIsRead DEF Scrape, Read, ScrapeTypes, MetricTypes
  <2> QED
    BY <2>1, <2>2, <2>3, <1>a, TypeParts, PartsKept DEF ScrapeTypes, RequestTypes, route
<1>5. CASE UNCHANGED vars
  BY <1>5, <1>a, TypeParts, PartsKept DEF vars, RequestTypes, route
<1>6. ASSUME NEW r \in Requests, ResolvePath(r) PROVE TypeOK'
  <2>1. RequestTypes'
    <3>1. /\ at' = [at EXCEPT ![r] = "resolved"] /\ RoutePattern(r) \in Routes
          /\ path' = [path EXCEPT ![r] = RoutePattern(r)]
          /\ UNCHANGED <<pattern, logged>>
      BY <1>6, ResolveChanges
    <3>2. at' \in [Requests -> States] /\ path' \in [Requests -> Routes \union {""}]
      BY <3>1, <1>a DEF RequestTypes, States, Inside
    <3>3. \A q \in Requests : at'[q] \notin Unresolved => path'[q] \in Routes
      BY <3>1, <1>a DEF RequestTypes
    <3> QED
      BY <3>1, <3>2, <3>3, <1>a DEF RequestTypes
  <2> QED
    BY <2>1, <1>6, <1>a, ResolveChanges, TypeParts, PartsKept
<1> QED
  BY <1>1, <1>2, <1>3, <1>4, <1>5, <1>6, HandlingTypes, Steps

-----------------------------------------------------------------------------
LEMMA InitBundleInv == Init => BundleInv
<1> SUFFICES ASSUME Init PROVE BundleInv
  OBVIOUS
<1>1. TypeOK
  <2>1. WriterTypes
    <3>1. /\ ops \in [Requests -> 0..MaxOps]
          /\ status \in [Requests -> AllCodes]
          /\ wire \in [Requests -> AllCodes \union {0}]
      <4>1. 0 \in 0..MaxOps /\ 200 \in AllCodes
        BY MaxOpsAssumption DEF AllCodes
      <4>2. /\ ops = [r \in Requests |-> 0]
            /\ status = [r \in Requests |-> 200]
            /\ wire = [r \in Requests |-> 0]
        BY DEF Init
      <4> QED
        BY <4>1, <4>2
    <3>2. /\ wroteHeader \in [Requests -> BOOLEAN]
          /\ detour \in [Requests -> BOOLEAN]
      BY Zenon DEF Init
    <3> QED
      BY <3>1, <3>2 DEF WriterTypes
  <2>2. ConfigTypes
    BY Zenon DEF Init, ConfigTypes
  <2>3. RequestTypes
    <3>1. /\ at = [r \in Requests |-> "arriving"]
          /\ pattern = [r \in Requests |-> ""]
          /\ path = [r \in Requests |-> ""]
          /\ logged = [r \in Requests |-> NoLine]
      BY DEF Init
    <3> QED
      BY <3>1 DEF RequestTypes, States, Unresolved
  <2>4. MetricTypes
    <3>1. /\ active = 0
          /\ durations = [l \in Labels |-> 0]
          /\ totals = [l \in Labels |-> 0]
      BY DEF Init
    <3> QED
      BY <3>1 DEF MetricTypes
  <2>5. ScrapeTypes
    <3>1. Unread \in Reading
      BY DEF Reading
    <3> QED
      BY <3>1 DEF Init, ScrapeTypes
  <2> QED
    BY <2>1, <2>2, <2>3, <2>4, <2>5 DEF TypeOK, WriterTypes, ConfigTypes, RequestTypes,
                                  MetricTypes, ScrapeTypes, States
<1> USE DEF Init
<1>2. Observed = {} /\ Counted = {} /\ {r \in Requests : Measured(r) /\ at[r] \in Inside} = {}
  BY DEF Observed, Counted, Inside
<1>3. GaugeExact
  BY <1>2, FS_EmptySet DEF GaugeExact
<1>4. CountedOnce
  <2>1. \A l \in Labels : {r \in Observed : Label(r) = l} = {} /\ {r \in Counted : Label(r) = l} = {}
    BY <1>2
  <2> QED
    BY <2>1, FS_EmptySet DEF CountedOnce
<1>5. RoutesApart /\ WriterAgrees /\ LinesAgree /\ PathsMatch
  BY DEF RoutesApart, WriterAgrees, LinesAgree, PathsMatch
<1>6. ScrapeHalf /\ ScrapeConsistent
  BY DEF ScrapeHalf, ScrapeConsistent, Complete
<1> QED
  BY <1>1, <1>3, <1>4, <1>5, <1>6 DEF BundleInv

(* What a step after the handler leaves alone. *)
LEMMA AfterChanges ==
  ASSUME TypeOK, NEW r \in Requests
  PROVE  /\ Observing(r) => /\ at[r] = "resolved" /\ at' = [at EXCEPT ![r] = "observed"]
                            /\ UNCHANGED <<config, writer, route, active, totals, logged, page>>
                            /\ IF Measured(r)
                               THEN durations' = Bump(durations, r) /\ Stand(r)
                               ELSE UNCHANGED <<durations, between>>
         /\ Counting(r) => /\ at[r] = "observed"
                           /\ at' \in {[at EXCEPT ![r] = l] : l \in {"recorded", "logged"}}
                           /\ at' = [at EXCEPT ![r] = "recorded"] => r \notin standalone
                           /\ at' = [at EXCEPT ![r] = "logged"] => r \in standalone
                           /\ UNCHANGED <<config, writer, route, active, durations, logged, scrape>>
                           /\ totals' = IF Measured(r) THEN Bump(totals, r) ELSE totals
         /\ Ending(r) => /\ \/ at[r] = "recorded" /\ at' = [at EXCEPT ![r] = "logged"]
                            \/ at[r] = "logged" /\ at' = [at EXCEPT ![r] = "left"]
                            \/ at[r] = "panicked" /\ at' = [at EXCEPT ![r] = "aborted"]
                         /\ UNCHANGED <<config, status, wroteHeader, detour, route, registry, scrape>>
<1>a. at \in [Requests -> States]
  BY TypeParts DEF RequestTypes
<1>b. [at EXCEPT ![r] = "recorded"] # [at EXCEPT ![r] = "logged"]
  BY <1>a
<1>1. ASSUME Observing(r)
      PROVE  /\ at[r] = "resolved" /\ at' = [at EXCEPT ![r] = "observed"]
             /\ UNCHANGED <<config, writer, route, active, totals, logged, page>>
             /\ IF Measured(r)
                THEN durations' = Bump(durations, r) /\ Stand(r)
                ELSE UNCHANGED <<durations, between>>
  BY <1>1 DEF Observing, Observe, ObserveStandalone, Goto, Measured
<1>2. ASSUME Counting(r)
      PROVE  /\ at[r] = "observed"
             /\ at' \in {[at EXCEPT ![r] = l] : l \in {"recorded", "logged"}}
             /\ at' = [at EXCEPT ![r] = "recorded"] => r \notin standalone
             /\ at' = [at EXCEPT ![r] = "logged"] => r \in standalone
             /\ UNCHANGED <<config, writer, route, active, durations, logged, scrape>>
             /\ totals' = IF Measured(r) THEN Bump(totals, r) ELSE totals
  BY <1>2, <1>b DEF Counting, Count, CountStandalone, Goto, Measured
<1>3. ASSUME Ending(r)
      PROVE  /\ \/ at[r] = "recorded" /\ at' = [at EXCEPT ![r] = "logged"]
                \/ at[r] = "logged" /\ at' = [at EXCEPT ![r] = "left"]
                \/ at[r] = "panicked" /\ at' = [at EXCEPT ![r] = "aborted"]
             /\ UNCHANGED <<config, status, wroteHeader, detour, route, registry, scrape>>
  BY <1>3 DEF Ending, Log, Leave, Unwind, Goto, writer
<1> QED
  BY <1>1, <1>2, <1>3

(* The settings never change, nor what a request whose handler is done was *)
(* answered, nor its route once the middleware has read it.                *)
LEMMA LabelsKept ==
  ASSUME TypeOK, [Next]_vars
  PROVE  /\ UNCHANGED config
         /\ \A r \in Requests : at[r] \notin {"arriving", "handling"} =>
               /\ status'[r] = status[r] /\ pattern'[r] = pattern[r]
               /\ detour'[r] = detour[r]
         /\ \A r \in Requests : at[r] # "returned" => path'[r] = path[r]
<1>1. ASSUME NEW q \in Requests, Handling(q)
      PROVE  /\ UNCHANGED <<config, path>>
             /\ \A r \in Requests : at[r] \notin {"arriving", "handling"} =>
                   /\ status'[r] = status[r] /\ pattern'[r] = pattern[r]
                   /\ detour'[r] = detour[r]
  BY <1>1, HandlingChanges
<1>2. ASSUME NEW q \in Requests, Observing(q) \/ Counting(q) \/ Ending(q)
      PROVE  UNCHANGED <<config, status, pattern, path, detour>>
  BY <1>2, AfterChanges DEF writer, route
<1>3. CASE Scrape \/ UNCHANGED vars
  <2>1. UNCHANGED <<config, status, pattern, path, detour>>
    BY <1>3 DEF Scrape, Read, vars, writer, route
  <2> QED
    BY <2>1
<1>4. ASSUME NEW q \in Requests, ResolvePath(q)
      PROVE  /\ UNCHANGED <<config, status, pattern, detour>>
             /\ \A r \in Requests : at[r] # "returned" => path'[r] = path[r]
  <2>1. path \in [Requests -> Routes \union {""}]
    BY TypeParts DEF RequestTypes
  <2> QED
    BY <2>1, <1>4, ResolveChanges DEF writer
<1> QED
  BY <1>1, <1>2, <1>3, <1>4, Steps

LEMMA SettingsKept ==
  ASSUME UNCHANGED config
  PROVE  \A r : (Measured(r)' <=> Measured(r)) /\ (Logs(r)' <=> Logs(r))
BY DEF config, Measured, Logs

-----------------------------------------------------------------------------
InGauge == {r \in Requests : Measured(r) /\ at[r] \in Inside}

LEMMA GaugeStep == BundleInv /\ [Next]_vars => GaugeExact'
<1> SUFFICES ASSUME BundleInv, [Next]_vars
             PROVE  active' = Cardinality(InGauge)'
  BY DEF GaugeExact, InGauge
<1>a. TypeOK /\ active = Cardinality(InGauge)
  BY DEF BundleInv, GaugeExact, InGauge
<1>b. at \in [Requests -> States]
  BY <1>a, TypeParts DEF RequestTypes
<1>c. \A r : Measured(r)' <=> Measured(r)
  BY <1>a, LabelsKept, SettingsKept
<1>d. InGauge \in SUBSET Requests
  BY DEF InGauge
<1>e. ASSUME active' = active, NEW r \in Requests, NEW l \in Inside, at[r] \in Inside,
             at' = [at EXCEPT ![r] = l]
      PROVE  active' = Cardinality(InGauge)'
  <2>1. InGauge' = InGauge
    BY <1>b, <1>c, <1>e DEF InGauge
  <2> QED
    BY <2>1, <1>a, <1>e
<1>f. ASSUME active' = active, at' = at
      PROVE  active' = Cardinality(InGauge)'
  <2>1. InGauge' = InGauge
    BY <1>c, <1>f DEF InGauge
  <2> QED
    BY <2>1, <1>a, <1>f
<1>1. ASSUME NEW r \in Requests, Enter(r) \/ EnterStandalone(r)
      PROVE  active' = Cardinality(InGauge)'
  <2>1. /\ at[r] = "arriving" /\ at' = [at EXCEPT ![r] = "handling"]
        /\ active' = IF Measured(r) THEN active + 1 ELSE active
    BY <1>1 DEF Enter, EnterStandalone, Goto, Measured
  <2>2. r \notin InGauge
    BY <2>1 DEF InGauge, Inside
  <2>3. CASE Measured(r)
    <3>1. InGauge' = InGauge \union {r}
      BY <2>1, <2>3, <1>b, <1>c DEF InGauge, Inside
    <3> QED
      BY <2>1, <2>2, <2>3, <3>1, <1>a, <1>d, Sizes, FS_AddElement
  <2>4. CASE ~Measured(r)
    <3>1. InGauge' = InGauge
      BY <2>1, <2>4, <1>b, <1>c DEF InGauge, Inside
    <3> QED
      BY <2>1, <2>4, <3>1, <1>a
  <2> QED
    BY <2>3, <2>4
<1>2. ASSUME NEW r \in Requests, Leave(r) \/ Unwind(r)
      PROVE  active' = Cardinality(InGauge)'
  <2>1. /\ at[r] \in {"logged", "panicked"}
        /\ at' \in {[at EXCEPT ![r] = "left"], [at EXCEPT ![r] = "aborted"]}
        /\ active' = IF Measured(r) THEN active - 1 ELSE active
    BY <1>2 DEF Leave, Unwind, Goto, CountOut
  <2>2. CASE Measured(r)
    <3>1. r \in InGauge /\ InGauge' = InGauge \ {r}
      BY <2>1, <2>2, <1>b, <1>c DEF InGauge, Inside
    <3> QED
      BY <2>1, <2>2, <3>1, <1>a, <1>d, Sizes, FS_RemoveElement
  <2>3. CASE ~Measured(r)
    <3>1. InGauge' = InGauge
      BY <2>1, <2>3, <1>b, <1>c DEF InGauge
    <3> QED
      BY <2>1, <2>3, <3>1, <1>a
  <2> QED
    BY <2>2, <2>3
<1>3. ASSUME NEW r \in Requests, Route(r) \/ WriteHeader(r) \/ Write(r) \/ Flush(r)
      PROVE  active' = Cardinality(InGauge)'
  BY <1>3, <1>f DEF Route, WriteHeader, Write, Flush
<1>4. ASSUME NEW r \in Requests, Return(r) \/ Panic(r)
      PROVE  active' = Cardinality(InGauge)'
  BY <1>4, <1>e DEF Return, Panic, Goto, Inside
<1>5. ASSUME NEW r \in Requests, Observing(r) PROVE active' = Cardinality(InGauge)'
  BY <1>5, <1>a, <1>e, AfterChanges DEF Inside
<1>6. ASSUME NEW r \in Requests, Counting(r) PROVE active' = Cardinality(InGauge)'
  BY <1>6, <1>a, <1>e, AfterChanges DEF Inside
<1>7. ASSUME NEW r \in Requests, Log(r) PROVE active' = Cardinality(InGauge)'
  BY <1>7, <1>e DEF Log, Goto, Inside
<1>8. CASE Scrape \/ UNCHANGED vars
  BY <1>8, <1>f DEF Scrape, Read, vars
<1>9. ASSUME NEW r \in Requests, ResolvePath(r) PROVE active' = Cardinality(InGauge)'
  BY <1>9, <1>a, <1>e, ResolveChanges DEF Inside
<1> QED
  BY <1>1, <1>2, <1>3, <1>4, <1>5, <1>6, <1>7, <1>8, <1>9, Steps DEF Handling, Ending

(* How a step changes which requests the metrics hold. *)
Recording(r) == \/ Observing(r) /\ Measured(r)
                \/ Counting(r) /\ Measured(r)

LEMMA ObservedKept ==
  ASSUME TypeOK, [Next]_vars, \A r \in Requests : ~Recording(r)
  PROVE  Observed' = Observed /\ Counted' = Counted /\ UNCHANGED registry
<1>b. at \in [Requests -> States]
  BY TypeParts DEF RequestTypes
<1>c. \A r : Measured(r)' <=> Measured(r)
  BY LabelsKept, SettingsKept
<1>d. ASSUME NEW r \in Requests, \A q \in Requests \ {r} : at'[q] = at[q],
             \/ ~Measured(r)
             \/ /\ at[r] \notin {"observed", "recorded", "logged", "left"}
                /\ at'[r] \notin {"observed", "recorded", "logged", "left"}
             \/ at[r] \in {"recorded", "logged"} /\ at'[r] \in {"logged", "left"}
      PROVE  Observed' = Observed /\ Counted' = Counted
  <2>1. Observed' = Observed
    BY <1>c, <1>d DEF Observed
  <2>2. Standing' = Standing
    BY <1>c, <1>d DEF Standing
  <2> QED
    BY <2>1, <2>2 DEF Counted
<1>1. ASSUME NEW r \in Requests, Handling(r)
      PROVE  Observed' = Observed /\ Counted' = Counted /\ UNCHANGED registry
  BY <1>1, <1>d, HandlingChanges
<1>2. ASSUME NEW r \in Requests, Observing(r)
      PROVE  Observed' = Observed /\ Counted' = Counted /\ UNCHANGED registry
  <2>1. ~Measured(r)
    BY <1>2 DEF Recording
  <2> QED
    BY <2>1, <1>2, <1>b, <1>d, AfterChanges DEF registry
<1>3. ASSUME NEW r \in Requests, Counting(r)
      PROVE  Observed' = Observed /\ Counted' = Counted /\ UNCHANGED registry
  <2>1. ~Measured(r)
    BY <1>3 DEF Recording
  <2>2. \A q \in Requests \ {r} : at'[q] = at[q]
    BY <1>3, <1>b, AfterChanges
  <2> QED
    BY <2>1, <2>2, <1>3, <1>d, AfterChanges DEF registry
<1>4. ASSUME NEW r \in Requests, Ending(r)
      PROVE  Observed' = Observed /\ Counted' = Counted /\ UNCHANGED registry
  <2>1. \A q \in Requests \ {r} : at'[q] = at[q]
    BY <1>4, <1>b, AfterChanges
  <2>2. \/ at[r] = "panicked" /\ at'[r] = "aborted"
        \/ at[r] \in {"recorded", "logged"} /\ at'[r] \in {"logged", "left"}
    BY <1>4, <1>b, AfterChanges
  <2> QED
    BY <2>1, <2>2, <1>4, <1>d, AfterChanges
<1>5. CASE Scrape \/ UNCHANGED vars
  <2>1. UNCHANGED <<at, registry>>
    BY <1>5 DEF Scrape, Read, vars
  <2> QED
    BY <2>1, <1>c DEF Observed, Standing, Counted
<1>6. ASSUME NEW r \in Requests, ResolvePath(r)
      PROVE  Observed' = Observed /\ Counted' = Counted /\ UNCHANGED registry
  BY <1>6, <1>b, <1>d, ResolveChanges
<1> QED
  BY <1>1, <1>2, <1>3, <1>4, <1>5, <1>6, Steps

LEMMA ObservedGrows ==
  ASSUME TypeOK, NEW r \in Requests, Observing(r), Measured(r)
  PROVE  /\ r \notin Observed /\ Observed' = Observed \union {r} /\ Counted' = Counted
         /\ durations' = Bump(durations, r) /\ totals' = totals
<1>b. at \in [Requests -> States]
  BY TypeParts DEF RequestTypes
<1>1. /\ at[r] = "resolved" /\ at' = [at EXCEPT ![r] = "observed"] /\ UNCHANGED config
      /\ durations' = Bump(durations, r) /\ totals' = totals
  BY AfterChanges
<1>c. \A q : Measured(q)' <=> Measured(q)
  BY <1>1, SettingsKept
<1>2. r \notin Observed /\ Observed' = Observed \union {r}
  BY <1>1, <1>b, <1>c DEF Observed
<1>3. r \notin Standing /\ Standing' = Standing \union {r}
  BY <1>1, <1>b, <1>c DEF Standing
<1> QED
  BY <1>1, <1>2, <1>3 DEF Counted

LEMMA CountedGrows ==
  ASSUME TypeOK, NEW r \in Requests, Counting(r), Measured(r)
  PROVE  /\ r \notin Counted /\ Counted' = Counted \union {r} /\ Observed' = Observed
         /\ totals' = Bump(totals, r) /\ durations' = durations
<1>b. at \in [Requests -> States]
  BY TypeParts DEF RequestTypes
<1>1. /\ at[r] = "observed" /\ at' \in {[at EXCEPT ![r] = l] : l \in {"recorded", "logged"}}
      /\ UNCHANGED config /\ totals' = Bump(totals, r) /\ durations' = durations
  BY AfterChanges
<1>c. \A q : Measured(q)' <=> Measured(q)
  BY <1>1, SettingsKept
<1>2. PICK l \in {"recorded", "logged"} : at' = [at EXCEPT ![r] = l]
  BY <1>1
<1>3. r \in Observed /\ Observed' = Observed
  BY <1>1, <1>2, <1>b, <1>c DEF Observed
<1>4. r \in Standing /\ Standing' = Standing \ {r}
  BY <1>1, <1>2, <1>b, <1>c DEF Standing
<1> QED
  BY <1>1, <1>3, <1>4 DEF Counted

LEMMA LabelStays ==
  ASSUME TypeOK, [Next]_vars
  PROVE  /\ \A r \in Requests : at[r] \notin Unresolved => Label(r)' = Label(r)
         /\ \A r \in Observed : Label(r)' = Label(r)
<1>1. \A r \in Requests : at[r] \notin Unresolved => Label(r)' = Label(r)
  BY LabelsKept DEF Label, Unresolved
<1> QED
  BY <1>1 DEF Observed, Unresolved

LEMMA LabelledStays ==
  ASSUME TypeOK, [Next]_vars, NEW S \in SUBSET Observed, NEW l
  PROVE  Labelled(S, l)' = Labelled(S, l)
BY LabelStays DEF Labelled

(* A metric that counts the requests of a set counts those of the next. *)
Counts(metric, S) == \A l \in Labels : metric[l] = Cardinality(Labelled(S, l))

LEMMA BumpCounts ==
  ASSUME TypeOK, NEW m \in [Labels -> Nat], NEW S \in SUBSET Requests,
         NEW r \in Requests, at[r] \notin Unresolved, r \notin S, Counts(m, S)
  PROVE  Counts(Bump(m, r), S \union {r})
<1> SUFFICES ASSUME NEW l \in Labels
             PROVE  Bump(m, r)[l] = Cardinality(Labelled(S \union {r}, l))
  BY DEF Counts
<1>1. Bump(m, r)[l] = m[l] + IF Label(r) = l THEN 1 ELSE 0
  BY BumpType DEF Bump
<1> QED
  BY <1>1, OneMore DEF Counts

LEMMA CountedOnceCounts ==
  /\ CountedOnce => Counts(durations, Observed) /\ Counts(totals, Counted)
  /\ (Counts(durations, Observed) /\ Counts(totals, Counted))' => CountedOnce'
BY DEF CountedOnce, Counts, Labelled

LEMMA CountedStep == BundleInv /\ [Next]_vars => CountedOnce'
<1> SUFFICES ASSUME BundleInv, [Next]_vars PROVE CountedOnce'
  OBVIOUS
<1>a. TypeOK /\ Counts(durations, Observed) /\ Counts(totals, Counted)
  BY CountedOnceCounts DEF BundleInv
<1>b. Observed \in SUBSET Requests /\ Counted \in SUBSET Requests /\ Counted \subseteq Observed
  BY DEF Observed, Counted
<1>c. durations \in [Labels -> Nat] /\ totals \in [Labels -> Nat]
  BY <1>a, TypeParts DEF MetricTypes
<1>d. ASSUME NEW m, NEW S \in SUBSET Requests,
             \A r \in S : at[r] \notin Unresolved, Counts(m, S)
      PROVE  \A l \in Labels : m[l] = Cardinality({r \in S : Label(r)' = l})
  <2>1. \A l : {r \in S : Label(r)' = l} = Labelled(S, l)
    BY <1>a, <1>d, LabelStays DEF Labelled
  <2> QED
    BY <2>1, <1>d DEF Counts
<1>e. \A r \in Observed : at[r] \notin Unresolved
  BY DEF Observed, Unresolved
<1>1. CASE \A r \in Requests : ~Recording(r)
  <2>1. Observed' = Observed /\ Counted' = Counted /\ UNCHANGED registry
    BY <1>1, <1>a, ObservedKept
  <2>2. \A l \in Labels : /\ durations[l] = Cardinality({r \in Observed : Label(r)' = l})
                          /\ totals[l] = Cardinality({r \in Counted : Label(r)' = l})
    BY <1>a, <1>b, <1>d, <1>e
  <2> QED
    BY <2>1, <2>2 DEF CountedOnce, registry
<1>2. ASSUME NEW r \in Requests, Observing(r), Measured(r) PROVE CountedOnce'
  <2>1. /\ r \notin Observed /\ Observed' = Observed \union {r} /\ Counted' = Counted
        /\ durations' = Bump(durations, r) /\ totals' = totals
    BY <1>2, <1>a, ObservedGrows
  <2>2. at[r] \notin Unresolved
    BY <1>2, <1>a, AfterChanges DEF Unresolved
  <2>3. Counts(Bump(durations, r), Observed \union {r})
    BY <2>1, <2>2, <1>a, <1>b, <1>c, BumpCounts
  <2>4. \A l \in Labels : /\ Bump(durations, r)[l] = Cardinality({q \in Observed \union {r} : Label(q)' = l})
                          /\ totals[l] = Cardinality({q \in Counted : Label(q)' = l})
    BY <2>2, <2>3, <1>a, <1>b, <1>d, <1>e
  <2> QED
    BY <2>1, <2>4 DEF CountedOnce
<1>3. ASSUME NEW r \in Requests, Counting(r), Measured(r) PROVE CountedOnce'
  <2>1. /\ r \notin Counted /\ Counted' = Counted \union {r} /\ Observed' = Observed
        /\ totals' = Bump(totals, r) /\ durations' = durations
    BY <1>3, <1>a, CountedGrows
  <2>2. at[r] \notin Unresolved
    BY <1>3, <1>a, AfterChanges DEF Unresolved
  <2>3. Counts(Bump(totals, r), Counted \union {r})
    BY <2>1, <2>2, <1>a, <1>b, <1>c, BumpCounts
  <2>4. \A l \in Labels : /\ durations[l] = Cardinality({q \in Observed : Label(q)' = l})
                          /\ Bump(totals, r)[l] = Cardinality({q \in Counted \union {r} : Label(q)' = l})
    BY <2>2, <2>3, <1>a, <1>b, <1>d, <1>e
  <2> QED
    BY <2>1, <2>4 DEF CountedOnce
<1> QED
  BY <1>1, <1>2, <1>3 DEF Recording

LEMMA RoutesStep == BundleInv /\ [Next]_vars => RoutesApart'
<1> SUFFICES ASSUME BundleInv, [Next]_vars PROVE RoutesApart'
  OBVIOUS
<1>a. TypeOK /\ RoutesApart
  BY DEF BundleInv
<1>b. at \in [Requests -> States] /\ UNCHANGED config
  BY <1>a, TypeParts, LabelsKept DEF RequestTypes
<1>1. ASSUME NEW r \in Requests, Handling(r) PROVE RoutesApart'
  BY <1>1, <1>a, <1>b, HandlingChanges DEF RoutesApart, config
<1>2. ASSUME NEW r \in Requests, Observing(r) PROVE RoutesApart'
  BY <1>2, <1>a, <1>b, AfterChanges DEF RoutesApart, config
<1>3. ASSUME NEW r \in Requests, Counting(r) PROVE RoutesApart'
  BY <1>3, <1>a, <1>b, AfterChanges DEF RoutesApart, config
<1>4. ASSUME NEW r \in Requests, Ending(r) PROVE RoutesApart'
  BY <1>4, <1>a, <1>b, AfterChanges DEF RoutesApart, config
<1>5. CASE Scrape \/ UNCHANGED vars
  BY <1>5, <1>a, <1>b DEF Scrape, Read, vars, RoutesApart, config
<1>6. ASSUME NEW r \in Requests, ResolvePath(r) PROVE RoutesApart'
  BY <1>6, <1>a, <1>b, ResolveChanges DEF RoutesApart, config
<1> QED
  BY <1>1, <1>2, <1>3, <1>4, <1>5, <1>6, Steps

LEMMA WriterStep == BundleInv /\ [Next]_vars => WriterAgrees'
<1> SUFFICES ASSUME BundleInv, [Next]_vars PROVE WriterAgrees'
  OBVIOUS
<1> DEFINE Agrees(d, w, wrote, s, left) ==
              ~d => IF w = 0 THEN ~wrote /\ s = 200 /\ ~left ELSE s = w /\ (wrote \/ left)
<1>a. /\ TypeOK
      /\ \A r \in Requests : Agrees(detour[r], wire[r], wroteHeader[r], status[r], at[r] = "left")
  BY DEF BundleInv, WriterAgrees
<1>b. /\ at \in [Requests -> States] /\ status \in [Requests -> AllCodes]
      /\ wroteHeader \in [Requests -> BOOLEAN] /\ detour \in [Requests -> BOOLEAN]
      /\ wire \in [Requests -> AllCodes \union {0}]
  BY <1>a, TypeParts DEF RequestTypes, WriterTypes
<1>c. \A code \in AllCodes : code # 0
  BY CodesAssumption DEF AllCodes
<1>d. ASSUME NEW r \in Requests,
             \A q \in Requests \ {r} :
                /\ at'[q] = at[q] /\ status'[q] = status[q] /\ wire'[q] = wire[q]
                /\ wroteHeader'[q] = wroteHeader[q] /\ detour'[q] = detour[q],
             Agrees(detour'[r], wire'[r], wroteHeader'[r], status'[r], at'[r] = "left")
      PROVE  WriterAgrees'
  BY <1>a, <1>d DEF WriterAgrees
<1>e. ASSUME NEW r \in Requests, at'[r] # "left" /\ at[r] # "left",
             UNCHANGED <<status, wroteHeader, wire, detour>>,
             \A q \in Requests \ {r} : at'[q] = at[q]
      PROVE  WriterAgrees'
  <2>1. Agrees(detour'[r], wire'[r], wroteHeader'[r], status'[r], at'[r] = "left")
    BY <1>a, <1>e
  <2> QED
    BY <2>1, <1>d, <1>e
<1> HIDE DEF Agrees
<1>1. ASSUME NEW r \in Requests, WriteHeader(r) PROVE WriterAgrees'
  <2>1. PICK code \in Codes :
           /\ status' = [status EXCEPT ![r] = IF wroteHeader[r] THEN @ ELSE code]
           /\ wroteHeader' = [wroteHeader EXCEPT ![r] = TRUE]
           /\ wire' = [wire EXCEPT ![r] = Sent(r, code)]
           /\ detour' = [detour EXCEPT ![r] = @ \/ (wire[r] = 0 /\ Informational(code))]
    BY <1>1 DEF WriteHeader, Capture, Send
  <2>2. at[r] = "handling" /\ at' = at /\ code # 0
    BY <1>1, <1>c DEF WriteHeader, Op, AllCodes
  <2>3. /\ status'[r] = IF wroteHeader[r] THEN status[r] ELSE code
        /\ wroteHeader'[r]
        /\ wire'[r] = IF wire[r] = 0 /\ ~Informational(code) THEN code ELSE wire[r]
        /\ detour'[r] <=> detour[r] \/ (wire[r] = 0 /\ Informational(code))
    BY <2>1, <1>b DEF Sent
  <2>4. Agrees(detour[r], wire[r], wroteHeader[r], status[r], at[r] = "left")
    BY <1>a
  <2>5. Agrees(detour'[r], wire'[r], wroteHeader'[r], status'[r], at'[r] = "left")
    BY <2>2, <2>3, <2>4 DEF Agrees
  <2> QED
    BY <2>5, <1>1, <1>a, <1>d, HandlingChanges DEF Handling
<1>2. ASSUME NEW r \in Requests, Write(r) PROVE WriterAgrees'
  <2>1. /\ status' = [status EXCEPT ![r] = IF wroteHeader[r] THEN @ ELSE 200]
        /\ wroteHeader' = [wroteHeader EXCEPT ![r] = TRUE]
        /\ wire' = [wire EXCEPT ![r] = Sent(r, 200)]
        /\ detour' = detour
    BY <1>2 DEF Write, Capture, Send
  <2>2. at[r] = "handling" /\ at' = at
    BY <1>2 DEF Write, Op
  <2>3. /\ status'[r] = IF wroteHeader[r] THEN status[r] ELSE 200
        /\ wroteHeader'[r]
        /\ wire'[r] = IF wire[r] = 0 THEN 200 ELSE wire[r]
        /\ detour'[r] <=> detour[r]
    BY <2>1, <1>b DEF Sent, Informational
  <2>4. Agrees(detour[r], wire[r], wroteHeader[r], status[r], at[r] = "left")
    BY <1>a
  <2>5. Agrees(detour'[r], wire'[r], wroteHeader'[r], status'[r], at'[r] = "left")
    BY <2>2, <2>3, <2>4 DEF Agrees
  <2> QED
    BY <2>5, <1>2, <1>a, <1>d, HandlingChanges DEF Handling
<1>3. ASSUME NEW r \in Requests, Flush(r) PROVE WriterAgrees'
  <2>1. /\ UNCHANGED <<at, status, wroteHeader>>
        /\ wire' = [wire EXCEPT ![r] = Sent(r, 200)]
        /\ detour' = [detour EXCEPT ![r] = @ \/ wire[r] = 0]
    BY <1>3 DEF Flush, Send
  <2>2. /\ wire'[r] = IF wire[r] = 0 THEN 200 ELSE wire[r]
        /\ detour'[r] <=> detour[r] \/ wire[r] = 0
    <3>1. wire'[r] = IF wire[r] = 0 THEN 200 ELSE wire[r]
      BY <2>1, <1>b DEF Sent, Informational
    <3>2. detour'[r] <=> detour[r] \/ wire[r] = 0
      BY <2>1, <1>b, Zenon
    <3> QED
      BY <3>1, <3>2
  <2>3. Agrees(detour[r], wire[r], wroteHeader[r], status[r], at[r] = "left")
    BY <1>a
  <2>4. Agrees(detour'[r], wire'[r], wroteHeader'[r], status'[r], at'[r] = "left")
    BY <2>1, <2>2, <2>3 DEF Agrees
  <2> QED
    BY <2>4, <1>3, <1>a, <1>d, HandlingChanges DEF Handling
<1>4. ASSUME NEW r \in Requests, Leave(r) PROVE WriterAgrees'
  <2>1. /\ UNCHANGED <<status, wroteHeader, detour>>
        /\ wire' = [wire EXCEPT ![r] = Sent(r, 200)]
        /\ at' = [at EXCEPT ![r] = "left"]
    BY <1>4 DEF Leave, Send, Goto
  <2>2. wire'[r] = (IF wire[r] = 0 THEN 200 ELSE wire[r]) /\ at'[r] = "left"
    BY <2>1, <1>b DEF Sent, Informational
  <2>3. Agrees(detour[r], wire[r], wroteHeader[r], status[r], at[r] = "left")
    BY <1>a
  <2>4. Agrees(detour'[r], wire'[r], wroteHeader'[r], status'[r], at'[r] = "left")
    BY <2>1, <2>2, <2>3 DEF Agrees
  <2> QED
    BY <2>1, <2>4, <1>b, <1>d
<1>5. ASSUME NEW r \in Requests, Enter(r) \/ EnterStandalone(r) \/ Route(r) \/ Return(r) \/ Panic(r)
      PROVE  WriterAgrees'
  <2>1. at[r] # "left" /\ UNCHANGED <<status, wroteHeader, wire, detour>>
    BY <1>5 DEF Enter, EnterStandalone, Route, Return, Panic, writer
  <2>2. at'[r] # "left" /\ \A q \in Requests \ {r} : at'[q] = at[q]
    BY <1>5, <1>a, HandlingChanges DEF Handling
  <2> QED
    BY <2>1, <2>2, <1>e
<1>6. ASSUME NEW r \in Requests, Observing(r) \/ Counting(r) \/ Log(r) \/ Unwind(r)
      PROVE  WriterAgrees'
  <2>1. at[r] # "left" /\ UNCHANGED <<status, wroteHeader, wire, detour>>
    BY <1>6, <1>a, AfterChanges DEF Log, Unwind, writer
  <2>2. \A q \in Requests \ {r} : at'[q] = at[q]
    BY <1>6, <1>a, <1>b, AfterChanges DEF Ending
  <2>3. at'[r] # "left"
    BY <1>6, <1>a, <1>b, AfterChanges DEF Log, Unwind, Goto
  <2> QED
    BY <2>1, <2>2, <2>3, <1>e
<1>7. CASE Scrape \/ UNCHANGED vars
  <2>1. UNCHANGED <<at, status, wroteHeader, wire, detour>>
    BY <1>7 DEF Scrape, Read, vars, writer
  <2> QED
    BY <2>1 DEF WriterAgrees, BundleInv
<1>8. ASSUME NEW r \in Requests, ResolvePath(r) PROVE WriterAgrees'
  <2>1. at[r] # "left" /\ UNCHANGED <<status, wroteHeader, wire, detour>>
    BY <1>8, <1>a, ResolveChanges DEF writer
  <2>2. at'[r] # "left" /\ \A q \in Requests \ {r} : at'[q] = at[q]
    BY <1>8, <1>a, <1>b, ResolveChanges
  <2> QED
    BY <2>1, <2>2, <1>e
<1> QED
  BY <1>1, <1>2, <1>3, <1>4, <1>5, <1>6, <1>7, <1>8, Steps DEF Handling, Ending

LEMMA LinesStep == BundleInv /\ [Next]_vars => LinesAgree'
<1> SUFFICES ASSUME BundleInv, [Next]_vars PROVE LinesAgree'
  OBVIOUS
<1> DEFINE Line(r) == [level |-> Level(status[r]), path |-> path[r], status |-> status[r]]
<1>a. TypeOK /\ LinesAgree /\ RoutesApart
  BY DEF BundleInv
<1>b. at \in [Requests -> States] /\ logged \in [Requests -> Lines \union {NoLine}]
  BY <1>a, TypeParts DEF RequestTypes
<1>c. \A r : Logs(r)' <=> Logs(r)
  BY <1>a, LabelsKept, SettingsKept
<1>d. \A r \in Requests : at[r] \in {"recorded", "logged", "left"} => Line(r)' = Line(r)
  BY <1>a, LabelsKept
<1>e. \A r \in Requests :
         logged[r] = IF Logs(r) /\ at[r] \in {"logged", "left"} THEN Line(r) ELSE NoLine
  BY <1>a DEF LinesAgree
<1>f. ASSUME NEW r \in Requests, logged' = logged, \A q \in Requests \ {r} : at'[q] = at[q],
             \/ ~Logs(r)
             \/ (at'[r] \in {"logged", "left"}) <=> (at[r] \in {"logged", "left"})
      PROVE  LinesAgree'
  <2> SUFFICES ASSUME NEW q \in Requests
               PROVE  (logged[q] = IF Logs(q) /\ at[q] \in {"logged", "left"} THEN Line(q)
                                                                            ELSE NoLine)'
    BY DEF LinesAgree
  <2>1. Logs(q) => ((at'[q] \in {"logged", "left"}) <=> (at[q] \in {"logged", "left"}))
    BY <1>f
  <2>2. at[q] \in {"logged", "left"} => Line(q)' = Line(q)
    BY <1>d
  <2> HIDE DEF Line
  <2> QED
    BY <2>1, <2>2, <1>c, <1>e, <1>f
<1>1. ASSUME NEW r \in Requests, Handling(r) PROVE LinesAgree'
  BY <1>1, <1>a, <1>f, HandlingChanges
<1>2. ASSUME NEW r \in Requests, Observing(r) PROVE LinesAgree'
  BY <1>2, <1>a, <1>b, <1>f, AfterChanges
<1>3. ASSUME NEW r \in Requests, Counting(r) PROVE LinesAgree'
  <2>1. \A q \in Requests \ {r} : at'[q] = at[q]
    BY <1>3, <1>a, <1>b, AfterChanges
  <2>2. at[r] = "observed" /\ (at'[r] = "recorded" \/ r \in standalone) /\ logged' = logged
    BY <1>3, <1>a, <1>b, AfterChanges
  <2> QED
    BY <2>1, <2>2, <1>f DEF Logs
<1>4. ASSUME NEW r \in Requests, Log(r) PROVE LinesAgree'
  <2>1. /\ at[r] = "recorded" /\ at' = [at EXCEPT ![r] = "logged"]
        /\ logged' = IF loggingEnabled THEN [logged EXCEPT ![r] = Line(r)] ELSE logged
    BY <1>4 DEF Log, Goto
  <2>2. Logs(r) <=> loggingEnabled
    BY <2>1, <1>a DEF RoutesApart, Logs
  <2> SUFFICES ASSUME NEW q \in Requests
               PROVE  (logged[q] = IF Logs(q) /\ at[q] \in {"logged", "left"} THEN Line(q)
                                                                            ELSE NoLine)'
    BY DEF LinesAgree
  <2>3. at[q] \in {"recorded", "logged", "left"} => Line(q)' = Line(q)
    BY <1>d
  <2> HIDE DEF Line
  <2>4. CASE q = r
    BY <2>1, <2>2, <2>3, <2>4, <1>b, <1>c, <1>e
  <2>5. CASE q # r
    BY <2>1, <2>3, <2>5, <1>b, <1>c, <1>e
  <2> QED
    BY <2>4, <2>5
<1>5. ASSUME NEW r \in Requests, Leave(r) \/ Unwind(r) PROVE LinesAgree'
  <2>1. /\ logged' = logged
        /\ \/ at[r] = "logged" /\ at' = [at EXCEPT ![r] = "left"]
           \/ at[r] = "panicked" /\ at' = [at EXCEPT ![r] = "aborted"]
    BY <1>5 DEF Leave, Unwind, Goto
  <2> QED
    BY <2>1, <1>b, <1>f
<1>6. CASE Scrape \/ UNCHANGED vars
  <2>1. UNCHANGED <<at, logged, config, status, path>>
    BY <1>6 DEF Scrape, Read, vars, writer, route
  <2> QED
    BY <2>1, <1>a, <1>c DEF LinesAgree
<1>7. ASSUME NEW r \in Requests, ResolvePath(r) PROVE LinesAgree'
  BY <1>7, <1>a, <1>b, <1>f, ResolveChanges
<1> QED
  BY <1>1, <1>2, <1>3, <1>4, <1>5, <1>6, <1>7, Steps DEF Ending

(* Reading the route gives the one that was matched, and no request is     *)
(* matched again after its handler.                                        *)
LEMMA PathsStep == BundleInv /\ [Next]_vars => PathsMatch'
<1> SUFFICES ASSUME BundleInv, [Next]_vars PROVE PathsMatch'
  OBVIOUS
<1>a. TypeOK /\ PathsMatch
  BY DEF BundleInv
<1>b. at \in [Requests -> States] /\ path \in [Requests -> Routes \union {""}]
  BY <1>a, TypeParts DEF RequestTypes
<1>1. ASSUME NEW r \in Requests, Handling(r) PROVE PathsMatch'
  <2>1. path' = path /\ at[r] \in {"arriving", "handling"}
    BY <1>1, <1>a, HandlingChanges
  <2>2. path[r] = ""
    BY <2>1, <1>a DEF PathsMatch
  <2>3. \A q \in Requests \ {r} : at'[q] = at[q] /\ pattern'[q] = pattern[q]
    BY <1>1, <1>a, HandlingChanges
  <2> QED
    BY <2>1, <2>2, <2>3, <1>a DEF PathsMatch, Matched
<1>2. ASSUME UNCHANGED <<pattern, path>>,
             \A q \in Requests : \/ at'[q] = at[q]
                                \/ at'[q] \notin {"arriving", "handling"}
      PROVE  PathsMatch'
  BY <1>2, <1>a DEF PathsMatch, Matched
<1>3. ASSUME NEW r \in Requests, Observing(r) \/ Counting(r) \/ Ending(r)
      PROVE  PathsMatch'
  BY <1>2, <1>3, <1>a, <1>b, AfterChanges DEF route
<1>4. ASSUME NEW r \in Requests, ResolvePath(r) PROVE PathsMatch'
  BY <1>4, <1>a, <1>b, ResolveChanges DEF PathsMatch, Matched
<1>5. CASE Scrape \/ UNCHANGED vars
  <2>1. UNCHANGED <<at, pattern, path>>
    BY <1>5 DEF Scrape, Read, vars, route
  <2> QED
    BY <2>1, <1>2
<1> QED
  BY <1>1, <1>3, <1>4, <1>5, Steps

-----------------------------------------------------------------------------
(* What has been read of one metric is a page of the other's once read. *)
LEMMA ShowsKept ==
  ASSUME TypeOK, [Next]_vars, NEW m, Shows(m), Halfway, between \subseteq Observed
  PROVE  Shows(m)' /\ between' \subseteq Observed'
<1>a. PICK S \in SUBSET Observed :
         /\ \A l \in Labels : m[l] = Cardinality(Labelled(S, l))
         /\ Observed \ S \subseteq between
         /\ S \ Counted \subseteq between
  BY DEF Shows
<1>b. \A l \in Labels : m[l] = Cardinality(Labelled(S, l)')
  BY <1>a, LabelledStays
<1>c. ASSUME S \subseteq Observed', Observed' \ S \subseteq between', S \ Counted' \subseteq between'
      PROVE  Shows(m)'
  BY <1>b, <1>c DEF Shows
<1>1. CASE \A r \in Requests : ~Recording(r)
  <2>1. Observed' = Observed /\ Counted' = Counted
    BY <1>1, ObservedKept
  <2>2. between \subseteq between' /\ between' \subseteq Observed'
    <3>1. ASSUME NEW r \in Requests, Observing(r) PROVE between' = between
      <4>1. ~Measured(r)
        BY <1>1, <3>1 DEF Recording
      <4> QED
        BY <3>1, <4>1, AfterChanges
    <3>2. ASSUME Scrape PROVE between' = between
      BY <3>2 DEF Scrape, Read
    <3>3. ASSUME NEW r \in Requests, Handling(r) \/ ResolvePath(r) \/ Counting(r) \/ Ending(r)
          PROVE  between' = between
      BY <3>3, HandlingChanges, ResolveChanges, AfterChanges DEF scrape
    <3>4. ASSUME UNCHANGED vars PROVE between' = between
      BY <3>4 DEF vars, scrape
    <3>5. between' = between
      BY <3>1, <3>2, <3>3, <3>4, Steps
    <3> QED
      BY <2>1, <3>5
  <2> QED
    BY <2>1, <2>2, <1>a, <1>c
<1>2. ASSUME NEW r \in Requests, Observing(r), Measured(r)
      PROVE  Shows(m)' /\ between' \subseteq Observed'
  <2>1. Observed' = Observed \union {r} /\ Counted' = Counted
    BY <1>2, ObservedGrows
  <2>2. between' = between \union {r}
    BY <1>2, AfterChanges DEF Stand
  <2> QED
    BY <2>1, <2>2, <1>a, <1>c
<1>3. ASSUME NEW r \in Requests, Counting(r), Measured(r)
      PROVE  Shows(m)' /\ between' \subseteq Observed'
  <2>1. Observed' = Observed /\ Counted' = Counted \union {r}
    BY <1>3, CountedGrows
  <2>2. between' = between
    BY <1>3, AfterChanges DEF scrape
  <2> QED
    BY <2>1, <2>2, <1>a, <1>c
<1> QED
  BY <1>1, <1>2, <1>3 DEF Recording

(* A scrape changes nothing but its page and what it catches. *)
LEMMA ScrapeChanges ==
  ASSUME TypeOK, Scrape
  PROVE  /\ UNCHANGED <<config, status, path, registry>>
         /\ Observed' = Observed /\ Counted' = Counted
         /\ between' = IF Halfway THEN between ELSE Standing
         /\ \/ /\ page.durations = Unread
               /\ page'.durations = durations /\ page'.totals = page.totals
            \/ /\ page.totals = Unread
               /\ page'.totals = totals /\ page'.durations = page.durations
<1>1. UNCHANGED <<config, at, status, path, registry>>
  BY DEF Scrape, Read, writer, route
<1>2. Observed' = Observed /\ Counted' = Counted
  <2>1. \A r : Measured(r)' <=> Measured(r)
    BY <1>1, SettingsKept
  <2> QED
    BY <1>1, <2>1 DEF Observed, Standing, Counted
<1>3. between' = IF Halfway THEN between ELSE Standing
  BY DEF Scrape, Read
<1>4. \/ /\ page.durations = Unread
         /\ page'.durations = durations /\ page'.totals = page.totals
      \/ /\ page.totals = Unread
         /\ page'.totals = totals /\ page'.durations = page.durations
  <2>1. page \in [durations : Reading, totals : Reading]
    BY TypeParts DEF ScrapeTypes
  <2> QED
    BY <2>1 DEF Scrape, Read
<1> QED
  BY <1>1, <1>2, <1>3, <1>4

(* Either metric shows itself, all in flight between the two being caught. *)
LEMMA MetricShows ==
  ASSUME TypeOK, CountedOnce, NEW m \in {durations, totals},
         UNCHANGED <<status, path>>, Observed' = Observed, Counted' = Counted,
         between' = Standing
  PROVE  Shows(m)'
<1>1. \A S, l : Labelled(S, l)' = Labelled(S, l)
  BY DEF Labelled, Label
<1>2. Counts(durations, Observed) /\ Counts(totals, Counted)
  BY CountedOnceCounts
<1>3. Counted \subseteq Observed /\ Observed \ Counted \subseteq Standing
  BY DEF Counted
<1>4. PICK S \in {Observed, Counted} : \A l \in Labels : m[l] = Cardinality(Labelled(S, l)')
  BY <1>1, <1>2 DEF Counts
<1>5. S \in SUBSET Observed' /\ Observed' \ S \subseteq between' /\ S \ Counted' \subseteq between'
  BY <1>3, <1>4
<1> QED
  BY <1>4, <1>5 DEF Shows

(* A step that is no scrape reads nothing, and only adds to the metrics.   *)
LEMMA UnscrapedChanges ==
  ASSUME TypeOK, [Next]_vars, ~Scrape
  PROVE  /\ page' = page /\ Observed \subseteq Observed'
         /\ Halfway \/ between' = between
<1>1. page' = page
  <2>1. ASSUME NEW r \in Requests,
               Handling(r) \/ ResolvePath(r) \/ Observing(r) \/ Counting(r) \/ Ending(r)
        PROVE  page' = page
    BY <2>1, HandlingChanges, ResolveChanges, AfterChanges DEF scrape
  <2>2. ASSUME UNCHANGED vars PROVE page' = page
    BY <2>2 DEF vars, scrape
  <2> QED
    BY <2>1, <2>2, Steps
<1>2. Observed \subseteq Observed'
  <2>1. ASSUME NEW r \in Requests, Recording(r) PROVE Observed \subseteq Observed'
    BY <2>1, ObservedGrows, CountedGrows DEF Recording
  <2>2. CASE \A r \in Requests : ~Recording(r)
    BY <2>2, ObservedKept
  <2> QED
    BY <2>1, <2>2
<1>3. ASSUME ~Halfway PROVE between' = between
  <2>1. ASSUME NEW r \in Requests, Observing(r) PROVE between' = between
    BY <1>3, <2>1, AfterChanges DEF Stand
  <2>2. ASSUME NEW r \in Requests, Handling(r) \/ ResolvePath(r) \/ Counting(r) \/ Ending(r)
        PROVE  between' = between
    BY <2>2, HandlingChanges, ResolveChanges, AfterChanges DEF scrape
  <2>3. ASSUME UNCHANGED vars PROVE between' = between
    BY <2>3 DEF vars, scrape
  <2> QED
    BY <2>1, <2>2, <2>3, Steps
<1> QED
  BY <1>1, <1>2, <1>3

LEMMA ScrapeHalfStep == BundleInv /\ [Next]_vars => ScrapeHalf'
<1> SUFFICES ASSUME BundleInv, [Next]_vars PROVE ScrapeHalf'
  OBVIOUS
<1>a. TypeOK /\ ScrapeHalf /\ CountedOnce
  BY DEF BundleInv
<1>b. /\ durations \in [Labels -> Nat] /\ totals \in [Labels -> Nat]
      /\ durations # Unread /\ totals # Unread
  BY <1>a, TypeParts, ReadIsRead DEF MetricTypes
<1>1. CASE Scrape
  <2>1. /\ UNCHANGED <<status, path>> /\ Observed' = Observed /\ Counted' = Counted
        /\ between' = IF Halfway THEN between ELSE Standing
        /\ \/ page.durations = Unread /\ page'.durations = durations /\ page'.totals = page.totals
           \/ page.totals = Unread /\ page'.totals = totals /\ page'.durations = page.durations
    BY <1>1, <1>a, ScrapeChanges
  <2>2. between' \subseteq Observed'
    BY <2>1, <1>a DEF ScrapeHalf, Standing, Observed
  <2>3. CASE Halfway
    <3>1. page'.durations # Unread /\ page'.totals # Unread
      BY <2>1, <2>3, <1>b DEF Halfway
    <3> QED
      BY <2>2, <3>1 DEF ScrapeHalf
  <2>4. CASE ~Halfway
    <3>1. between' = Standing
      BY <2>1, <2>4
    <3>2. Shows(durations)' /\ Shows(totals)'
      <4>1. \A m \in {durations, totals} : Shows(m)'
        BY <2>1, <3>1, <1>a, MetricShows
      <4>2. UNCHANGED registry
        BY <1>1, <1>a, ScrapeChanges
      <4> QED
        BY <4>1, <4>2 DEF Shows, registry
    <3>3. \/ page.durations # Unread /\ page.totals # Unread
          \/ page.durations = Unread /\ page.totals = Unread
      BY <2>4 DEF Halfway
    <3>4. UNCHANGED registry
      BY <1>1, <1>a, ScrapeChanges
    <3>5. page'.durations # Unread /\ page'.totals = Unread => Shows(page.durations)'
      BY <2>1, <3>2, <3>3, <3>4, <1>b DEF Shows, registry
    <3>6. page'.totals # Unread /\ page'.durations = Unread => Shows(page.totals)'
      BY <2>1, <3>2, <3>3, <3>4, <1>b DEF Shows, registry
    <3> QED
      BY <2>2, <3>5, <3>6 DEF ScrapeHalf
  <2> QED
    BY <2>3, <2>4
<1>2. CASE ~Scrape
  <2>1. /\ page' = page /\ Observed \subseteq Observed'
        /\ Halfway \/ between' = between
    BY <1>2, <1>a, UnscrapedChanges
  <2>2. CASE ~Halfway
    BY <2>1, <2>2, <1>a DEF ScrapeHalf, Halfway
  <2>3. CASE Halfway
    <3>1. \A m : Shows(m) => Shows(m)' /\ between' \subseteq Observed'
      BY <2>3, <1>a, ShowsKept DEF ScrapeHalf
    <3>2. \/ page.durations # Unread /\ page.totals = Unread /\ Shows(page.durations)
          \/ page.totals # Unread /\ page.durations = Unread /\ Shows(page.totals)
      BY <2>3, <1>a DEF ScrapeHalf, Halfway
    <3>3. CASE page.durations # Unread /\ page.totals = Unread /\ Shows(page.durations)
      <4>1. Shows(page.durations)' /\ between' \subseteq Observed'
        BY <2>1, <3>1, <3>3 DEF Shows
      <4> QED
        BY <2>1, <3>3, <4>1 DEF ScrapeHalf
    <3>4. CASE page.totals # Unread /\ page.durations = Unread /\ Shows(page.totals)
      <4>1. Shows(page.totals)' /\ between' \subseteq Observed'
        BY <2>1, <3>1, <3>4 DEF Shows
      <4> QED
        BY <2>1, <3>4, <4>1 DEF ScrapeHalf
    <3> QED
      BY <3>2, <3>3, <3>4
  <2> QED
    BY <2>2, <2>3
<1> QED
  BY <1>1, <1>2

(* Counts of two sets that differ only by what was caught. *)
LEMMA CountsClose ==
  ASSUME NEW S \in SUBSET Requests, NEW T \in SUBSET Requests, between \subseteq Requests,
         S \ T \subseteq between, T \ S \subseteq between, NEW l
  PROVE  Cardinality(Labelled(S, l)) - Cardinality(Labelled(T, l))
            \in -Cardinality(Labelled(between, l))..Cardinality(Labelled(between, l))
<1>1. /\ Labelled(S, l) \in SUBSET Requests /\ Labelled(T, l) \in SUBSET Requests
      /\ Labelled(between, l) \in SUBSET Requests
      /\ Labelled(S, l) \ Labelled(T, l) \subseteq Labelled(between, l)
      /\ Labelled(T, l) \ Labelled(S, l) \subseteq Labelled(between, l)
  BY DEF Labelled
<1> QED
  BY <1>1, SizesClose

LEMMA ConsistentStep == BundleInv /\ [Next]_vars => ScrapeConsistent'
<1> SUFFICES ASSUME BundleInv, [Next]_vars, Complete', NEW l \in Labels
             PROVE  page'.totals[l] - page'.durations[l]
                       \in -Cardinality({r \in between' : Label(r)' = l})
                              ..Cardinality({r \in between' : Label(r)' = l})
  BY DEF ScrapeConsistent
<1>a. TypeOK /\ ScrapeHalf /\ CountedOnce /\ ScrapeConsistent
  BY DEF BundleInv
<1>b. \A S \in SUBSET Observed : {r \in S : Label(r)' = l} = Labelled(S, l)
  BY <1>a, LabelStays DEF Labelled
<1>c. /\ between \subseteq Observed /\ Observed \in SUBSET Requests
      /\ Counted \in SUBSET Observed
  BY <1>a DEF ScrapeHalf, Observed, Counted
<1>1. CASE Scrape
  <2>1. /\ between' = IF Halfway THEN between ELSE Standing
        /\ \/ page.durations = Unread /\ page'.durations = durations /\ page'.totals = page.totals
           \/ page.totals = Unread /\ page'.totals = totals /\ page'.durations = page.durations
    BY <1>1, <1>a, ScrapeChanges
  <2>2. Halfway /\ between' = between
    BY <2>1 DEF Complete, Halfway
  <2>3. {r \in between' : Label(r)' = l} = Labelled(between, l)
    BY <2>2, <1>b, <1>c
  <2>4. durations[l] = Cardinality(Labelled(Observed, l)) /\ totals[l] = Cardinality(Labelled(Counted, l))
    BY <1>a, CountedOnceCounts DEF Counts
  <2>5. CASE /\ page.durations = Unread /\ page'.durations = durations
             /\ page'.totals = page.totals
    <3>1. Shows(page.totals)
      BY <2>5, <1>a DEF Complete, ScrapeHalf
    <3>2. PICK S \in SUBSET Observed : /\ page.totals[l] = Cardinality(Labelled(S, l))
                                       /\ Observed \ S \subseteq between
      BY <3>1 DEF Shows
    <3>3. S \ Observed \subseteq between
      OBVIOUS
    <3>4. Cardinality(Labelled(S, l)) - Cardinality(Labelled(Observed, l))
             \in -Cardinality(Labelled(between, l))..Cardinality(Labelled(between, l))
      BY <3>2, <3>3, <1>c, CountsClose
    <3> QED
      BY <2>3, <2>4, <2>5, <3>2, <3>4
  <2>6. CASE /\ page.totals = Unread /\ page'.totals = totals
             /\ page'.durations = page.durations
    <3>1. Shows(page.durations)
      BY <2>6, <1>a DEF Complete, ScrapeHalf
    <3>2. PICK S \in SUBSET Observed : /\ page.durations[l] = Cardinality(Labelled(S, l))
                                       /\ Observed \ S \subseteq between
                                       /\ S \ Counted \subseteq between
      BY <3>1 DEF Shows
    <3>3. Counted \ S \subseteq between
      BY <3>2, <1>c
    <3>4. Cardinality(Labelled(Counted, l)) - Cardinality(Labelled(S, l))
             \in -Cardinality(Labelled(between, l))..Cardinality(Labelled(between, l))
      BY <3>2, <3>3, <1>c, CountsClose
    <3> QED
      BY <2>3, <2>4, <2>6, <3>2, <3>4
  <2> QED
    BY <2>1, <2>5, <2>6
<1>2. CASE ~Scrape
  <2>1. page' = page /\ (Halfway \/ between' = between)
    BY <1>2, <1>a, UnscrapedChanges
  <2>2. Complete /\ ~Halfway
    BY <2>1 DEF Complete, Halfway
  <2>3. page.totals[l] - page.durations[l]
           \in -Cardinality(Labelled(between, l))..Cardinality(Labelled(between, l))
    BY <2>2, <1>a DEF ScrapeConsistent, Labelled
  <2>4. {r \in between' : Label(r)' = l} = Labelled(between, l)
    BY <2>1, <2>2, <1>b, <1>c
  <2> QED
    BY <2>1, <2>3, <2>4
<1> QED
  BY <1>1, <1>2

-----------------------------------------------------------------------------
(* What the two middlewares and the Registry keep true of the requests in  *)
(* them and of a scrape, however requests, panics and the scrape interleave *)
(* (middleware.go:41-100, http.go:40-76, metrics.go:113-117).              *)
THEOREM BundleInvariant == Spec => []BundleInv
<1>1. BundleInv /\ [Next]_vars => BundleInv'
  BY TypeStep, GaugeStep, CountedStep, RoutesStep, WriterStep, LinesStep, PathsStep,
     ScrapeHalfStep, ConsistentStep DEF BundleInv
<1> QED
  BY <1>1, InitBundleInv, PTL DEF Spec

(* Every variable keeps its type. *)
THEOREM TypeCorrect == Spec => []TypeOK
BY BundleInvariant, PTL DEF BundleInv

(* The gauge counts the measured requests inside, also while handlers      *)
(* panic (middleware.go:49-54, http.go:58-61).                             *)
THEOREM GaugeCorrect == Spec => []GaugeExact
BY BundleInvariant, PTL DEF BundleInv

(* A measured request that returned is once in each metric, on one label,  *)
(* and one that panicked in neither (metrics.go:113-117).                  *)
THEOREM CountedOnceCorrect == Spec => []CountedOnce
BY BundleInvariant, PTL DEF BundleInv

(* What a scraped page shows of a label differs between the metrics by no  *)
(* more than the requests caught between their updates                     *)
(* (metrics.go:115-116, http.go:73-74).                                    *)
THEOREM ScrapeCorrect == Spec => []ScrapeConsistent
BY BundleInvariant, PTL DEF BundleInv

(* Without a 1xx or a flush ahead of it, the recorded status is the one    *)
(* the client got (middleware.go:88-111).                                  *)
THEOREM StatusCorrect == Spec => []StatusFaithful
<1>1. BundleInv => StatusFaithful
  <2> SUFFICES ASSUME BundleInv, NEW r \in Requests, at[r] = "left", ~detour[r]
               PROVE  /\ status[r] = wire[r]
                      /\ Logs(r) => /\ logged[r].status = wire[r]
                                    /\ logged[r].level = "error" <=> wire[r] >= 500
    BY DEF StatusFaithful
  <2>1. status[r] = wire[r] /\ wire[r] # 0
    BY DEF BundleInv, WriterAgrees
  <2>2. ASSUME Logs(r)
        PROVE  logged[r] = [level |-> Level(status[r]), path |-> path[r],
                            status |-> status[r]]
    BY <2>2 DEF BundleInv, LinesAgree
  <2>3. Level(status[r]) = "error" <=> status[r] >= 500
    BY DEF Level
  <2> QED
    BY <2>1, <2>2, <2>3
<1> QED
  BY <1>1, BundleInvariant, PTL

(* Histogram, counter and log line name the route that chi matched while   *)
(* the handler ran, for every request that they tell of (middleware.go:    *)
(* 64-75, 135-142, http.go:66-74).                                         *)
THEOREM RouteCorrect == Spec => []RouteRecorded
<1>1. BundleInv => RouteRecorded
  <2> SUFFICES ASSUME BundleInv PROVE RouteRecorded
    OBVIOUS
  <2>1. TypeOK /\ PathsMatch /\ LinesAgree
    BY DEF BundleInv
  <2>2. \A r \in Requests : at[r] \notin Unresolved => path[r] = Matched(r)
    <3>1. "" \notin Routes
      BY PatternsAssumption DEF Routes
    <3> QED
      BY <2>1, <3>1, TypeParts DEF RequestTypes, PathsMatch
  <2>3. ASSUME NEW p \in Routes, NEW c \in AllCodes
        PROVE  LET ofRoute == {r \in Requests : Matched(r) = p /\ status[r] = c}
               IN  /\ durations[<<p, c>>] = Cardinality(Observed \intersect ofRoute)
                   /\ totals[<<p, c>>] = Cardinality(Counted \intersect ofRoute)
    <3> DEFINE ofRoute == {r \in Requests : Matched(r) = p /\ status[r] = c}
    <3>1. <<p, c>> \in Labels
      BY DEF Labels
    <3>2. \A r \in Observed : Label(r) = <<p, c>> <=> Matched(r) = p /\ status[r] = c
      BY <2>2 DEF Observed, Unresolved, Label
    <3>3. Labelled(Observed, <<p, c>>) = Observed \intersect ofRoute
      BY <3>2 DEF Labelled, Observed
    <3>4. Labelled(Counted, <<p, c>>) = Counted \intersect ofRoute
      BY <3>2 DEF Labelled, Counted, Observed
    <3>5. Counts(durations, Observed) /\ Counts(totals, Counted)
      BY CountedOnceCounts DEF BundleInv
    <3> QED
      BY <3>1, <3>3, <3>4, <3>5 DEF Counts
  <2>4. ASSUME NEW r \in Requests, at[r] = "left", Logs(r)
        PROVE  logged[r].path = Matched(r)
    <3>1. logged[r] = [level |-> Level(status[r]), path |-> path[r], status |-> status[r]]
      BY <2>1, <2>4 DEF LinesAgree
    <3> QED
      BY <3>1, <2>2, <2>4 DEF Unresolved
  <2> QED
    BY <2>3, <2>4 DEF RouteRecorded
<1> QED
  BY <1>1, BundleInvariant, PTL
=============================================================================
