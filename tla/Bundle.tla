-------------------------------- MODULE Bundle --------------------------------
(***************************************************************************)
(* Concurrent requests through one of the two middlewares that share a     *)
(* metrics.Registry: middleware.Bundle, with its metrics and its log line  *)
(* on or off, and the Registry's own HTTPMiddleware, which only measures.  *)
(* Each counts the request in and out of a gauge, wraps the writer to see  *)
(* the status, and records two metrics when the handler returns.           *)
(*                                                                         *)
(* A handler writes headers and bodies through the status writer, flushes  *)
(* through an http.ResponseController, which unwraps it, and may panic.    *)
(* net/http (external) decides what the client is sent.  Prometheus        *)
(* scrapes meanwhile and reads the two metrics one after the other.        *)
(***************************************************************************)
EXTENDS Integers, FiniteSets

CONSTANTS
    Requests,   \* requests served concurrently
    Codes,      \* the status codes handlers write
    Patterns,   \* the router's patterns
    MaxOps      \* bound on what one handler does to its writer

ASSUME RequestsAssumption == IsFiniteSet(Requests)
ASSUME CodesAssumption == Codes \subseteq 100..599 \ {101}
ASSUME PatternsAssumption == "/unknown" \notin Patterns /\ "" \notin Patterns
ASSUME MaxOpsAssumption == MaxOps \in Nat

VARIABLES
    metricsEnabled, loggingEnabled, \* fixed when the Bundle is built
    standalone, \* the requests on routes that use HTTPMiddleware instead
    at,         \* where each request stands
    ops,        \* what its handler has done to the writer so far, counted
    status, wroteHeader,            \* the fields of its statusWriter
    wire,       \* the final status net/http has sent, 0 before
    pattern,    \* the route chi matched, "" before or without a match
    path,       \* the route as the middleware read it, "" before it did
    active,     \* http_active_requests
    durations,  \* observations of http_request_duration_seconds, by label
    totals,     \* http_requests_total, by label
    logged,     \* the log line of each request
    detour,     \* history: a 1xx or a flush came before the final status
    page,       \* what the current scrape has read of the two metrics
    between     \* history: requests that stood between them during the scrape

config == <<metricsEnabled, loggingEnabled, standalone>>
writer == <<status, wroteHeader, wire, ops, detour>>
route == <<pattern, path>>
registry == <<durations, totals>>
scrape == <<page, between>>
vars == <<config, at, writer, route, active, registry, logged, scrape>>

AllCodes == Codes \union {200}
Routes == Patterns \union {"/unknown"}
Labels == Routes \X AllCodes
NoLine == [level |-> "none", path |-> "", status |-> 0]
Lines == [level : {"info", "error"}, path : Routes, status : AllCodes]

(* A metric as scraped: its value per label, empty until it is read. *)
Unread == <<>>
Reading == {Unread} \union [Labels -> Nat]

Inside == {"handling", "returned", "resolved", "observed", "recorded", "logged",
           "panicked"}

(* Where a request has no route to be recorded on yet, and may get none.   *)
Unresolved == {"arriving", "handling", "returned", "panicked", "aborted"}

TypeOK ==
    /\ metricsEnabled \in BOOLEAN /\ loggingEnabled \in BOOLEAN
    /\ standalone \in SUBSET Requests
    /\ at \in [Requests -> Inside \union {"arriving", "left", "aborted"}]
    /\ ops \in [Requests -> 0..MaxOps]
    /\ status \in [Requests -> AllCodes]
    /\ wroteHeader \in [Requests -> BOOLEAN]
    /\ wire \in [Requests -> AllCodes \union {0}]
    /\ pattern \in [Requests -> Patterns \union {""}]
    /\ path \in [Requests -> Routes \union {""}]
    /\ \A r \in Requests : at[r] \notin Unresolved => path[r] \in Routes
    /\ active \in Int
    /\ durations \in [Labels -> Nat]
    /\ totals \in [Labels -> Nat]
    /\ logged \in [Requests -> Lines \union {NoLine}]
    /\ detour \in [Requests -> BOOLEAN]
    /\ page \in [durations : Reading, totals : Reading]
    /\ between \subseteq Requests

Init ==
    /\ metricsEnabled \in BOOLEAN /\ loggingEnabled \in BOOLEAN
    /\ standalone \in SUBSET Requests
    /\ at = [r \in Requests |-> "arriving"]
    /\ ops = [r \in Requests |-> 0]
    /\ status = [r \in Requests |-> 200]
    /\ wroteHeader = [r \in Requests |-> FALSE]
    /\ wire = [r \in Requests |-> 0]
    /\ pattern = [r \in Requests |-> ""]
    /\ path = [r \in Requests |-> ""]
    /\ active = 0
    /\ durations = [l \in Labels |-> 0]
    /\ totals = [l \in Labels |-> 0]
    /\ logged = [r \in Requests |-> NoLine]
    /\ detour = [r \in Requests |-> FALSE]
    /\ page = [durations |-> Unread, totals |-> Unread]
    /\ between = {}

-----------------------------------------------------------------------------
Goto(r, label) == at' = [at EXCEPT ![r] = label]

Measured(r) == r \in standalone \/ metricsEnabled
Logs(r) == r \notin standalone /\ loggingEnabled

(* Bundle: count the request in, wrap its writer with status 200, call next. *)
Enter(r) ==
    /\ at[r] = "arriving" /\ r \notin standalone
    /\ active' = IF metricsEnabled THEN active + 1 ELSE active
    /\ Goto(r, "handling")
    /\ UNCHANGED <<config, writer, route, registry, logged, scrape>>

(* HTTPMiddleware: the same, and always counted. *)
EnterStandalone(r) ==
    /\ at[r] = "arriving" /\ r \in standalone
    /\ active' = active + 1
    /\ Goto(r, "handling")
    /\ UNCHANGED <<config, writer, route, registry, logged, scrape>>

(* chi matches the route inside next; without a match the pattern stays "". *)
Route(r) ==
    /\ at[r] = "handling"
    /\ pattern[r] = "" /\ ops[r] = 0
    /\ \E p \in Patterns : pattern' = [pattern EXCEPT ![r] = p]
    /\ UNCHANGED <<path, config, at, writer, active, registry, logged, scrape>>

(* One more thing the handler does to its writer. *)
Op(r) ==
    /\ at[r] = "handling"
    /\ ops[r] < MaxOps
    /\ ops' = [ops EXCEPT ![r] = @ + 1]

Informational(code) == code < 200

(* net/http's WriteHeader: a 1xx is sent ahead of the final status, and    *)
(* only the first final status counts.                                     *)
Sent(r, code) == IF wire[r] = 0 /\ ~Informational(code) THEN code ELSE wire[r]
Send(r, code) == wire' = [wire EXCEPT ![r] = Sent(r, code)]

(* Mutant: every code overwrites the one before. *)
CaptureLast(r, code) ==
    /\ status' = [status EXCEPT ![r] = code]
    /\ wroteHeader' = [wroteHeader EXCEPT ![r] = TRUE]

(* statusWriter: the first code seen is the one kept. *)
Capture(r, code) ==
    /\ status' = [status EXCEPT ![r] = IF wroteHeader[r] THEN @ ELSE code]
    /\ wroteHeader' = [wroteHeader EXCEPT ![r] = TRUE]

WriteHeader(r) ==
    /\ Op(r)
    /\ \E code \in Codes :
        /\ Capture(r, code)
        /\ Send(r, code)
        /\ detour' = [detour EXCEPT ![r] = @ \/ (wire[r] = 0 /\ Informational(code))]
    /\ UNCHANGED <<config, at, route, active, registry, logged, scrape>>

Write(r) ==
    /\ Op(r)
    /\ Capture(r, 200)
    /\ Send(r, 200)
    /\ UNCHANGED <<config, at, route, active, registry, logged, detour,
                   scrape>>

(* Flush reaches net/http past the status writer and sends a pending 200. *)
Flush(r) ==
    /\ Op(r)
    /\ Send(r, 200)
    /\ detour' = [detour EXCEPT ![r] = @ \/ wire[r] = 0]
    /\ UNCHANGED <<config, at, route, active, registry, logged, status,
                   wroteHeader, scrape>>

(* The count of a handler that is done bounds nothing any more. *)
Forget(r) == ops' = [ops EXCEPT ![r] = 0]

Return(r) ==
    /\ at[r] = "handling"
    /\ Goto(r, "returned")
    /\ Forget(r)
    /\ UNCHANGED <<config, status, wroteHeader, wire, detour, route, active,
                   registry, logged, scrape>>

Panic(r) ==
    /\ at[r] = "handling"
    /\ Goto(r, "panicked")
    /\ Forget(r)
    /\ UNCHANGED <<config, status, wroteHeader, wire, detour, route, active,
                   registry, logged, scrape>>

-----------------------------------------------------------------------------
(* Mutant: no fallback when chi matched nothing. *)
RoutePatternRaw(r) == pattern[r]

RoutePattern(r) == IF pattern[r] = "" THEN "/unknown" ELSE pattern[r]

(* Mutant: the route may be read before the handler has run. *)
ResolvePathEarly(r) ==
    /\ \/ at[r] = "handling" /\ ops[r] = 0 /\ UNCHANGED at
       \/ at[r] = "returned" /\ Goto(r, "resolved")
    /\ path' = [path EXCEPT ![r] = IF @ = "" THEN RoutePattern(r) ELSE @]
    /\ UNCHANGED <<config, writer, pattern, active, registry, logged, scrape>>

(* Either middleware asks chi for the route once next has returned. *)
ResolvePath(r) ==
    /\ at[r] = "returned"
    /\ path' = [path EXCEPT ![r] = RoutePattern(r)]
    /\ Goto(r, "resolved")
    /\ UNCHANGED <<config, writer, pattern, active, registry, logged, scrape>>

Label(r) == <<path[r], status[r]>>

Bump(metric, r) == [metric EXCEPT ![Label(r)] = @ + 1]

(* A scrape that has read one metric and not yet the other. *)
Halfway == (page.durations = Unread) # (page.totals = Unread)
Stand(r) == between' = IF Halfway THEN between \union {r} ELSE between

(* RecordHTTPRequest: the histogram first, then the counter. *)
Observe(r) ==
    /\ at[r] = "resolved" /\ r \notin standalone
    /\ IF metricsEnabled THEN durations' = Bump(durations, r) /\ Stand(r)
                         ELSE UNCHANGED <<durations, between>>
    /\ Goto(r, "observed")
    /\ UNCHANGED <<config, writer, route, active, totals, logged, page>>

Count(r) ==
    /\ at[r] = "observed" /\ r \notin standalone
    /\ totals' = IF metricsEnabled THEN Bump(totals, r) ELSE totals
    /\ Goto(r, "recorded")
    /\ UNCHANGED <<config, writer, route, active, durations, logged, scrape>>

(* Mutant: the duration of a failed request is left out of the histogram. *)
ObserveStandaloneServed(r) ==
    /\ at[r] = "resolved" /\ r \in standalone
    /\ IF status[r] < 500 THEN durations' = Bump(durations, r) /\ Stand(r)
                          ELSE UNCHANGED <<durations, between>>
    /\ Goto(r, "observed")
    /\ UNCHANGED <<config, writer, route, active, totals, logged, page>>

(* HTTPMiddleware records the two itself. *)
ObserveStandalone(r) ==
    /\ at[r] = "resolved" /\ r \in standalone
    /\ durations' = Bump(durations, r)
    /\ Stand(r)
    /\ Goto(r, "observed")
    /\ UNCHANGED <<config, writer, route, active, totals, logged, page>>

CountStandalone(r) ==
    /\ at[r] = "observed" /\ r \in standalone
    /\ totals' = Bump(totals, r)
    /\ Goto(r, "logged")
    /\ UNCHANGED <<config, writer, route, active, durations, logged, scrape>>

Level(code) == IF code >= 500 THEN "error" ELSE "info"

Log(r) ==
    /\ at[r] = "recorded"
    /\ logged' = IF loggingEnabled
                 THEN [logged EXCEPT ![r] = [level |-> Level(status[r]),
                                             path |-> path[r],
                                             status |-> status[r]]]
                 ELSE logged
    /\ Goto(r, "logged")
    /\ UNCHANGED <<config, writer, route, active, registry, scrape>>

(* The deferred decrement of either middleware. *)
CountOut(r) == active' = IF Measured(r) THEN active - 1 ELSE active

(* net/http sends the 200 a handler that returned never sent. *)
Leave(r) ==
    /\ at[r] = "logged"
    /\ CountOut(r)
    /\ Send(r, 200)
    /\ Goto(r, "left")
    /\ UNCHANGED <<config, status, wroteHeader, ops, detour, route, registry,
                   logged, scrape>>

(* Mutant: the decrement is not deferred. *)
UnwindInactive(r) ==
    /\ at[r] = "panicked"
    /\ Goto(r, "aborted")
    /\ UNCHANGED <<config, writer, route, active, registry, logged, scrape>>

(* Mutant: the metrics are deferred too, so a panic counts as a reply. *)
UnwindRecorded(r) ==
    /\ at[r] = "panicked"
    /\ CountOut(r)
    /\ totals' = [totals EXCEPT ![<<RoutePattern(r), status[r]>>] = @ + 1]
    /\ durations' = [durations EXCEPT ![<<RoutePattern(r), status[r]>>] = @ + 1]
    /\ Goto(r, "aborted")
    /\ UNCHANGED <<config, writer, route, logged, scrape>>

(* A panic unwinds through the bundle: only what was deferred runs. *)
Unwind(r) ==
    /\ at[r] = "panicked"
    /\ CountOut(r)
    /\ Goto(r, "aborted")
    /\ UNCHANGED <<config, writer, route, registry, logged, scrape>>

-----------------------------------------------------------------------------
(* One scrape: Prometheus gathers the metrics concurrently, so it reads    *)
(* them in either order, and what it has read is a page once it has both.  *)
Standing == {r \in Requests : at[r] = "observed" /\ Measured(r)}

Read(name, metric) ==
    /\ page[name] = Unread
    /\ page' = [page EXCEPT ![name] = metric]
    /\ between' = IF Halfway THEN between ELSE Standing
    /\ UNCHANGED <<config, at, writer, route, active, registry, logged>>

Scrape == Read("durations", durations) \/ Read("totals", totals)

Served == /\ \A r \in Requests : at[r] \in {"left", "aborted"}
          /\ UNCHANGED vars

Next ==
    \/ \E r \in Requests :
        \/ Enter(r) \/ EnterStandalone(r) \/ Route(r)
        \/ WriteHeader(r) \/ Write(r) \/ Flush(r) \/ Return(r) \/ Panic(r)
        \/ ResolvePath(r)
        \/ Observe(r) \/ Count(r) \/ ObserveStandalone(r) \/ CountStandalone(r)
        \/ Log(r) \/ Leave(r) \/ Unwind(r)
    \/ Scrape
    \/ Served

Spec == Init /\ [][Next]_vars

-----------------------------------------------------------------------------
(* The gauge is exactly the number of requests inside a middleware that    *)
(* measures, also while handlers panic (middleware.go:49-54, http.go:58-61). *)
GaugeExact ==
    active = Cardinality({r \in Requests : Measured(r) /\ at[r] \in Inside})

(* Histogram and counter hold each measured request that returned exactly  *)
(* once, on the same label; a request that panicked on neither; and the    *)
(* counter is never ahead, whichever middleware the request went through   *)
(* (metrics.go:113-117, middleware.go:70-72, http.go:73-74).               *)
Observed == {r \in Requests : Measured(r)
                /\ at[r] \in {"observed", "recorded", "logged", "left"}}
Counted == Observed \ Standing
CountedOnce ==
    \A l \in Labels :
        /\ durations[l] = Cardinality({r \in Observed : Label(r) = l})
        /\ totals[l] = Cardinality({r \in Counted : Label(r) = l})

(* On one scraped page the two metrics of a label differ by no more than   *)
(* the requests of that label that were caught between their two updates   *)
(* while the page was read, in whichever order it was read: what a scrape  *)
(* shows wrong is only ever in flight (metrics.go:115-116, http.go:73-74). *)
Complete == page.durations # Unread /\ page.totals # Unread
ScrapeConsistent ==
    Complete => \A l \in Labels :
        LET caught == Cardinality({r \in between : Label(r) = l})
        IN  page.totals[l] - page.durations[l] \in -caught..caught

(* What was recorded of a request that was served is what its client got,  *)
(* as long as no 1xx and no flush came before the final status; a reply of *)
(* 500 or more is then logged as an error (middleware.go:88-111).          *)
StatusFaithful ==
    \A r \in Requests : at[r] = "left" /\ ~detour[r] =>
        /\ status[r] = wire[r]
        /\ Logs(r) => /\ logged[r].status = wire[r]
                      /\ logged[r].level = "error" <=> wire[r] >= 500

(* Histogram, counter and log line of a request all name the route that    *)
(* the router matched it to, or that there was none, although chi fills it *)
(* in only while the handler runs and the middleware was there before      *)
(* (middleware.go:64-75, 135-142, http.go:66-74).                          *)
Matched(r) == IF pattern[r] \in Patterns THEN pattern[r] ELSE "/unknown"
RouteRecorded ==
    /\ \A p \in Routes, c \in AllCodes :
        LET ofRoute == {r \in Requests : Matched(r) = p /\ status[r] = c}
        IN  /\ durations[<<p, c>>] = Cardinality(Observed \intersect ofRoute)
            /\ totals[<<p, c>>] = Cardinality(Counted \intersect ofRoute)
    /\ \A r \in Requests : at[r] = "left" /\ Logs(r) => logged[r].path = Matched(r)

(* The status recorded of every request is the one its client was sent     *)
(* (middleware_test.go:217-218, "status code in the Prometheus label must  *)
(* match what was actually written"; README.md:141).                       *)
StatusAsWritten == \A r \in Requests : at[r] = "left" => status[r] = wire[r]
=============================================================================
