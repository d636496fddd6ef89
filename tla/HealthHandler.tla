---------------------------- MODULE HealthHandler ----------------------------
(***************************************************************************)
(* A health.Checker: its construction, the registration of checks, and one *)
(* request to its Handler.  The handler starts a goroutine per registered  *)
(* check, each of which derives a context, runs the check and appends a    *)
(* result to a shared slice under a mutex; the handler waits for all of    *)
(* them on a WaitGroup and turns the results into a reply.                 *)
(*                                                                         *)
(* A check is foreign code: it returns nil or an error whenever it likes,  *)
(* or panics.  Nothing in its goroutine recovers, so the process dies, but *)
(* only after the deferred calls of the goroutine have run: until then the *)
(* others go on.  The checks in Honouring end once their context is done;  *)
(* the others may never.  Time is a discrete clock that starts with the    *)
(* request.                                                                *)
(***************************************************************************)
EXTENDS Integers, Sequences, FiniteSets

CONSTANTS
    Names,          \* the names a check may be registered under
    Timeouts,       \* the timeouts a Checker may be made with
    CheckTimeouts,  \* those of WithCheckTimeout; zero or less means none
    Honouring,      \* the checks that heed their context
    NoCheck,        \* the owner of an unlocked mutex
    MaxElapsed      \* bound on the clock, for model checking

ASSUME NamesAssumption == IsFiniteSet(Names) /\ NoCheck \notin Names
ASSUME TimeoutsAssumption == Timeouts \subseteq Int /\ CheckTimeouts \subseteq Int
ASSUME HonouringAssumption == Honouring \subseteq Names
ASSUME MaxElapsedAssumption == MaxElapsed \in Nat

VARIABLES
    timeout,    \* the Checker's timeout
    checks,     \* the names in the Checker's map
    checkTimeout, \* and the timeout of each entry
    method,     \* of the request
    connected,  \* FALSE once the client is gone: r.Context() is cancelled
    elapsed,    \* time since the handler made its context
    main,       \* where the handler stands
    wg,         \* the WaitGroup's counter
    at,         \* where each check's goroutine stands
    expires,    \* the deadline of each check's context
    err,        \* what each check returned: pending, nil, err, or a panic
    mu,         \* the owner of the mutex
    seen,       \* the slice each goroutine is appending to
    results,    \* the shared slice
    code        \* the status code of the reply, 0 before it

checker == <<timeout, checks, checkTimeout>>
vars == <<checker, method, connected, elapsed, main, wg, at, expires, err, mu, seen,
          results, code>>
environment == <<checker, method, connected, elapsed>>

Methods == {"GET", "HEAD", "POST"}
Allowed == {"GET", "HEAD"}

GoroutineLabels == {"unborn", "ready", "running", "returned", "appending",
                    "appended", "unwinding", "exited", "killed"}

Result == [name : Names, healthy : BOOLEAN]

TypeOK ==
    /\ timeout \in Timeouts
    /\ checks \subseteq Names
    /\ checkTimeout \in [Names -> CheckTimeouts \union {0}]
    /\ method \in Methods
    /\ connected \in BOOLEAN
    /\ elapsed \in 0..MaxElapsed
    /\ main \in {"building", "arrived", "spawning", "waiting", "verdict", "done",
                "crashed"}
    /\ wg \in 0..Cardinality(Names)
    /\ at \in [Names -> GoroutineLabels]
    /\ expires \in [Names -> Int]
    /\ err \in [Names -> {"pending", "nil", "err", "panic"}]
    /\ mu \in Names \union {NoCheck}
    /\ seen \in [Names -> Seq(Result)]
    /\ results \in Seq(Result)
    /\ code \in {0, 200, 405, 503}

Init ==
    /\ timeout \in Timeouts
    /\ checks = {}
    /\ checkTimeout = [n \in Names |-> 0]
    /\ method \in Methods
    /\ connected = TRUE
    /\ elapsed = 0
    /\ main = "building"
    /\ wg = 0
    /\ at = [n \in Names |-> "unborn"]
    /\ expires = [n \in Names |-> 0]
    /\ err = [n \in Names |-> "pending"]
    /\ mu = NoCheck
    /\ seen = [n \in Names |-> <<>>]
    /\ results = <<>>
    /\ code = 0

-----------------------------------------------------------------------------
(* AddCheck stores an entry in the map; the last one under a name stays.   *)
AddCheck(n) ==
    /\ main = "building"
    /\ checks' = checks \union {n}
    /\ \E t \in CheckTimeouts : checkTimeout' = [checkTimeout EXCEPT ![n] = t]
    /\ UNCHANGED <<timeout, method, connected, elapsed, main, wg, at, expires,
                   err, mu, seen, results, code>>

(* All checks are registered before Handler serves its request. *)
Serve ==
    /\ main = "building"
    /\ main' = "arrived"
    /\ UNCHANGED <<environment, wg, at, expires, err, mu, seen, results, code>>

-----------------------------------------------------------------------------
(* The handler's own goroutine. *)

Reject ==
    /\ main = "arrived"
    /\ method \notin Allowed
    /\ code' = 405
    /\ main' = "done"
    /\ UNCHANGED <<environment, wg, at, expires, err, mu, seen, results>>

Accept ==
    /\ main = "arrived"
    /\ method \in Allowed
    /\ main' = "spawning"
    /\ UNCHANGED <<environment, wg, at, expires, err, mu, seen, results, code>>

(* Mutant: wg.Add(1) moved into the goroutine it counts. *)
SpawnUncounted(n) ==
    /\ main = "spawning"
    /\ n \in checks /\ at[n] = "unborn"
    /\ at' = [at EXCEPT ![n] = "ready"]
    /\ UNCHANGED <<environment, main, wg, expires, err, mu, seen, results, code>>

(* One round of the loop over the map, whose order is arbitrary. *)
Spawn(n) ==
    /\ main = "spawning"
    /\ n \in checks /\ at[n] = "unborn"
    /\ wg' = wg + 1
    /\ at' = [at EXCEPT ![n] = "ready"]
    /\ UNCHANGED <<environment, main, expires, err, mu, seen, results, code>>

EndLoop ==
    /\ main = "spawning"
    /\ \A n \in checks : at[n] # "unborn"
    /\ main' = "waiting"
    /\ UNCHANGED <<environment, wg, at, expires, err, mu, seen, results, code>>

Join ==
    /\ main = "waiting"
    /\ wg = 0
    /\ main' = "verdict"
    /\ UNCHANGED <<environment, wg, at, expires, err, mu, seen, results, code>>

AllHealthy == \A i \in DOMAIN results : results[i].healthy

Reply ==
    /\ main = "verdict"
    /\ code' = IF AllHealthy THEN 200 ELSE 503
    /\ main' = "done"
    /\ UNCHANGED <<environment, wg, at, expires, err, mu, seen, results>>

-----------------------------------------------------------------------------
(* The goroutine of check n. *)

Earlier(s, t) == IF s < t THEN s ELSE t

(* Mutant: the check's context is not derived from the request's. *)
DeadlineDetached(n) ==
    IF checkTimeout[n] > 0 THEN elapsed + checkTimeout[n] ELSE timeout

(* A child context's deadline is never later than its parent's. *)
Deadline(n) ==
    IF checkTimeout[n] > 0 THEN Earlier(timeout, elapsed + checkTimeout[n])
                           ELSE timeout

CtxDone(n) == ~connected \/ elapsed >= expires[n]

Begin(n) ==
    /\ at[n] = "ready"
    /\ expires' = [expires EXCEPT ![n] = Deadline(n)]
    /\ at' = [at EXCEPT ![n] = "running"]
    /\ UNCHANGED <<environment, main, wg, err, mu, seen, results, code>>

CheckReturns(n) ==
    /\ at[n] = "running"
    /\ \E e \in {"nil", "err"} : err' = [err EXCEPT ![n] = e]
    /\ at' = [at EXCEPT ![n] = "returned"]
    /\ UNCHANGED <<environment, main, wg, expires, mu, seen, results, code>>

CheckPanics(n) ==
    /\ at[n] = "running"
    /\ err' = [err EXCEPT ![n] = "panic"]
    /\ at' = [at EXCEPT ![n] = "unwinding"]
    /\ UNCHANGED <<environment, main, wg, expires, mu, seen, results, code>>

(* Mutant: the result is appended without the mutex. *)
BeginAppendUnlocked(n) ==
    /\ at[n] = "returned"
    /\ seen' = [seen EXCEPT ![n] = results]
    /\ at' = [at EXCEPT ![n] = "appending"]
    /\ UNCHANGED <<environment, main, wg, expires, err, mu, results, code>>

(* append reads the slice, then writes it back: two steps under mu. *)
BeginAppend(n) ==
    /\ at[n] = "returned"
    /\ mu = NoCheck
    /\ mu' = n
    /\ seen' = [seen EXCEPT ![n] = results]
    /\ at' = [at EXCEPT ![n] = "appending"]
    /\ UNCHANGED <<environment, main, wg, expires, err, results, code>>

ResultOf(n) == [name |-> n, healthy |-> err[n] = "nil"]

EndAppend(n) ==
    /\ at[n] = "appending"
    /\ results' = Append(seen[n], ResultOf(n))
    /\ mu' = NoCheck
    /\ at' = [at EXCEPT ![n] = "appended"]
    /\ UNCHANGED <<environment, main, wg, expires, err, seen, code>>

(* Mutant: Done both deferred and called. *)
ExitTwice(n) ==
    /\ at[n] \in {"appended", "unwinding"}
    /\ wg' = wg - 2
    /\ at' = [at EXCEPT ![n] = "exited"]
    /\ UNCHANGED <<environment, main, expires, err, mu, seen, results, code>>

(* Mutant: Done is not deferred and the error path returns without it. *)
ExitOnSuccess(n) ==
    /\ at[n] \in {"appended", "unwinding"}
    /\ wg' = IF err[n] = "nil" THEN wg - 1 ELSE wg
    /\ at' = [at EXCEPT ![n] = "exited"]
    /\ UNCHANGED <<environment, main, expires, err, mu, seen, results, code>>

(* The deferred wg.Done(), which runs when the check panicked, too. *)
Exit(n) ==
    /\ at[n] \in {"appended", "unwinding"}
    /\ wg' = wg - 1
    /\ at' = [at EXCEPT ![n] = "exited"]
    /\ UNCHANGED <<environment, main, expires, err, mu, seen, results, code>>

(* Once a panic has unwound its goroutine, the runtime ends the process,   *)
(* and with it every goroutine, some time later.                           *)
Die ==
    /\ main # "crashed"
    /\ \E n \in Names : err[n] = "panic" /\ at[n] = "exited"
    /\ main' = "crashed"
    /\ at' = [n \in Names |-> "killed"]
    /\ UNCHANGED <<environment, wg, expires, err, mu, seen, results, code>>

-----------------------------------------------------------------------------
Tick ==
    /\ main \in {"spawning", "waiting", "verdict"}
    /\ elapsed < MaxElapsed
    /\ elapsed' = elapsed + 1
    /\ UNCHANGED <<checker, method, connected, main, wg, at, expires, err, mu,
                   seen, results, code>>

Disconnect ==
    /\ main \notin {"building", "done", "crashed"}
    /\ connected
    /\ connected' = FALSE
    /\ UNCHANGED <<checker, method, elapsed, main, wg, at, expires, err, mu,
                   seen, results, code>>

Finished == main \in {"done", "crashed"} /\ UNCHANGED vars

Handler == Reject \/ Accept \/ (\E n \in Names : Spawn(n)) \/ EndLoop \/ Join \/ Reply
Library(n) == Begin(n) \/ EndAppend(n) \/ Exit(n)
Goroutine(n) == Library(n) \/ CheckReturns(n) \/ CheckPanics(n) \/ BeginAppend(n)

Next ==
    \/ \E n \in Names : AddCheck(n)
    \/ Serve
    \/ Handler
    \/ \E n \in Names : Goroutine(n)
    \/ Die
    \/ Tick \/ Disconnect
    \/ Finished

Spec == Init /\ [][Next]_vars

(* Goroutines that can run do run, the mutex passes nobody over for ever,  *)
(* time passes, and a check that heeds its context ends once that is done, *)
(* one way or the other.  Of the other checks nothing is assumed.          *)
Fairness ==
    /\ WF_vars(Serve) /\ WF_vars(Handler)
    /\ WF_vars(Die) /\ WF_vars(Tick)
    /\ \A n \in Names : WF_vars(Library(n)) /\ SF_vars(BeginAppend(n))
    /\ \A n \in Honouring : WF_vars(CtxDone(n) /\ (CheckReturns(n) \/ CheckPanics(n)))

FairSpec == Spec /\ Fairness

-----------------------------------------------------------------------------
(* The handler passes its WaitGroup only after every goroutine it started  *)
(* has appended its result or panicked, although it starts them while the  *)
(* first ones are finishing already (health.go:104-135).                   *)
Panicked == {n \in checks : err[n] = "panic"}
JoinsAll ==
    main \in {"verdict", "done"} /\ code # 405 =>
        /\ \A n \in checks : at[n] = "exited"
        /\ Len(results) = Cardinality(checks \ Panicked)

(* When the Checker's timeout has passed, no check is left waiting on a    *)
(* context that is still alive, whatever its own timeout and however late  *)
(* its goroutine got to run (health.go:44-46, 110-114).                    *)
NoContextOutlivesTimeout ==
    \A n \in checks : at[n] = "running" /\ elapsed >= timeout => CtxDone(n)

(* The reply promised by HealthReport: one verdict per check, each listed  *)
(* once, 200 only when all listed are healthy, and nobody left out but a   *)
(* check that panicked (health.go:106-155).                                *)
Report == INSTANCE HealthReport WITH
    verdict <- err,
    reply <- code,
    report <- IF code \in {200, 503} THEN results ELSE <<>>
ImplementsReport == Report!Spec

(* The handler replies, unless a check panics or one that ignores its      *)
(* context never returns: the deadline alone ends nothing, and nothing     *)
(* recovers (health.go:97, 106-118, 135).                                  *)
Answered ==
    \/ <>(main \in {"done", "crashed"})
    \/ \E n \in Names \ Honouring : <>[](at[n] = "running")
=============================================================================
