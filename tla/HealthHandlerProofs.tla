-------------------------- MODULE HealthHandlerProofs --------------------------
(***************************************************************************)
(* Theorems about HealthHandler, for any checks, timeouts and clock: its   *)
(* types, that the handler joins every goroutine, that no context outlives *)
(* the Checker's timeout, and that the reply is the one HealthReport       *)
(* promises.                                                               *)
(***************************************************************************)
EXTENDS HealthHandler, FiniteSetTheorems, SequenceTheorems, TLAPS

(* The types, but for the range of the counter, which needs the invariant. *)
Shape ==
    /\ timeout \in Timeouts
    /\ checks \subseteq Names
    /\ checkTimeout \in [Names -> CheckTimeouts \union {0}]
    /\ method \in Methods
    /\ connected \in BOOLEAN
    /\ elapsed \in 0..MaxElapsed
    /\ main \in {"building", "arrived", "spawning", "waiting", "verdict", "done",
                "crashed"}
    /\ at \in [Names -> GoroutineLabels]
    /\ expires \in [Names -> Int]
    /\ err \in [Names -> {"pending", "nil", "err", "panic"}]
    /\ mu \in Names \union {NoCheck}
    /\ seen \in [Names -> Seq(Result)]
    /\ results \in Seq(Result)
    /\ code \in {0, 200, 405, 503}

(* The goroutines the WaitGroup still counts, and the checks whose result  *)
(* is in the slice.                                                        *)
Running == {n \in Names : at[n] \in {"ready", "running", "returned", "appending",
                                     "appended", "unwinding"}}
Recorded == {n \in Names : \/ at[n] = "appended"
                           \/ at[n] = "exited" /\ err[n] \in {"nil", "err"}}

(* The counter is the number of goroutines it stands for. *)
CounterExact ==
    /\ wg \in 0..Cardinality(Names)
    /\ main # "crashed" => wg = Cardinality(Running)

(* Where the handler stands tells where the goroutines can be. *)
StagesAgree ==
    /\ \A n \in Names : at[n] = "killed" <=> main = "crashed"
    /\ main \in {"building", "arrived"} => \A n \in Names : at[n] = "unborn"
    /\ \A n \in Names \ checks : at[n] \in {"unborn", "killed"}
    /\ main = "waiting" => \A n \in checks : at[n] # "unborn"
    /\ main = "verdict" => \A n \in checks : at[n] = "exited"
    /\ main = "done" => \/ code = 405 /\ \A n \in Names : at[n] = "unborn"
                        \/ code \in {200, 503} /\ \A n \in checks : at[n] = "exited"
    /\ main \notin {"done", "crashed"} => code = 0

(* A goroutine's label tells what its check said. *)
VerdictsAgree ==
    \A n \in Names :
        /\ at[n] \in {"unborn", "ready", "running"} => err[n] = "pending"
        /\ at[n] \in {"returned", "appending", "appended"} => err[n] \in {"nil", "err"}
        /\ at[n] = "unwinding" => err[n] = "panic"
        /\ at[n] = "exited" => err[n] # "pending"

(* Only the owner of the mutex is appending, and to the slice as it is. *)
SliceOwned ==
    \A n \in Names : at[n] = "appending" => mu = n /\ seen[n] = results

(* The slice holds each recorded result once, and no other. *)
SliceExact ==
    main # "crashed" =>
        /\ Len(results) = Cardinality(Recorded)
        /\ \A i \in 1..Len(results) :
              results[i].name \in Recorded /\ results[i] = ResultOf(results[i].name)
        /\ \A n \in Recorded : \E i \in 1..Len(results) : results[i].name = n

(* A context's deadline is no later than the Checker's. *)
DeadlinesNest == \A n \in Names : at[n] = "running" => expires[n] <= timeout

HandlerInv ==
    /\ Shape
    /\ CounterExact
    /\ StagesAgree
    /\ VerdictsAgree
    /\ SliceOwned
    /\ SliceExact
    /\ DeadlinesNest

-----------------------------------------------------------------------------
LEMMA InitHandlerInv == Init => HandlerInv
<1> SUFFICES ASSUME Init PROVE HandlerInv
  OBVIOUS
<1> USE DEF Init
<1>1. Shape
  BY EmptySeq, MaxElapsedAssumption DEF Shape, Methods, GoroutineLabels
<1>2. Running = {} /\ Recorded = {}
  BY DEF Running, Recorded
<1>3. CounterExact
  BY <1>2, FS_EmptySet, FS_CardinalityType, NamesAssumption DEF CounterExact
<1>4. StagesAgree /\ VerdictsAgree /\ SliceOwned /\ DeadlinesNest
  BY DEF StagesAgree, VerdictsAgree, SliceOwned, DeadlinesNest
<1>5. SliceExact
  BY <1>2, FS_EmptySet, EmptySeq DEF SliceExact
<1> QED
  BY <1>1, <1>3, <1>4, <1>5 DEF HandlerInv

(* What a step can be. *)
LEMMA Steps ==
  ASSUME [Next]_vars
  PROVE  \/ \E n \in Names : AddCheck(n) \/ Spawn(n) \/ Begin(n) \/ CheckReturns(n)
               \/ CheckPanics(n) \/ BeginAppend(n) \/ EndAppend(n) \/ Exit(n)
         \/ Serve \/ Reject \/ Accept \/ EndLoop \/ Join \/ Reply \/ Die
         \/ Tick \/ Disconnect \/ UNCHANGED vars
BY DEF Next, Handler, Goroutine, Library, Finished

(* The environment's steps and the stuttering ones leave the goroutines,   *)
(* the handler and the slice alone.                                        *)
Quiet == Tick \/ Disconnect \/ UNCHANGED vars
LEMMA QuietChanges ==
  Quiet => UNCHANGED <<checker, method, main, wg, at, expires, err, mu, seen,
                       results, code>>
BY DEF Quiet, Tick, Disconnect, vars, environment

(* What the deadlines are computed from. *)
LEMMA ShapeNumbers ==
  ASSUME Shape
  PROVE  /\ timeout \in Int
         /\ elapsed \in Nat
         /\ \A n \in Names : checkTimeout[n] \in Int
<1>1. timeout \in Timeouts /\ elapsed \in 0..MaxElapsed
  BY DEF Shape
<1>2. elapsed \in Nat
  BY <1>1, MaxElapsedAssumption
<1>3. \A n \in Names : checkTimeout[n] \in CheckTimeouts \union {0}
  BY DEF Shape
<1>4. CheckTimeouts \union {0} \subseteq Int
  BY TimeoutsAssumption
<1> QED
  BY <1>1, <1>2, <1>3, <1>4, TimeoutsAssumption

LEMMA ShapeStep == Shape /\ [Next]_vars => Shape'
<1> SUFFICES ASSUME Shape, [Next]_vars PROVE Shape'
  OBVIOUS
<1> USE DEF Shape, checker, environment, GoroutineLabels
<1>1. ASSUME NEW n \in Names, AddCheck(n) PROVE Shape'
  BY <1>1 DEF AddCheck
<1>2. CASE Serve \/ Reject \/ Accept \/ EndLoop \/ Join \/ Reply
  BY <1>2 DEF Serve, Reject, Accept, EndLoop, Join, Reply
<1>3. ASSUME NEW n \in Names, Spawn(n) PROVE Shape'
  BY <1>3 DEF Spawn
<1>4. ASSUME NEW n \in Names, Begin(n) PROVE Shape'
  <2>1. Deadline(n) \in Int
    BY ShapeNumbers DEF Deadline, Earlier
  <2> QED
    BY <1>4, <2>1 DEF Begin
<1>5. ASSUME NEW n \in Names, NEW e \in {"nil", "err", "panic"},
             NEW l \in {"returned", "unwinding"},
             err' = [err EXCEPT ![n] = e], at' = [at EXCEPT ![n] = l],
             UNCHANGED <<environment, main, wg, expires, mu, seen, results, code>>
      PROVE  Shape'
  BY <1>5
<1>6. ASSUME NEW n \in Names, BeginAppend(n) PROVE Shape'
  BY <1>6 DEF BeginAppend
<1>7. ASSUME NEW n \in Names, EndAppend(n) PROVE Shape'
  <2>1. ResultOf(n) \in Result
    BY DEF ResultOf, Result
  <2>2. Append(seen[n], ResultOf(n)) \in Seq(Result)
    BY <2>1, AppendProperties
  <2> QED
    BY <1>7, <2>2 DEF EndAppend
<1>8. ASSUME NEW n \in Names, Exit(n) PROVE Shape'
  BY <1>8 DEF Exit
<1>9. CASE Die
  BY <1>9 DEF Die
<1>10. CASE Quiet
  <2>1. \/ elapsed' = elapsed + 1 /\ elapsed < MaxElapsed
        \/ elapsed' = elapsed
    BY <1>10 DEF Quiet, Tick, Disconnect, vars
  <2>2. connected' = FALSE \/ connected' = connected
    BY <1>10, Zenon DEF Quiet, Tick, Disconnect, vars
  <2>3. elapsed' \in 0..MaxElapsed
    BY <2>1, MaxElapsedAssumption
  <2>4. connected' \in BOOLEAN
    BY <2>2
  <2>5. UNCHANGED <<checker, method, main, wg, at, expires, err, mu, seen, results, code>>
    BY <1>10, QuietChanges
  <2> QED
    BY <2>3, <2>4, <2>5
<1> HIDE DEF Shape
<1>11. ASSUME NEW n \in Names, CheckReturns(n) PROVE Shape'
  BY <1>5, <1>11 DEF CheckReturns
<1>12. ASSUME NEW n \in Names, CheckPanics(n) PROVE Shape'
  BY <1>5, <1>12 DEF CheckPanics
<1> QED
  BY <1>1, <1>2, <1>3, <1>4, <1>11, <1>12, <1>6, <1>7, <1>8, <1>9, <1>10, Steps DEF Quiet

LEMMA RunningFinite == IsFiniteSet(Running) /\ Cardinality(Running) \in 0..Cardinality(Names)
<1>1. Running \in SUBSET Names
  BY DEF Running
<1> QED
  BY <1>1, FS_Subset, FS_CardinalityType, NamesAssumption

LEMMA CounterStep == HandlerInv /\ [Next]_vars => CounterExact'
<1> SUFFICES ASSUME HandlerInv, [Next]_vars PROVE CounterExact'
  OBVIOUS
<1> USE DEF HandlerInv, CounterExact, Shape, checker, environment
<1>a. /\ IsFiniteSet(Running)
      /\ Cardinality(Running) \in 0..Cardinality(Names)
      /\ Cardinality(Names) \in Nat
  BY RunningFinite, FS_CardinalityType, NamesAssumption
<1>b. ASSUME Running' = Running, wg' = wg, main' # "crashed" => main # "crashed"
      PROVE  CounterExact'
  BY <1>b
<1>1. ASSUME NEW n \in Names, AddCheck(n) PROVE CounterExact'
  BY <1>1, <1>b DEF AddCheck, Running
<1>2. CASE Serve \/ Reject \/ Accept \/ EndLoop \/ Join \/ Reply
  BY <1>2, <1>b DEF Serve, Reject, Accept, EndLoop, Join, Reply, Running
<1>3. ASSUME NEW n \in Names, Spawn(n) PROVE CounterExact'
  <2>1. Running' = Running \union {n} /\ n \notin Running
    BY <1>3 DEF Spawn, Running
  <2>2. Running \union {n} \in SUBSET Names
    BY DEF Running
  <2>3. Cardinality(Running \union {n}) = Cardinality(Running) + 1
    BY <1>a, <2>1, FS_AddElement
  <2>4. Cardinality(Running \union {n}) <= Cardinality(Names)
    BY <2>2, FS_Subset, NamesAssumption
  <2> QED
    BY <1>3, <1>a, <2>1, <2>3, <2>4 DEF Spawn
<1>4. ASSUME NEW n \in Names, Begin(n) \/ CheckReturns(n) \/ CheckPanics(n)
                               \/ BeginAppend(n) \/ EndAppend(n)
      PROVE  CounterExact'
  BY <1>4, <1>b DEF Begin, CheckReturns, CheckPanics, BeginAppend, EndAppend, Running
<1>5. ASSUME NEW n \in Names, Exit(n) PROVE CounterExact'
  <2>1. Running' = Running \ {n} /\ n \in Running
    BY <1>5 DEF Exit, Running
  <2>2. Cardinality(Running \ {n}) = Cardinality(Running) - 1
    BY <1>a, <2>1, FS_RemoveElement
  <2>3. Cardinality(Running) # 0
    BY <1>a, <2>1, FS_EmptySet
  <2>4. main # "crashed"
    BY <1>5 DEF Exit, StagesAgree
  <2> QED
    BY <1>5, <1>a, <2>1, <2>2, <2>3, <2>4 DEF Exit
<1>6. CASE Die
  BY <1>6 DEF Die
<1>7. CASE Quiet
  BY <1>7, <1>b, QuietChanges DEF Running
<1> HIDE DEF CounterExact, HandlerInv, Shape
<1> QED
  BY <1>1, <1>2, <1>3, <1>4, <1>5, <1>6, <1>7, Steps DEF Quiet

(* The goroutine of a check moves, from where the counter counts it.       *)
Counted == {"ready", "running", "returned", "appending", "appended", "unwinding"}

LEMMA StagesStep == HandlerInv /\ [Next]_vars => StagesAgree'
<1> SUFFICES ASSUME HandlerInv, [Next]_vars PROVE StagesAgree'
  OBVIOUS
<1>a. Shape /\ StagesAgree /\ CounterExact
  BY DEF HandlerInv
<1>b. at \in [Names -> GoroutineLabels]
  BY <1>a DEF Shape
<1> USE DEF StagesAgree, checker, environment
<1>c. ASSUME NEW n \in Names, NEW l \in GoroutineLabels \ {"unborn", "killed"},
             at[n] \in Counted, at' = [at EXCEPT ![n] = l],
             UNCHANGED <<checks, main, code>>
      PROVE  StagesAgree'
  <2>1. n \in checks /\ main \notin {"building", "arrived", "verdict", "done", "crashed"}
    BY <1>a, <1>c DEF Counted
  <2> QED
    BY <1>a, <1>b, <1>c, <2>1
<1>1. ASSUME NEW n \in Names, AddCheck(n) PROVE StagesAgree'
  BY <1>1, <1>a DEF AddCheck
<1>2. CASE Serve \/ Reject \/ Accept \/ EndLoop
  BY <1>2, <1>a DEF Serve, Reject, Accept, EndLoop
<1>3. CASE Join
  <2>1. Running = {}
    <3>1. Cardinality(Running) = 0
      BY <1>3, <1>a DEF Join, CounterExact
    <3> QED
      BY <3>1, RunningFinite, FS_EmptySet
  <2>2. \A n \in checks : at[n] = "exited"
    BY <2>1, <1>3, <1>a, <1>b DEF Join, Running, GoroutineLabels, Shape
  <2> QED
    BY <1>3, <1>a, <2>2 DEF Join
<1>4. CASE Reply
  BY <1>4, <1>a DEF Reply
<1>5. ASSUME NEW n \in Names, Spawn(n) PROVE StagesAgree'
  BY <1>5, <1>a, <1>b DEF Spawn
<1>6. ASSUME NEW n \in Names, Begin(n) \/ CheckReturns(n) \/ CheckPanics(n)
                               \/ BeginAppend(n) \/ EndAppend(n) \/ Exit(n)
      PROVE  StagesAgree'
  <2>1. PICK l \in GoroutineLabels \ {"unborn", "killed"} : at' = [at EXCEPT ![n] = l]
    BY <1>6 DEF Begin, CheckReturns, CheckPanics, BeginAppend, EndAppend, Exit,
                GoroutineLabels
  <2>2. at[n] \in Counted /\ UNCHANGED <<checks, main, code>>
    BY <1>6 DEF Begin, CheckReturns, CheckPanics, BeginAppend, EndAppend, Exit, Counted
  <2> QED
    BY <1>c, <2>1, <2>2
<1>7. CASE Die
  BY <1>7, <1>a DEF Die
<1>8. CASE Quiet
  BY <1>8, <1>a, QuietChanges
<1> HIDE DEF StagesAgree
<1> QED
  BY <1>1, <1>2, <1>3, <1>4, <1>5, <1>6, <1>7, <1>8, Steps DEF Quiet

LEMMA VerdictsStep == HandlerInv /\ [Next]_vars => VerdictsAgree'
<1> SUFFICES ASSUME HandlerInv, [Next]_vars PROVE VerdictsAgree'
  OBVIOUS
<1>a. VerdictsAgree /\ StagesAgree
  BY DEF HandlerInv
<1>b. at \in [Names -> GoroutineLabels] /\ err \in [Names -> {"pending", "nil", "err", "panic"}]
  BY DEF HandlerInv, Shape
<1> USE DEF VerdictsAgree, checker, environment
<1>1. ASSUME NEW n \in Names, AddCheck(n) PROVE VerdictsAgree'
  BY <1>1, <1>a DEF AddCheck
<1>2. CASE Serve \/ Reject \/ Accept \/ EndLoop \/ Join \/ Reply
  BY <1>2, <1>a DEF Serve, Reject, Accept, EndLoop, Join, Reply
<1>3. ASSUME NEW n \in Names, Spawn(n) \/ Begin(n) \/ BeginAppend(n) \/ EndAppend(n) \/ Exit(n)
      PROVE  VerdictsAgree'
  BY <1>3, <1>a, <1>b DEF Spawn, Begin, BeginAppend, EndAppend, Exit
<1>4. ASSUME NEW n \in Names, CheckReturns(n) PROVE VerdictsAgree'
  BY <1>4, <1>a, <1>b DEF CheckReturns
<1>5. ASSUME NEW n \in Names, CheckPanics(n) PROVE VerdictsAgree'
  BY <1>5, <1>a, <1>b DEF CheckPanics
<1>6. CASE Die
  BY <1>6 DEF Die
<1>7. CASE Quiet
  BY <1>7, <1>a, QuietChanges
<1> HIDE DEF VerdictsAgree
<1> QED
  BY <1>1, <1>2, <1>3, <1>4, <1>5, <1>6, <1>7, Steps DEF Quiet

LEMMA OwnedStep == HandlerInv /\ [Next]_vars => SliceOwned'
<1> SUFFICES ASSUME HandlerInv, [Next]_vars PROVE SliceOwned'
  OBVIOUS
<1>a. SliceOwned
  BY DEF HandlerInv
<1>b. at \in [Names -> GoroutineLabels] /\ seen \in [Names -> Seq(Result)]
  BY DEF HandlerInv, Shape
<1> USE DEF SliceOwned, checker, environment
<1>1. ASSUME NEW n \in Names, AddCheck(n) PROVE SliceOwned'
  BY <1>1, <1>a DEF AddCheck
<1>2. CASE Serve \/ Reject \/ Accept \/ EndLoop \/ Join \/ Reply
  BY <1>2, <1>a DEF Serve, Reject, Accept, EndLoop, Join, Reply
<1>3. ASSUME NEW n \in Names, Spawn(n) \/ Begin(n) \/ CheckReturns(n) \/ CheckPanics(n)
                               \/ Exit(n)
      PROVE  SliceOwned'
  BY <1>3, <1>a, <1>b DEF Spawn, Begin, CheckReturns, CheckPanics, Exit
<1>4. ASSUME NEW n \in Names, BeginAppend(n) PROVE SliceOwned'
  BY <1>4, <1>a, <1>b, NamesAssumption DEF BeginAppend
<1>5. ASSUME NEW n \in Names, EndAppend(n) PROVE SliceOwned'
  BY <1>5, <1>a, <1>b DEF EndAppend
<1>6. CASE Die
  BY <1>6 DEF Die
<1>7. CASE Quiet
  BY <1>7, <1>a, QuietChanges
<1> HIDE DEF SliceOwned
<1> QED
  BY <1>1, <1>2, <1>3, <1>4, <1>5, <1>6, <1>7, Steps DEF Quiet

LEMMA RecordedFinite == IsFiniteSet(Recorded) /\ Cardinality(Recorded) \in Nat
<1>1. Recorded \in SUBSET Names
  BY DEF Recorded
<1> QED
  BY <1>1, FS_Subset, FS_CardinalityType, NamesAssumption

(* The one step that adds to the slice adds what it has not yet. *)
LEMMA AppendStep ==
  ASSUME HandlerInv, NEW n \in Names, EndAppend(n)
  PROVE  SliceExact'
<1>a. Shape /\ SliceOwned /\ SliceExact /\ VerdictsAgree /\ StagesAgree
  BY DEF HandlerInv
<1>b. /\ at \in [Names -> GoroutineLabels] /\ err \in [Names -> {"pending", "nil", "err", "panic"}]
      /\ results \in Seq(Result)
  BY <1>a DEF Shape
<1>1. at[n] = "appending" /\ at' = [at EXCEPT ![n] = "appended"] /\ err' = err
  BY DEF EndAppend
<1>2. main # "crashed" /\ main' = main
  BY <1>1, <1>a DEF EndAppend, StagesAgree
<1>3. Recorded' = Recorded \union {n} /\ n \notin Recorded
  BY <1>1, <1>b DEF Recorded
<1>4. results' = Append(results, ResultOf(n)) /\ ResultOf(n) \in Result
  BY <1>1, <1>a DEF EndAppend, SliceOwned, ResultOf, Result
<1>5. /\ Len(results') = Len(results) + 1
      /\ \A i \in 1..Len(results) : results'[i] = results[i]
      /\ results'[Len(results) + 1] = ResultOf(n)
  BY <1>4, <1>b, AppendProperties
<1>6. Len(results) \in Nat
  BY <1>b, LenProperties
<1>7. Cardinality(Recorded') = Cardinality(Recorded) + 1
  BY <1>3, RecordedFinite, FS_AddElement
<1>8. Len(results') = Cardinality(Recorded')
  BY <1>a, <1>2, <1>5, <1>7 DEF SliceExact
<1>9. ASSUME NEW i \in 1..Len(results')
       PROVE  (results[i].name \in Recorded /\ results[i] = ResultOf(results[i].name))'
  <2>1. CASE i \in 1..Len(results)
    <3>1. results[i].name \in Recorded /\ results[i] = ResultOf(results[i].name)
      BY <2>1, <1>a, <1>2 DEF SliceExact
    <3> QED
      BY <2>1, <3>1, <1>1, <1>3, <1>5 DEF ResultOf
  <2>2. CASE i = Len(results) + 1
    BY <2>2, <1>1, <1>3, <1>5 DEF ResultOf
  <2> QED
    BY <2>1, <2>2, <1>5, <1>6
<1>10. ASSUME NEW m \in Recorded'
       PROVE  \E i \in 1..Len(results') : results'[i].name = m
  <2>1. CASE m \in Recorded
    <3>1. PICK i \in 1..Len(results) : results[i].name = m
      BY <2>1, <1>a, <1>2 DEF SliceExact
    <3>2. i \in 1..Len(results')
      BY <1>5, <1>6
    <3> QED
      BY <3>1, <3>2, <1>5
  <2>2. CASE m = n
    <3>1. Len(results) + 1 \in 1..Len(results')
      BY <1>5, <1>6
    <3> QED
      BY <2>2, <3>1, <1>5 DEF ResultOf
  <2> QED
    BY <2>1, <2>2, <1>3
<1> QED
  BY <1>8, <1>9, <1>10 DEF SliceExact

LEMMA SliceStep == HandlerInv /\ [Next]_vars => SliceExact'
<1> SUFFICES ASSUME HandlerInv, [Next]_vars PROVE SliceExact'
  OBVIOUS
<1>a. Shape /\ SliceExact /\ VerdictsAgree /\ StagesAgree
  BY DEF HandlerInv
<1>b. at \in [Names -> GoroutineLabels] /\ err \in [Names -> {"pending", "nil", "err", "panic"}]
  BY <1>a DEF Shape
<1>c. ASSUME Recorded' = Recorded, results' = results,
             \A m \in Recorded : err'[m] = err[m],
             main' # "crashed" => main # "crashed"
      PROVE  SliceExact'
  <2>1. \A m \in Recorded : ResultOf(m)' = ResultOf(m)
    BY <1>c DEF ResultOf
  <2>2. CASE main' = "crashed"
    BY <2>2 DEF SliceExact
  <2>3. CASE main' # "crashed"
    BY <2>1, <2>3, <1>a, <1>c DEF SliceExact
  <2> QED
    BY <2>2, <2>3
<1> USE DEF checker, environment
<1>1. ASSUME NEW n \in Names, AddCheck(n) PROVE SliceExact'
  BY <1>1, <1>c DEF AddCheck, Recorded
<1>2. CASE Serve \/ Reject \/ Accept \/ EndLoop \/ Join \/ Reply
  BY <1>2, <1>c DEF Serve, Reject, Accept, EndLoop, Join, Reply, Recorded
<1>3. ASSUME NEW n \in Names, Spawn(n) \/ Begin(n) \/ BeginAppend(n) PROVE SliceExact'
  <2>1. Recorded' = Recorded
    BY <1>3, <1>b DEF Spawn, Begin, BeginAppend, Recorded
  <2> QED
    BY <1>3, <2>1, <1>c DEF Spawn, Begin, BeginAppend
<1>4. ASSUME NEW n \in Names, CheckReturns(n) \/ CheckPanics(n) PROVE SliceExact'
  <2>1. n \notin Recorded
    BY <1>4 DEF CheckReturns, CheckPanics, Recorded
  <2>2. \A m \in Names : m # n => err'[m] = err[m] /\ at'[m] = at[m]
    BY <1>4, <1>b DEF CheckReturns, CheckPanics
  <2>3. at'[n] \in {"returned", "unwinding"}
    BY <1>4, <1>b DEF CheckReturns, CheckPanics
  <2>4. Recorded' = Recorded
    BY <2>1, <2>2, <2>3 DEF Recorded
  <2>5. \A m \in Recorded : err'[m] = err[m]
    BY <2>1, <2>2 DEF Recorded
  <2> QED
    BY <1>4, <2>4, <2>5, <1>c DEF CheckReturns, CheckPanics
<1>5. ASSUME NEW n \in Names, EndAppend(n) PROVE SliceExact'
  BY <1>5, AppendStep
<1>6. ASSUME NEW n \in Names, Exit(n) PROVE SliceExact'
  <2>1. Recorded' = Recorded
    BY <1>6, <1>a, <1>b DEF Exit, Recorded, VerdictsAgree
  <2> QED
    BY <1>6, <2>1, <1>c DEF Exit
<1>7. CASE Die
  BY <1>7 DEF Die, SliceExact
<1>8. CASE Quiet
  <2>1. Recorded' = Recorded
    BY <1>8, QuietChanges DEF Recorded
  <2> QED
    BY <1>8, <2>1, <1>c, QuietChanges
<1> QED
  BY <1>1, <1>2, <1>3, <1>4, <1>5, <1>6, <1>7, <1>8, Steps DEF Quiet

LEMMA DeadlinesStep == HandlerInv /\ [Next]_vars => DeadlinesNest'
<1> SUFFICES ASSUME HandlerInv, [Next]_vars PROVE DeadlinesNest'
  OBVIOUS
<1>a. Shape /\ DeadlinesNest
  BY DEF HandlerInv
<1>b. at \in [Names -> GoroutineLabels] /\ expires \in [Names -> Int]
  BY <1>a DEF Shape
<1>c. ASSUME \A n \in Names : at'[n] = "running" => at[n] = "running",
             UNCHANGED <<timeout, expires>>
      PROVE  DeadlinesNest'
  BY <1>a, <1>c DEF DeadlinesNest
<1> USE DEF checker, environment
<1>1. ASSUME NEW n \in Names, AddCheck(n) PROVE DeadlinesNest'
  BY <1>1, <1>c DEF AddCheck
<1>2. CASE Serve \/ Reject \/ Accept \/ EndLoop \/ Join \/ Reply
  BY <1>2, <1>c DEF Serve, Reject, Accept, EndLoop, Join, Reply
<1>3. ASSUME NEW n \in Names, Begin(n) PROVE DeadlinesNest'
  <2>1. Deadline(n) <= timeout
    BY <1>a, ShapeNumbers DEF Deadline, Earlier
  <2> QED
    BY <1>3, <1>a, <1>b, <2>1 DEF Begin, DeadlinesNest
<1>4. ASSUME NEW n \in Names, Spawn(n) \/ CheckReturns(n) \/ CheckPanics(n)
                               \/ BeginAppend(n) \/ EndAppend(n) \/ Exit(n)
      PROVE  DeadlinesNest'
  BY <1>4, <1>b, <1>c DEF Spawn, CheckReturns, CheckPanics, BeginAppend, EndAppend, Exit
<1>5. CASE Die
  BY <1>5, <1>c DEF Die
<1>6. CASE Quiet
  BY <1>6, <1>c, QuietChanges
<1> QED
  BY <1>1, <1>2, <1>3, <1>4, <1>5, <1>6, Steps DEF Quiet

-----------------------------------------------------------------------------
(* What the code keeps true of its goroutines, its WaitGroup, its mutex    *)
(* and its slice, whatever the checks do and however they interleave       *)
(* (health.go:104-135).                                                    *)
THEOREM HandlerInvariant == Spec => []HandlerInv
<1>1. HandlerInv /\ [Next]_vars => HandlerInv'
  BY ShapeStep, CounterStep, StagesStep, VerdictsStep, OwnedStep, SliceStep,
     DeadlinesStep DEF HandlerInv
<1> QED
  BY <1>1, InitHandlerInv, PTL DEF Spec

(* Every variable keeps its type; above all the WaitGroup's counter never  *)
(* goes negative, which would be a panic (health.go:105-108).              *)
THEOREM TypeCorrect == Spec => []TypeOK
<1>1. HandlerInv => TypeOK
  BY DEF HandlerInv, Shape, CounterExact, TypeOK
<1> QED
  BY <1>1, HandlerInvariant, PTL

(* The handler builds its reply only when every goroutine it started has   *)
(* exited, and with a result from each but those whose check panicked.     *)
THEOREM JoinsAllCorrect == Spec => []JoinsAll
<1>1. HandlerInv => JoinsAll
  <2> SUFFICES ASSUME HandlerInv, main \in {"verdict", "done"}, code # 405
               PROVE  /\ \A n \in checks : at[n] = "exited"
                      /\ Len(results) = Cardinality(checks \ Panicked)
    BY DEF JoinsAll
  <2>1. \A n \in checks : at[n] = "exited"
    BY DEF HandlerInv, StagesAgree
  <2>2. checks \ Panicked = Recorded
    BY <2>1 DEF HandlerInv, Shape, StagesAgree, VerdictsAgree, Panicked, Recorded
  <2>3. Len(results) = Cardinality(Recorded)
    BY DEF HandlerInv, SliceExact
  <2> QED
    BY <2>1, <2>2, <2>3
<1> QED
  BY <1>1, HandlerInvariant, PTL

(* Once the Checker's timeout has passed, the context of every check that  *)
(* still runs is done (health.go:110-114).                                 *)
THEOREM DeadlineCorrect == Spec => []NoContextOutlivesTimeout
<1>1. HandlerInv => NoContextOutlivesTimeout
  <2> SUFFICES ASSUME HandlerInv, NEW n \in checks, at[n] = "running", elapsed >= timeout
               PROVE  elapsed >= expires[n]
    BY DEF NoContextOutlivesTimeout, CtxDone
  <2>1. n \in Names /\ expires[n] \in Int
    BY DEF HandlerInv, Shape
  <2>2. timeout \in Int /\ elapsed \in Int
    BY ShapeNumbers DEF HandlerInv
  <2>3. expires[n] <= timeout
    BY <2>1 DEF HandlerInv, DeadlinesNest
  <2> QED
    BY <2>1, <2>2, <2>3
<1> QED
  BY <1>1, HandlerInvariant, PTL

-----------------------------------------------------------------------------
(* An instance has its own name for what it takes from FiniteSets. *)
LEMMA SameCardinality == \A S : Report!Cardinality(S) = Cardinality(S)
BY DEF Report!Cardinality, Cardinality

(* The reply is an answer HealthReport allows: what is listed is a listing *)
(* of the checks that did not panic, each with what it said.               *)
LEMMA ReplyAnswers == ASSUME HandlerInv, Reply PROVE Report!Answer
<1>a. Shape /\ StagesAgree /\ VerdictsAgree /\ SliceExact
  BY DEF HandlerInv
<1>1. main = "verdict" /\ code = 0
  BY <1>a DEF Reply, StagesAgree
<1>2. \A n \in checks : at[n] = "exited" /\ err[n] # "pending"
  BY <1>1, <1>a DEF StagesAgree, VerdictsAgree, Shape
<1>3. Report!Told = Recorded
  BY <1>1, <1>2, <1>a DEF Report!Told, Recorded, StagesAgree, VerdictsAgree, Shape
<1>4. /\ Len(results) = Cardinality(Report!Told)
      /\ Len(results) \in Nat
      /\ results \in [1..Len(results) -> Result]
  BY <1>1, <1>3, <1>a, LenProperties DEF SliceExact, Shape
<1>5. \A i \in 1..Len(results) :
         /\ results[i].name \in Recorded
         /\ results[i] = [name |-> results[i].name, healthy |-> Report!Healthy(results[i].name)]
  BY <1>1, <1>a DEF SliceExact, ResultOf, Report!Healthy
<1>6. AllHealthy <=> \A n \in Report!Told : Report!Healthy(n)
  <2>1. AllHealthy <=> \A i \in 1..Len(results) : Report!Healthy(results[i].name)
    BY <1>4, <1>5 DEF AllHealthy
  <2>2. \A n \in Recorded : \E i \in 1..Len(results) : results[i].name = n
    BY <1>1, <1>a DEF SliceExact
  <2> QED
    BY <2>1, <2>2, <1>3, <1>5
<1> DEFINE f == [i \in 1..Len(results) |-> results[i].name]
<1>7. f \in Report!Listings
  <2>1. f \in [1..Cardinality(Report!Told) -> Report!Told]
    BY <1>3, <1>4, <1>5
  <2>2. \A n \in Report!Told : \E i \in 1..Cardinality(Report!Told) : f[i] = n
    BY <1>1, <1>3, <1>4, <1>a DEF SliceExact
  <2> QED
    BY <2>1, <2>2, SameCardinality DEF Report!Listings
<1>8. results = [i \in 1..Cardinality(Report!Told) |->
                    [name |-> f[i], healthy |-> Report!Healthy(f[i])]]
  BY <1>4, <1>5
<1>9. code' \in {200, 503} /\ UNCHANGED <<checks, err, results>>
  BY DEF Reply, environment, checker
<1> HIDE DEF f
<1>10. code' = IF \A n \in Report!Told : Report!Healthy(n) THEN 200 ELSE 503
  BY <1>6 DEF Reply
<1>11. (IF code \in {200, 503} THEN results ELSE <<>>)' = results
  BY <1>9
<1>12. \E g \in Report!Listings :
         (IF code \in {200, 503} THEN results ELSE <<>>)'
            = [i \in 1..Report!Cardinality(Report!Told) |->
                  [name |-> g[i], healthy |-> Report!Healthy(g[i])]]
  <2>1. Report!Cardinality(Report!Told) = Cardinality(Report!Told)
    BY SameCardinality
  <2> QED
    BY <1>7, <1>8, <1>11, <2>1
<1>13. \A n \in checks : err[n] # "pending"
  BY <1>2
<1> QED
  BY <1>1, <1>9, <1>10, <1>12, <1>13, Zenon DEF Report!Answer

LEMMA ReportStep == HandlerInv /\ [Next]_vars => [Report!Next]_(Report!vars)
<1> SUFFICES ASSUME HandlerInv, [Next]_vars PROVE Report!Next \/ UNCHANGED Report!vars
  OBVIOUS
<1>a. Shape /\ StagesAgree /\ VerdictsAgree
  BY DEF HandlerInv
<1>b. ASSUME UNCHANGED <<checks, err, code>>, code = 0 \/ results' = results
      PROVE  UNCHANGED Report!vars
  BY <1>b DEF Report!vars
<1>c. ASSUME NEW n \in Names, at[n] \in Counted
      PROVE  n \in checks /\ code = 0
  BY <1>a, <1>c DEF StagesAgree, Counted
<1> USE DEF checker, environment
<1>1. ASSUME NEW n \in Names, AddCheck(n) PROVE Report!Next
  <2>1. code = 0 /\ Report!Untouched
    BY <1>1, <1>a DEF AddCheck, StagesAgree, VerdictsAgree, Report!Untouched
  <2>2. Report!Register(n)
    BY <1>1, <2>1 DEF AddCheck, Report!Register
  <2> QED
    BY <2>2 DEF Report!Next
<1>2. ASSUME NEW n \in Names, NEW e \in {"nil", "err", "panic"}, at[n] = "running",
             err' = [err EXCEPT ![n] = e], UNCHANGED <<checks, code, results>>
      PROVE  Report!Next
  <2>1. n \in checks /\ code = 0 /\ err[n] = "pending"
    BY <1>2, <1>c, <1>a DEF Counted, VerdictsAgree
  <2>2. Report!Decide(n)
    BY <1>2, <2>1 DEF Report!Decide
  <2> QED
    BY <2>2 DEF Report!Next
<1>3. ASSUME NEW n \in Names, CheckReturns(n) PROVE Report!Next
  BY <1>2, <1>3 DEF CheckReturns
<1>4. ASSUME NEW n \in Names, CheckPanics(n) PROVE Report!Next
  BY <1>2, <1>4 DEF CheckPanics
<1>5. CASE Reply
  BY <1>5, ReplyAnswers DEF Report!Next
<1>6. CASE Reject
  <2>1. code = 0 /\ Report!Untouched
    BY <1>6, <1>a DEF Reject, StagesAgree, VerdictsAgree, Report!Untouched
  <2>2. Report!Refuse
    BY <1>6, <2>1 DEF Reject, Report!Refuse
  <2> QED
    BY <2>2 DEF Report!Next
<1>7. ASSUME NEW n \in Names, Spawn(n) \/ Begin(n) \/ BeginAppend(n) \/ Exit(n)
      PROVE  UNCHANGED Report!vars
  BY <1>7, <1>b DEF Spawn, Begin, BeginAppend, Exit
<1>8. ASSUME NEW n \in Names, EndAppend(n) PROVE UNCHANGED Report!vars
  BY <1>8, <1>b, <1>c DEF EndAppend, Counted
<1>9. CASE Serve \/ Accept \/ EndLoop \/ Join \/ Die
  BY <1>9, <1>b DEF Serve, Accept, EndLoop, Join, Die
<1>10. CASE Quiet
  BY <1>10, <1>b, QuietChanges
<1> QED
  BY <1>1, <1>3, <1>4, <1>5, <1>6, <1>7, <1>8, <1>9, <1>10, Steps DEF Quiet

(* The handler implements the report its poller relies on: one verdict per *)
(* check, each listed once with what it said, 200 only when all listed are *)
(* healthy, none left out but a check that panicked (health.go:106-155).   *)
THEOREM ReportCorrect == Spec => ImplementsReport
<1>1. Init => Report!Init
  BY DEF Init, Report!Init
<1> QED
  BY <1>1, ReportStep, HandlerInvariant, PTL DEF Spec, ImplementsReport, Report!Spec
=============================================================================
