----------------------- MODULE CachedCheckHistoryProofs -----------------------
(***************************************************************************)
(* Why a CachedCheck that is polled while the dependency is down reports   *)
(* it, and what it takes to break that.  A call that probes has found the  *)
(* last success expired, and an expired success stays expired until        *)
(* another is recorded; so an outage that was reported with no success     *)
(* recorded since the report's own call began leaves nothing in the cache  *)
(* to answer later calls with, and those see the outage themselves.        *)
(***************************************************************************)
EXTENDS CachedCheckHistory, CachedCheckProofs

HistoryTypes ==
    /\ sawDown \subseteq Callers /\ knew \subseteq Callers /\ crossed \subseteq Callers
    /\ reported \in BOOLEAN /\ overlapped \in BOOLEAN
    /\ probes \in 0..ProbeCap

(* A call that probes found nothing fresh, and nothing has been recorded   *)
(* since unless another call crossed it.                                   *)
ProbesWhenStale ==
    \A c \in Callers : pc[c] \in {"probing", "probed"} /\ c \notin crossed => ~Fresh

(* A reported outage leaves nothing fresh, overlapping calls apart.        *)
ReportedStale == reported /\ ~overlapped => ~Fresh

(* The calls that began after the report see the outage, and record        *)
(* nothing.                                                                *)
KnewIsDown ==
    \A c \in knew : /\ ~up /\ reported
                    /\ pc[c] \notin {"relock", "stamping", "storing"}
                    /\ pc[c] = "probed" => ~saw[c]

HistoryInv ==
    /\ CacheInv
    /\ HistoryTypes
    /\ ProbesWhenStale
    /\ ReportedStale
    /\ KnewIsDown
    /\ FlapNeedsOverlap

-----------------------------------------------------------------------------
(* What one step may do to one call.  A call enters its probe either       *)
(* because it found nothing fresh or, where the TTL disables the cache,    *)
(* when it begins; it is about to record, or returns nil, only if it saw a *)
(* success or found a fresh one.                                           *)
Moves(c) ==
    /\ Began(c) => pc'[c] \in {"lookup", "probing"} /\ answer'[c] = "none"
    /\ Began(c) /\ pc'[c] = "probing" => TTL <= 0 /\ lastOK' = lastOK /\ now' = now
    /\ pc'[c] \in {"probing", "probed"} =>
          Began(c) \/ pc[c] \in {"probing", "probed"} \/ ~Fresh
    /\ pc'[c] = "probed" => \/ pc[c] = "probed" /\ saw'[c] = saw[c]
                            \/ ~up => ~saw'[c]
    /\ pc'[c] \in {"relock", "stamping", "storing"} =>
          \/ pc[c] \in {"relock", "stamping", "storing"}
          \/ pc[c] = "probed" /\ saw[c]
    /\ answer'[c] = "nil" => \/ answer[c] = "nil"
                             \/ Fresh
                             \/ pc[c] = "storing"
                             \/ pc[c] = "probed" /\ saw[c]
    /\ Failed(c) => /\ pc[c] = "probed" /\ lastOK' = lastOK
                    /\ \A d \in Callers \ {c} : pc'[d] = pc[d]

(* Only a store changes lastOK, and the clock does not go back.            *)
Advances ==
    /\ now' >= now
    /\ lastOK' # lastOK => \E c \in Callers : Stored(c)

LEMMA StepMoves ==
  ASSUME CacheInv, [Next]_vars
  PROVE  Advances /\ \A d \in Callers : Moves(d)
<1> USE TTLAssumption, MaxNowAssumption, NoCallerAssumption
    DEF CacheInv, TypeOK, Labels, Advances, Moves, Began, Stored, Failed
<1>1. ASSUME NEW c \in Callers, Call(c) PROVE Advances /\ \A d \in Callers : Moves(d)
  BY <1>1 DEF Call, Goto, Passthrough
<1>2. ASSUME NEW c \in Callers, LockLookup(c) PROVE Advances /\ \A d \in Callers : Moves(d)
  BY <1>2 DEF LockLookup, Goto
<1>3. ASSUME NEW c \in Callers, Hit(c) PROVE Advances /\ \A d \in Callers : Moves(d)
  BY <1>3 DEF Hit, Return, Goto
<1>4. ASSUME NEW c \in Callers, Miss(c) PROVE Advances /\ \A d \in Callers : Moves(d)
  BY <1>4 DEF Miss, Goto
<1>5. ASSUME NEW c \in Callers, Observe(c) PROVE Advances /\ \A d \in Callers : Moves(d)
  <2>1. pc[c] = "probing" /\ pc' = [pc EXCEPT ![c] = "probed"]
    BY <1>5 DEF Observe, Goto
  <2>2. ~up => ~saw'[c]
    <3>1. PICK ok \in {FALSE, up} : saw' = [saw EXCEPT ![c] = ok]
      BY <1>5 DEF Observe
    <3>2. saw'[c] = ok
      BY <3>1
    <3>3. ok = FALSE \/ ok = up
      OBVIOUS
    <3> QED
      BY <3>2, <3>3
  <2>3. UNCHANGED <<now, lastOK, answer>> /\ \A d \in Callers \ {c} : saw'[d] = saw[d]
    BY <1>5 DEF Observe
  <2> QED
    BY <2>1, <2>2, <2>3
<1>6. ASSUME NEW c \in Callers, Fail(c) PROVE Advances /\ \A d \in Callers : Moves(d)
  BY <1>6 DEF Fail, Return, Goto
<1>7. ASSUME NEW c \in Callers, Succeed(c) PROVE Advances /\ \A d \in Callers : Moves(d)
  BY <1>7 DEF Succeed, Return, Goto
<1>8. ASSUME NEW c \in Callers, LockStore(c) PROVE Advances /\ \A d \in Callers : Moves(d)
  BY <1>8 DEF LockStore, Goto
<1>9. ASSUME NEW c \in Callers, ReadClock(c) PROVE Advances /\ \A d \in Callers : Moves(d)
  BY <1>9 DEF ReadClock, Goto
<1>10. ASSUME NEW c \in Callers, Store(c) PROVE Advances /\ \A d \in Callers : Moves(d)
  BY <1>10 DEF Store, Return, Goto
<1>11. CASE Tick
  BY <1>11 DEF Tick
<1>12. CASE Flip
  BY <1>12 DEF Flip
<1>13. CASE UNCHANGED vars
  BY <1>13 DEF vars
<1> QED
  BY <1>1, <1>2, <1>3, <1>4, <1>5, <1>6, <1>7, <1>8, <1>9, <1>10, <1>11,
     <1>12, <1>13
  DEF Next, CallerStep, Proceed

(* Nothing becomes fresh by the passage of time.                           *)
LEMMA StaleStays ==
  ASSUME CacheInv, CacheInv', Advances, ~Fresh, lastOK' = lastOK
  PROVE  ~Fresh'
<1>1. /\ now \in 0..MaxNow /\ now' \in 0..MaxNow
      /\ lastOK \in (0..MaxNow) \union {Never}
  BY DEF CacheInv, TypeOK
<1>2. now \in Nat /\ now' \in Nat /\ now' >= now
  BY <1>1, MaxNowAssumption DEF Advances
<1>3. CASE lastOK = Never
  BY <1>3 DEF Fresh
<1>4. CASE lastOK \in Nat
  <2>1. now - lastOK >= TTL
    BY <1>2, <1>4, TTLAssumption DEF Fresh, Never
  <2>2. \A n, m, k \in Nat, t \in Int : m >= n /\ n - k >= t => ~(m - k < t)
    OBVIOUS
  <2>3. ~(now' - lastOK < TTL)
    BY <1>2, <1>4, <2>1, <2>2, TTLAssumption, Zenon
  <2> QED
    BY <2>3 DEF Fresh
<1> QED
  BY <1>1, <1>3, <1>4, MaxNowAssumption

LEMMA InitHistoryInv == HInit => HistoryInv
<1> SUFFICES ASSUME HInit PROVE HistoryInv
  OBVIOUS
<1>1. CacheInv /\ ~Fresh
  BY InitCacheInv DEF HInit, Init, Fresh
<1>2. HistoryTypes
  <2>1. probes \in 0..ProbeCap
    BY DEF HInit, ProbeCap
  <2> QED
    BY <2>1, Zenon DEF HInit, HistoryTypes
<1> QED
  BY <1>1, <1>2
  DEF HInit, HistoryInv, ProbesWhenStale, ReportedStale, KnewIsDown, FlapNeedsOverlap

(* One step of a caller, the clock or the dependency, with its history.    *)
LEMMA HistoryStep == HistoryInv /\ [HNext]_hvars => HistoryInv'
<1> SUFFICES ASSUME HistoryInv, [HNext]_hvars
             PROVE  HistoryInv'
  OBVIOUS
<1>0. CASE UNCHANGED hvars
  BY <1>0
  DEF hvars, vars, history, HistoryInv, CacheInv, TypeOK, MutexDiscipline,
      RecordedInOrder, HistoryTypes, ProbesWhenStale, ReportedStale, KnewIsDown,
      FlapNeedsOverlap, Fresh
<1>1. CASE HNext
  <2>1. CacheInv /\ [Next]_vars /\ Remember
    BY <1>1 DEF HNext, HistoryInv
  <2>2. CacheInv'
    BY <2>1, TypeStep, MutexStep, OrderStep DEF CacheInv
  <2>3. Advances /\ \A d \in Callers : Moves(d)
    BY <2>1, StepMoves
  <2>4. HistoryTypes'
    <3>1. /\ sawDown' \subseteq Callers /\ knew' \subseteq Callers
          /\ crossed' \subseteq Callers
      BY <2>1 DEF Remember
    <3>2. reported' \in BOOLEAN /\ overlapped' \in BOOLEAN
      BY <2>1, Zenon DEF Remember
    <3>3. probes' \in 0..ProbeCap
      <4>1. \/ probes' = 0
            \/ probes' = probes
            \/ probes < ProbeCap /\ probes' = probes + 1
        BY <2>1, Zenon DEF Remember
      <4> QED
        BY <4>1 DEF HistoryInv, HistoryTypes, ProbeCap
    <3> QED
      BY <3>1, <3>2, <3>3 DEF HistoryTypes
  <2>5. ProbesWhenStale'
    <3> SUFFICES ASSUME NEW c \in Callers, pc'[c] \in {"probing", "probed"},
                        c \notin crossed'
                 PROVE  ~Fresh'
      BY DEF ProbesWhenStale
    <3>1. CASE Began(c)
      <4>1. TTL <= 0 /\ lastOK' = lastOK /\ now' = now
        BY <2>3, <3>1 DEF Moves, Began
      <4> QED
        BY <2>2, <4>1, TTLAssumption, MaxNowAssumption
        DEF CacheInv, TypeOK, RecordedInOrder, Fresh, Never
    <3>2. CASE ~Began(c)
      <4>1. c \notin crossed /\ \A d \in Callers : ~Stored(d)
        BY <2>1, <3>2 DEF Remember
      <4>2. lastOK' = lastOK
        BY <2>3, <4>1 DEF Advances
      <4>3. ~Fresh
        BY <2>3, <3>2, <4>1 DEF Moves, HistoryInv, ProbesWhenStale
      <4> QED
        BY <2>1, <2>2, <2>3, <4>2, <4>3, StaleStays
    <3> QED
      BY <3>1, <3>2
  <2>6. ReportedStale'
    <3> SUFFICES ASSUME reported', ~overlapped'
                 PROVE  ~Fresh'
      BY DEF ReportedStale
    <3>1. /\ reported \/ \E c \in sawDown : Failed(c)
          /\ ~overlapped
          /\ \A c \in sawDown \cap crossed : ~Failed(c)
          /\ reported => \A d \in Callers : ~Stored(d)
      BY <2>1, Zenon DEF Remember
    <3>2. ~Fresh /\ lastOK' = lastOK
      <4>1. CASE reported
        BY <2>3, <3>1, <4>1 DEF Advances, HistoryInv, ReportedStale
      <4>2. ASSUME NEW c \in sawDown, Failed(c) PROVE ~Fresh /\ lastOK' = lastOK
        <5>1. c \in Callers /\ c \notin crossed
          BY <3>1, <4>2 DEF HistoryInv, HistoryTypes
        <5>2. pc[c] = "probed" /\ lastOK' = lastOK
          BY <2>3, <4>2, <5>1 DEF Moves
        <5> QED
          BY <5>1, <5>2 DEF HistoryInv, ProbesWhenStale
      <4> QED
        BY <3>1, <4>1, <4>2
    <3> QED
      BY <2>1, <2>2, <2>3, <3>2, StaleStays
  <2>7. ASSUME NEW c \in knew'
        PROVE  /\ c \in Callers /\ ~up' /\ reported'
               /\ Began(c) \/ (c \in knew /\ ~up /\ reported)
    <3>1. c \in Callers /\ ~up' /\ IF Began(c) THEN reported ELSE c \in knew
      BY <2>1, <2>7 DEF Remember
    <3>2. c \in knew => ~up /\ reported
      BY DEF HistoryInv, KnewIsDown
    <3>3. reported => reported'
      BY <2>1, <3>1, Zenon DEF Remember
    <3> QED
      BY <3>1, <3>2, <3>3
  <2>8. KnewIsDown'
    <3> SUFFICES ASSUME NEW c \in knew'
                 PROVE  /\ ~up' /\ reported'
                        /\ pc'[c] \notin {"relock", "stamping", "storing"}
                        /\ pc'[c] = "probed" => ~saw'[c]
      BY DEF KnewIsDown
    <3>1. CASE Began(c)
      BY <2>3, <2>7, <3>1 DEF Moves
    <3>2. CASE c \in knew /\ ~up
      BY <2>3, <2>7, <3>2 DEF Moves, HistoryInv, KnewIsDown
    <3> QED
      BY <2>7, <3>1, <3>2
  <2>9. FlapNeedsOverlap'
    <3> SUFFICES ASSUME NEW c \in knew', answer'[c] = "nil"
                 PROVE  overlapped'
      BY DEF FlapNeedsOverlap
    <3>1. c \in knew /\ reported /\ ~up'
      BY <2>3, <2>7 DEF Moves
    <3>2. answer[c] = "nil" \/ Fresh
      BY <2>3, <2>7, <3>1 DEF Moves, HistoryInv, KnewIsDown
    <3>3. overlapped
      BY <3>1, <3>2 DEF HistoryInv, ReportedStale, FlapNeedsOverlap
    <3> QED
      BY <2>1, <3>1, <3>3, Zenon DEF Remember
  <2> QED
    BY <2>2, <2>4, <2>5, <2>6, <2>8, <2>9 DEF HistoryInv
<1> QED
  BY <1>0, <1>1

(* The history's invariant holds in every reachable state, whatever the    *)
(* callers, the TTL and the clock are.                                     *)
THEOREM HistoryInvariant == HSpec => []HistoryInv
BY InitHistoryInv, HistoryStep, PTL DEF HSpec

(* A call that began after the report of an outage that still lasts        *)
(* returns nil only if a success was recorded during, or after, a call     *)
(* that reported it (checks.go:66-78).                                     *)
THEOREM FlapCorrect == HSpec => []FlapNeedsOverlap
BY HistoryInvariant, PTL DEF HistoryInv

-----------------------------------------------------------------------------
(* Calls that do not overlap: one begins after the other has returned.     *)
Sequential == \A c, d \in Callers : pc[c] # "idle" /\ pc[d] # "idle" => c = d

(* Then no call is crossed, and one in progress in a reported outage began *)
(* after the report.                                                       *)
NoneOverlap ==
    /\ crossed = {} /\ ~overlapped
    /\ \A c \in Callers : reported /\ pc[c] # "idle" => c \in knew

LEMMA SequentialStep ==
  HistoryInv /\ NoneOverlap /\ Sequential /\ [HNext]_hvars => NoneOverlap'
<1> SUFFICES ASSUME HistoryInv, NoneOverlap, Sequential, [HNext]_hvars
             PROVE  NoneOverlap'
  OBVIOUS
<1>0. CASE UNCHANGED hvars
  BY <1>0 DEF hvars, vars, history, NoneOverlap
<1>1. CASE HNext
  <2>1. CacheInv /\ [Next]_vars /\ Remember
    BY <1>1 DEF HNext, HistoryInv
  <2>2. \A d \in Callers : Moves(d)
    BY <2>1, StepMoves
  <2>3. crossed' = {}
    <3> SUFFICES ASSUME NEW c \in crossed' PROVE FALSE
      OBVIOUS
    <3>1. /\ c \in Callers /\ pc'[c] # "idle" /\ ~Began(c)
          /\ \E d \in Callers : Stored(d)
      BY <2>1 DEF Remember, NoneOverlap
    <3> QED
      BY <3>1 DEF Began, Stored, Sequential
  <2>4. reported => \A d \in Callers : ~Stored(d)
    BY DEF Stored, NoneOverlap, HistoryInv, KnewIsDown
  <2>5. ~overlapped'
    <3>1. ~overlapped /\ sawDown \cap crossed = {}
      BY DEF NoneOverlap
    <3> QED
      BY <2>1, <2>4, <3>1, Zenon DEF Remember
  <2>6. ASSUME NEW c \in Callers, reported', pc'[c] # "idle"
        PROVE  c \in knew'
    <3>1. ~up' /\ (reported \/ \E d \in sawDown : Failed(d))
      BY <2>1, <2>6, Zenon DEF Remember
    <3>2. ASSUME NEW d \in sawDown, Failed(d) PROVE FALSE
      <4>1. d \in Callers
        BY DEF HistoryInv, HistoryTypes
      <4>2. d # c /\ pc[d] # "idle"
        BY <2>6, <3>2 DEF Failed
      <4>3. pc'[c] = pc[c]
        BY <2>2, <3>2, <4>1, <4>2 DEF Moves
      <4> QED
        BY <2>6, <4>1, <4>2, <4>3 DEF Sequential
    <3>3. reported
      BY <3>1, <3>2
    <3>4. Began(c) \/ c \in knew
      BY <2>6, <3>3 DEF Began, NoneOverlap
    <3> QED
      BY <2>1, <3>1, <3>3, <3>4 DEF Remember
  <2> QED
    BY <2>3, <2>5, <2>6 DEF NoneOverlap
<1> QED
  BY <1>0, <1>1

(* As long as no two calls overlap, whoever makes them, an outage that was *)
(* reported is reported by every later call for as long as it lasts: the   *)
(* promise of checks.go:54-55, which overlapping calls can break.          *)
THEOREM SequentialDetects == HSpec /\ []Sequential => []FailureDetected
<1>1. HInit => NoneOverlap
  BY DEF HInit, Init, NoneOverlap
<1>2. HistoryInv /\ NoneOverlap => FailureDetected
  BY DEF HistoryInv, FlapNeedsOverlap, NoneOverlap, FailureDetected
<1> QED
  BY HistoryInvariant, SequentialStep, <1>1, <1>2, PTL DEF HSpec
=============================================================================
