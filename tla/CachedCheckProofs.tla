-------------------------- MODULE CachedCheckProofs --------------------------
(***************************************************************************)
(* What CachedCheck does for any set of callers, any TTL and any bound on  *)
(* the clock.  CacheInv is inductive: that two calls never own mu together *)
(* needs who owns it at each label, and that a lookup is exact needs that  *)
(* a reading of the clock, taken under mu, is still the newest when it is  *)
(* stored.                                                                 *)
(***************************************************************************)
EXTENDS CachedCheck, TLAPS

CacheInv == TypeOK /\ MutexDiscipline /\ RecordedInOrder

LEMMA InitCacheInv == Init => CacheInv
BY NoCallerAssumption, MaxNowAssumption
   DEF Init, CacheInv, TypeOK, MutexDiscipline, RecordedInOrder, Labels,
       Critical, Never

(* Types: every step of the model stays within the sets TypeOK names.      *)
LEMMA TypeStep == CacheInv /\ [Next]_vars => TypeOK'
<1> SUFFICES ASSUME CacheInv, [Next]_vars
             PROVE  TypeOK'
  OBVIOUS
<1> USE NoCallerAssumption, MaxNowAssumption DEF CacheInv, TypeOK, Labels
<1>1. ASSUME NEW c \in Callers, Call(c) PROVE TypeOK'
  BY <1>1 DEF Call, Goto
<1>2. ASSUME NEW c \in Callers, LockLookup(c) PROVE TypeOK'
  BY <1>2 DEF LockLookup, Lock, Goto
<1>3. ASSUME NEW c \in Callers, Hit(c) PROVE TypeOK'
  BY <1>3 DEF Hit, Unlock, Return, Goto
<1>4. ASSUME NEW c \in Callers, Miss(c) PROVE TypeOK'
  BY <1>4 DEF Miss, Unlock, Goto
<1>5. ASSUME NEW c \in Callers, Observe(c) PROVE TypeOK'
  <2>1. saw' \in [Callers -> BOOLEAN]
    <3>1. PICK ok \in {FALSE, up} : saw' = [saw EXCEPT ![c] = ok]
      BY <1>5 DEF Observe
    <3>2. ok \in BOOLEAN
      BY Zenon
    <3> QED
      BY <3>1, <3>2, Zenon
  <2>2. pc' \in [Callers -> Labels]
    BY <1>5 DEF Observe, Goto
  <2> QED
    BY <1>5, <2>1, <2>2 DEF Observe
<1>6. ASSUME NEW c \in Callers, Fail(c) PROVE TypeOK'
  BY <1>6 DEF Fail, Return, Goto
<1>7. ASSUME NEW c \in Callers, Succeed(c) PROVE TypeOK'
  BY <1>7 DEF Succeed, Return, Goto
<1>8. ASSUME NEW c \in Callers, LockStore(c) PROVE TypeOK'
  BY <1>8 DEF LockStore, Lock, Goto
<1>9. ASSUME NEW c \in Callers, ReadClock(c) PROVE TypeOK'
  BY <1>9 DEF ReadClock, Goto
<1>10. ASSUME NEW c \in Callers, Store(c) PROVE TypeOK'
  BY <1>10 DEF Store, Unlock, Return, Goto
<1>11. CASE Tick
  BY <1>11 DEF Tick
<1>12. CASE Flip
  BY <1>12 DEF Flip
<1>13. CASE UNCHANGED vars
  BY <1>13 DEF vars
<1> QED
  BY <1>1, <1>2, <1>3, <1>4, <1>5, <1>6, <1>7, <1>8, <1>9, <1>10, <1>11,
     <1>12, <1>13
  DEF Next, CallerStep, Proceed

(* The mutex: a label inside a critical section is entered with mu free    *)
(* and left with mu released.                                              *)
LEMMA MutexStep == CacheInv /\ [Next]_vars => MutexDiscipline'
<1> SUFFICES ASSUME CacheInv, [Next]_vars
             PROVE  MutexDiscipline'
  OBVIOUS
<1> USE NoCallerAssumption DEF CacheInv, TypeOK, MutexDiscipline, Critical
<1>1. ASSUME NEW c \in Callers, Call(c) PROVE MutexDiscipline'
  BY <1>1 DEF Call, Goto
<1>2. ASSUME NEW c \in Callers, LockLookup(c) PROVE MutexDiscipline'
  BY <1>2 DEF LockLookup, Lock, Goto
<1>3. ASSUME NEW c \in Callers, Hit(c) PROVE MutexDiscipline'
  BY <1>3 DEF Hit, Unlock, Return, Goto
<1>4. ASSUME NEW c \in Callers, Miss(c) PROVE MutexDiscipline'
  BY <1>4 DEF Miss, Unlock, Goto
<1>5. ASSUME NEW c \in Callers, Observe(c) PROVE MutexDiscipline'
  BY <1>5 DEF Observe, Goto
<1>6. ASSUME NEW c \in Callers, Fail(c) PROVE MutexDiscipline'
  BY <1>6 DEF Fail, Return, Goto
<1>7. ASSUME NEW c \in Callers, Succeed(c) PROVE MutexDiscipline'
  BY <1>7 DEF Succeed, Return, Goto
<1>8. ASSUME NEW c \in Callers, LockStore(c) PROVE MutexDiscipline'
  BY <1>8 DEF LockStore, Lock, Goto
<1>9. ASSUME NEW c \in Callers, ReadClock(c) PROVE MutexDiscipline'
  BY <1>9 DEF ReadClock, Goto
<1>10. ASSUME NEW c \in Callers, Store(c) PROVE MutexDiscipline'
  BY <1>10 DEF Store, Unlock, Return, Goto
<1>11. CASE UNCHANGED <<mu, pc>>
  BY <1>11
<1> QED
  BY <1>1, <1>2, <1>3, <1>4, <1>5, <1>6, <1>7, <1>8, <1>9, <1>10, <1>11
  DEF Next, CallerStep, Proceed, Tick, Flip, vars

(* The order of the recorded successes.  Only Store moves lastOK, only     *)
(* Tick moves the clock, and only ReadClock brings a call to its store; at *)
(* that moment nobody else owns mu, so no other reading is outstanding.    *)
LEMMA OrderStep == CacheInv /\ [Next]_vars => RecordedInOrder'
<1> SUFFICES ASSUME CacheInv, [Next]_vars
             PROVE  RecordedInOrder'
  OBVIOUS
<1> USE NoCallerAssumption, MaxNowAssumption
    DEF CacheInv, TypeOK, RecordedInOrder, Never
<1>1. ASSUME NEW c \in Callers, ReadClock(c) PROVE RecordedInOrder'
  BY <1>1 DEF ReadClock, Goto
<1>2. ASSUME NEW c \in Callers, Store(c) PROVE RecordedInOrder'
  <2>1. \A d \in Callers \ {c} : pc[d] # "storing"
    BY <1>2 DEF Store, MutexDiscipline, Critical
  <2>2. /\ lastOK' = stamp[c] /\ recorded' = recorded \union {stamp[c]}
        /\ now' = now /\ stamp' = stamp
        /\ stamp[c] \in lastOK..now /\ stamp[c] \in 0..MaxNow
    BY <1>2 DEF Store
  <2>3. \A d \in Callers : pc'[d] # "storing"
    BY <1>2, <2>1 DEF Store, Return, Goto
  <2>4. \A s \in recorded' : s <= lastOK'
    BY <2>2
  <2> QED
    BY <2>2, <2>3, <2>4
<1>3. CASE Tick
  BY <1>3 DEF Tick
<1>4. CASE /\ UNCHANGED <<now, lastOK, recorded, stamp>>
           /\ \A c \in Callers : pc'[c] = "storing" => pc[c] = "storing"
  BY <1>4
<1>5. ASSUME NEW c \in Callers,
             \/ Call(c) \/ LockLookup(c) \/ Hit(c) \/ Miss(c) \/ Observe(c)
             \/ Fail(c) \/ Succeed(c) \/ LockStore(c)
      PROVE  /\ UNCHANGED <<now, lastOK, recorded, stamp>>
             /\ \A d \in Callers : pc'[d] = "storing" => pc[d] = "storing"
  BY <1>5 DEF Call, LockLookup, Hit, Miss, Observe, Fail, Succeed, LockStore,
              Return, Goto
<1>6. CASE Flip \/ UNCHANGED vars
  BY <1>4, <1>6 DEF Flip, vars
<1> QED
  BY <1>1, <1>2, <1>3, <1>4, <1>5, <1>6 DEF Next, CallerStep, Proceed

(* The inductive invariant holds in every reachable state.                 *)
THEOREM CacheInvariant == Spec => []CacheInv
<1>1. CacheInv /\ [Next]_vars => CacheInv'
  BY TypeStep, MutexStep, OrderStep DEF CacheInv
<1> QED
  BY InitCacheInv, <1>1, PTL DEF Spec

(* Every variable keeps its type, whatever the callers, TTL and clock are. *)
THEOREM TypeCorrect == Spec => []TypeOK
BY CacheInvariant, PTL DEF CacheInv

(* mu excludes: the calls inside a critical section are exactly the owner, *)
(* so no probe runs under the lock.                                        *)
THEOREM MutexCorrect == Spec => []MutexDiscipline
BY CacheInvariant, PTL DEF CacheInv

(* lastOK is the newest recorded success at every instant.                 *)
THEOREM OrderCorrect == Spec => []RecordedInOrder
BY CacheInvariant, PTL DEF CacheInv

(* A lookup hits exactly when some recorded success is younger than the    *)
(* TTL, for any TTL and any number of overlapping calls.                   *)
THEOREM LookupCorrect == Spec => LookupIsExact
<1> DEFINE Exact ==
      \A c \in Callers :
        /\ Hit(c)  => \E s \in recorded : now - s < TTL
        /\ Miss(c) => \A s \in recorded : now - s >= TTL
<1>1. CacheInv /\ [Next]_vars => [Exact]_vars
  <2> SUFFICES ASSUME CacheInv, NEW c \in Callers
               PROVE  /\ Hit(c)  => \E s \in recorded : now - s < TTL
                      /\ Miss(c) => \A s \in recorded : now - s >= TTL
    OBVIOUS
  <2> USE TTLAssumption, MaxNowAssumption
      DEF CacheInv, TypeOK, RecordedInOrder, Fresh, Never
  <2>1. Hit(c) => lastOK \in recorded /\ now - lastOK < TTL
    BY DEF Hit
  <2>2. ASSUME Miss(c), NEW s \in recorded PROVE now - s >= TTL
    <3>1. s \in 0..MaxNow /\ s <= lastOK
      OBVIOUS
    <3>2. now - lastOK >= TTL
      BY <2>2, <3>1 DEF Miss
    <3> QED
      BY <3>1, <3>2
  <2> QED
    BY <2>1, <2>2
<1> QED
  BY CacheInvariant, <1>1, PTL DEF Spec, LookupIsExact

(* lastOK never moves back, in whatever order racing calls store.          *)
THEOREM Monotone == Spec => LastOKMonotone
<1>1. CacheInv /\ [Next]_vars => [lastOK' >= lastOK]_vars
  <2> SUFFICES ASSUME CacheInv, Next
               PROVE  lastOK' >= lastOK
    OBVIOUS
  <2> USE MaxNowAssumption DEF CacheInv, TypeOK, RecordedInOrder, Never
  <2>1. ASSUME NEW c \in Callers, Store(c) PROVE lastOK' >= lastOK
    BY <2>1 DEF Store
  <2>2. CASE UNCHANGED lastOK
    BY <2>2
  <2> QED
    BY <2>1, <2>2
    DEF Next, CallerStep, Proceed, Call, LockLookup, Hit, Miss, Observe, Fail,
        Succeed, LockStore, ReadClock, Tick, Flip
<1> QED
  BY CacheInvariant, <1>1, PTL DEF Spec, LastOKMonotone

-----------------------------------------------------------------------------
(* CachedCheck implements CacheContract.  Besides CacheInv the mapping     *)
(* needs that whoever is about to record a success has seen one, and that  *)
(* nobody is when the TTL disables the cache.                              *)
Recording == {"relock", "stamping", "storing"}
SuccessInHand == \A c \in Callers : pc[c] \in Recording => saw[c] /\ TTL > 0
ContractInv == CacheInv /\ SuccessInHand

LEMMA InHandStep == ContractInv /\ [Next]_vars => SuccessInHand'
<1> SUFFICES ASSUME ContractInv, [Next]_vars
             PROVE  SuccessInHand'
  OBVIOUS
<1> USE TTLAssumption DEF ContractInv, CacheInv, TypeOK, SuccessInHand, Recording
<1>1. ASSUME NEW c \in Callers, Call(c) PROVE SuccessInHand'
  BY <1>1 DEF Call, Goto
<1>2. ASSUME NEW c \in Callers, LockLookup(c) \/ Miss(c) PROVE SuccessInHand'
  BY <1>2 DEF LockLookup, Miss, Goto
<1>3. ASSUME NEW c \in Callers, Hit(c) \/ Fail(c) \/ Store(c) PROVE SuccessInHand'
  BY <1>3 DEF Hit, Fail, Store, Return, Goto
<1>4. ASSUME NEW c \in Callers, Observe(c) PROVE SuccessInHand'
  <2>1. pc' = [pc EXCEPT ![c] = "probed"]
    BY <1>4 DEF Observe, Goto
  <2>2. \A d \in Callers \ {c} : saw'[d] = saw[d]
    BY <1>4 DEF Observe
  <2> QED
    BY <2>1, <2>2
<1>5. ASSUME NEW c \in Callers, Succeed(c) PROVE SuccessInHand'
  BY <1>5 DEF Succeed, Passthrough, Return, Goto
<1>6. ASSUME NEW c \in Callers, LockStore(c) \/ ReadClock(c) PROVE SuccessInHand'
  BY <1>6 DEF LockStore, ReadClock, Goto
<1>7. CASE Tick \/ Flip \/ UNCHANGED vars
  BY <1>7 DEF Tick, Flip, vars
<1> QED
  BY <1>1, <1>2, <1>3, <1>4, <1>5, <1>6, <1>7 DEF Next, CallerStep, Proceed

LEMMA ContractInvariant == Spec => []ContractInv
<1>1. Init => SuccessInHand
  BY DEF Init, SuccessInHand, Recording
<1>2. ContractInv /\ [Next]_vars => ContractInv'
  BY InHandStep, TypeStep, MutexStep, OrderStep DEF ContractInv, CacheInv
<1> QED
  BY InitCacheInv, <1>1, <1>2, PTL DEF Spec, ContractInv

(* The stages of the contract follow a caller's pc; nobody else's moves.   *)
LEMMA StageOf ==
  ASSUME NEW c \in Callers, NEW label \in Labels, TypeOK, Goto(c, label)
  PROVE  [d \in Callers |-> Stage(d)]' =
           [[d \in Callers |-> Stage(d)] EXCEPT ![c] =
              CASE label = "idle" -> "away"
                [] label \in {"lookup", "look"} -> "asked"
                [] label = "probing" -> "asking"
                [] OTHER -> "informed"]
BY DEF Goto, Stage, TypeOK, Labels

(* Every call answers from one shared register that holds the newest       *)
(* success, or with what its own probe saw (checks.go:57-80): for any      *)
(* callers, TTL and clock, the closure implements the contract.            *)
THEOREM ContractCorrect == Spec => ImplementsContract
<1> DEFINE stages == [d \in Callers |-> Stage(d)]
<1>1. Init => Contract!Init
  BY DEF Init, Contract!Init, Never, Contract!Never, Stage
<1>2. ContractInv /\ [Next]_vars => [Contract!Next]_(Contract!vars)
  <2> SUFFICES ASSUME ContractInv, [Next]_vars
               PROVE  Contract!Next \/ UNCHANGED Contract!vars
    OBVIOUS
  <2> USE TTLAssumption, MaxNowAssumption, StageOf
      DEF ContractInv, CacheInv, Labels, Contract!Next, Contract!vars,
          Contract!Become, Contract!Answer, Contract!Caching
  <2>0. TypeOK
    OBVIOUS
  <2>1. ASSUME NEW c \in Callers, Call(c) PROVE Contract!Ask(c)
    <3>1. CASE TTL > 0
      <4>1. Goto(c, "lookup")
        BY <2>1, <3>1 DEF Call, Passthrough
      <4> QED
        BY <2>0, <2>1, <3>1, <4>1 DEF Call, Contract!Ask, Stage
    <3>2. CASE ~(TTL > 0)
      <4>1. Goto(c, "probing")
        BY <2>1, <3>2 DEF Call, Passthrough
      <4> QED
        BY <2>0, <2>1, <3>2, <4>1 DEF Call, Contract!Ask, Stage
    <3> QED
      BY <3>1, <3>2
  <2>2. ASSUME NEW c \in Callers, LockLookup(c) PROVE UNCHANGED Contract!vars
    <3>1. stages' = stages
      BY <2>0, <2>2 DEF LockLookup, Goto, Stage, TypeOK
    <3> QED
      BY <2>2, <3>1 DEF LockLookup
  <2>3. ASSUME NEW c \in Callers, Hit(c) PROVE Contract!Recall(c)
    BY <2>0, <2>3 DEF Hit, Return, Contract!Recall, Fresh, Contract!Young, Never,
                Contract!Never, Stage
  <2>4. ASSUME NEW c \in Callers, Miss(c) PROVE Contract!Seek(c)
    BY <2>0, <2>4 DEF Miss, Contract!Seek, Fresh, Contract!Young, Never,
                Contract!Never, Stage
  <2>5. ASSUME NEW c \in Callers, Observe(c) PROVE Contract!See(c)
    BY <2>0, <2>5 DEF Observe, Contract!See, Stage
  <2>6. ASSUME NEW c \in Callers, Fail(c) PROVE Contract!Deny(c)
    BY <2>0, <2>6 DEF Fail, Return, Contract!Deny, Stage
  <2>7. ASSUME NEW c \in Callers, Succeed(c)
        PROVE  Contract!Confirm(c) \/ UNCHANGED Contract!vars
    <3>1. CASE Passthrough
      <4>1. Goto(c, "idle") /\ answer' = [answer EXCEPT ![c] = "nil"]
        BY <2>7, <3>1 DEF Succeed, Return
      <4>2. Contract!Answer(c, "nil")
        BY <2>0, <4>1
      <4>3. ~Contract!Caching /\ UNCHANGED <<now, up, lastOK, saw>>
        BY <2>7, <3>1 DEF Succeed, Passthrough
      <4>4. stages[c] = "informed" /\ saw[c]
        BY <2>7 DEF Succeed, Stage
      <4>5. Contract!Confirm(c)
        BY <4>2, <4>3, <4>4 DEF Contract!Confirm
      <4> QED
        BY <4>5
    <3>2. CASE ~Passthrough
      <4>1. stages' = stages
        BY <2>0, <2>7, <3>2 DEF Succeed, Goto, Stage, TypeOK
      <4> QED
        BY <2>7, <3>2, <4>1 DEF Succeed
    <3> QED
      BY <3>1, <3>2
  <2>8. ASSUME NEW c \in Callers, LockStore(c) \/ ReadClock(c)
        PROVE  UNCHANGED Contract!vars
    <3>1. stages' = stages
      BY <2>0, <2>8 DEF LockStore, ReadClock, Goto, Stage, TypeOK
    <3> QED
      BY <2>8, <3>1 DEF LockStore, ReadClock
  <2>9. ASSUME NEW c \in Callers, Store(c) PROVE Contract!Confirm(c)
    <3>1. saw[c] /\ TTL > 0
      BY <2>9 DEF Store, SuccessInHand, Recording
    <3>2. stamp[c] \in 0..now /\ stamp[c] >= lastOK
      BY <2>0, <2>9 DEF Store, RecordedInOrder, TypeOK
    <3>3. Contract!Answer(c, "nil")
      BY <2>0, <2>9 DEF Store, Return
    <3> QED
      BY <2>9, <3>1, <3>2, <3>3 DEF Store, Contract!Confirm, Stage
  <2>10. CASE Tick
    BY <2>10 DEF Tick, Contract!Pass, Stage
  <2>11. CASE Flip
    BY <2>11 DEF Flip, Contract!Flip, Stage
  <2>12. CASE UNCHANGED vars
    BY <2>12 DEF vars, Stage
  <2> QED
    BY <2>1, <2>2, <2>3, <2>4, <2>5, <2>6, <2>7, <2>8, <2>9, <2>10, <2>11, <2>12
    DEF Next, CallerStep, Proceed
<1> QED
  BY <1>1, <1>2, ContractInvariant, PTL
  DEF Spec, ImplementsContract, Contract!Spec
=============================================================================
