----------------------------- MODULE CachedCheck -----------------------------
(***************************************************************************)
(* health.CachedCheck: one closure over a mutex mu and a time lastOK,      *)
(* called by any number of goroutines at once.  Every call takes mu twice: *)
(* to look the last success up, and, after a probe that ran outside the    *)
(* lock and succeeded, to record a new one.  Between the two anything may  *)
(* happen: other calls miss, probe, fail or record; the dependency goes    *)
(* down or comes back; time passes.                                        *)
(*                                                                         *)
(* Time is a discrete clock.  TTL and the readings are in its ticks.       *)
(***************************************************************************)
EXTENDS Integers

CONSTANTS
    Callers,    \* the goroutines that call the wrapped check
    NoCaller,   \* the owner of an unlocked mutex
    TTL,        \* the ttl argument; zero or less disables the cache
    MaxNow      \* bound on the clock, for model checking

ASSUME NoCallerAssumption == NoCaller \notin Callers
ASSUME TTLAssumption == TTL \in Int
ASSUME MaxNowAssumption == MaxNow \in Nat

VARIABLES
    now,        \* the monotonic clock behind time.Now and time.Since
    up,         \* whether the dependency would answer a probe
    mu,         \* the owner of the mutex
    lastOK,     \* the captured variable
    pc,         \* where each call stands
    saw,        \* the result of fn: TRUE for a nil error
    stamp,      \* the reading of time.Now that a call is about to record
    answer,     \* what the caller's last call returned
    recorded    \* history: every value lastOK was ever given

vars == <<now, up, mu, lastOK, pc, saw, stamp, answer, recorded>>

(* lastOK starts as the zero time, so far back that no TTL reaches it. *)
Never == -1

Labels == {"idle", "lookup", "look", "probing", "probed",
           "relock", "stamping", "storing"}

(* The labels at which a call owns mu. *)
Critical == {"look", "stamping", "storing"}

TypeOK ==
    /\ now \in 0..MaxNow
    /\ up \in BOOLEAN
    /\ mu \in Callers \union {NoCaller}
    /\ lastOK \in (0..MaxNow) \union {Never}
    /\ pc \in [Callers -> Labels]
    /\ saw \in [Callers -> BOOLEAN]
    /\ stamp \in [Callers -> 0..MaxNow]
    /\ answer \in [Callers -> {"none", "nil", "err"}]
    /\ recorded \subseteq 0..MaxNow

Init ==
    /\ now = 0
    /\ up \in BOOLEAN
    /\ mu = NoCaller
    /\ lastOK = Never
    /\ pc = [c \in Callers |-> "idle"]
    /\ saw = [c \in Callers |-> FALSE]
    /\ stamp = [c \in Callers |-> 0]
    /\ answer = [c \in Callers |-> "none"]
    /\ recorded = {}

-----------------------------------------------------------------------------
Passthrough == TTL <= 0

(* Mutant: an expiry that is one instant late. *)
FreshInclusive == lastOK # Never /\ now - lastOK <= TTL

(* time.Since(lastOK) < ttl *)
Fresh == lastOK # Never /\ now - lastOK < TTL

Goto(c, label) == pc' = [pc EXCEPT ![c] = label]

Return(c, err) ==
    /\ Goto(c, "idle")
    /\ answer' = [answer EXCEPT ![c] = err]

(* Mutant: a lock that does not exclude. *)
LockShared(c) == mu' = c

Lock(c) == mu = NoCaller /\ mu' = c
Unlock == mu' = NoCaller

(* A caller enters the closure, or fn itself when the ttl disables it. *)
Call(c) ==
    /\ pc[c] = "idle"
    /\ Goto(c, IF Passthrough THEN "probing" ELSE "lookup")
    /\ answer' = [answer EXCEPT ![c] = "none"]
    /\ saw' = [saw EXCEPT ![c] = FALSE]
    /\ UNCHANGED <<now, up, mu, lastOK, stamp, recorded>>

LockLookup(c) ==
    /\ pc[c] = "lookup"
    /\ Lock(c)
    /\ Goto(c, "look")
    /\ UNCHANGED <<now, up, lastOK, saw, stamp, answer, recorded>>

Hit(c) ==
    /\ pc[c] = "look"
    /\ Fresh
    /\ Unlock
    /\ Return(c, "nil")
    /\ UNCHANGED <<now, up, lastOK, saw, stamp, recorded>>

(* Mutant: the lock is kept while fn runs. *)
MissLocked(c) ==
    /\ pc[c] = "look"
    /\ ~Fresh
    /\ Goto(c, "probing")
    /\ UNCHANGED <<now, up, mu, lastOK, saw, stamp, answer, recorded>>

Miss(c) ==
    /\ pc[c] = "look"
    /\ ~Fresh
    /\ Unlock
    /\ Goto(c, "probing")
    /\ UNCHANGED <<now, up, lastOK, saw, stamp, answer, recorded>>

(* fn sees the dependency at one instant of its run.  It may fail although *)
(* the dependency is up: its context was cancelled or ran out of time.     *)
Observe(c) ==
    /\ pc[c] = "probing"
    /\ \E ok \in {FALSE, up} : saw' = [saw EXCEPT ![c] = ok]
    /\ Goto(c, "probed")
    /\ UNCHANGED <<now, up, mu, lastOK, stamp, answer, recorded>>

(* Mutant: the time of the probe is recorded whatever its result. *)
FailRecorded(c) ==
    /\ pc[c] = "probed"
    /\ ~saw[c]
    /\ Return(c, "err")
    /\ lastOK' = now
    /\ UNCHANGED <<now, up, mu, saw, stamp, recorded>>

Fail(c) ==
    /\ pc[c] = "probed"
    /\ ~saw[c]
    /\ Return(c, "err")
    /\ UNCHANGED <<now, up, mu, lastOK, saw, stamp, recorded>>

Succeed(c) ==
    /\ pc[c] = "probed"
    /\ saw[c]
    /\ IF Passthrough THEN Return(c, "nil")
                      ELSE Goto(c, "relock") /\ UNCHANGED answer
    /\ UNCHANGED <<now, up, mu, lastOK, saw, stamp, recorded>>

(* Mutant: the second critical section lost its mu.Lock(). *)
LockStoreSkipped(c) ==
    /\ pc[c] = "relock"
    /\ Goto(c, "stamping")
    /\ UNCHANGED <<now, up, mu, lastOK, saw, stamp, answer, recorded>>

LockStore(c) ==
    /\ pc[c] = "relock"
    /\ Lock(c)
    /\ Goto(c, "stamping")
    /\ UNCHANGED <<now, up, lastOK, saw, stamp, answer, recorded>>

(* Mutant: the expiry is recorded in place of the time of the success. *)
ReadExpiry(c) ==
    /\ pc[c] = "stamping"
    /\ stamp' = [stamp EXCEPT ![c] = now + TTL]
    /\ Goto(c, "storing")
    /\ UNCHANGED <<now, up, mu, lastOK, saw, answer, recorded>>

(* time.Now() is read under the lock; the clock may move before the store. *)
ReadClock(c) ==
    /\ pc[c] = "stamping"
    /\ stamp' = [stamp EXCEPT ![c] = now]
    /\ Goto(c, "storing")
    /\ UNCHANGED <<now, up, mu, lastOK, saw, answer, recorded>>

Store(c) ==
    /\ pc[c] = "storing"
    /\ lastOK' = stamp[c]
    /\ recorded' = recorded \union {stamp[c]}
    /\ Unlock
    /\ Return(c, "nil")
    /\ UNCHANGED <<now, up, saw, stamp>>

Tick ==
    /\ now < MaxNow
    /\ now' = now + 1
    /\ UNCHANGED <<up, mu, lastOK, pc, saw, stamp, answer, recorded>>

(* The dependency goes down or comes back. *)
Flip ==
    /\ up' = ~up
    /\ UNCHANGED <<now, mu, lastOK, pc, saw, stamp, answer, recorded>>

(* The steps of the closure itself; Call is the caller's, Observe is fn's. *)
Proceed(c) == Hit(c) \/ Miss(c) \/ Fail(c) \/ Succeed(c) \/ ReadClock(c) \/ Store(c)

CallerStep(c) ==
    \/ Call(c) \/ Observe(c)
    \/ LockLookup(c) \/ LockStore(c)
    \/ Proceed(c)

Next ==
    \/ \E c \in Callers : CallerStep(c)
    \/ Tick
    \/ Flip

Spec == Init /\ [][Next]_vars

(* A goroutine that can run eventually runs, and sync.Mutex hands the lock *)
(* over after a bounded wait, so a waiter is not passed over for ever.     *)
(* Nothing is assumed of fn: a probe may never come back.                  *)
Fairness ==
    \A c \in Callers :
        /\ WF_vars(Proceed(c))
        /\ SF_vars(LockLookup(c))
        /\ SF_vars(LockStore(c))

FairSpec == Spec /\ Fairness

-----------------------------------------------------------------------------
(* At most one call is between a Lock and its Unlock, it is the one mu     *)
(* names, and no call owns mu while its probe runs (checks.go:66-77).      *)
MutexDiscipline == \A c \in Callers : pc[c] \in Critical <=> mu = c

(* lastOK is the newest success ever recorded, and whoever is about to     *)
(* record one, its clock already read, will not replace it by an older one *)
(* (checks.go:75-77).                                                      *)
RecordedInOrder ==
    /\ lastOK <= now
    /\ lastOK # Never => lastOK \in recorded
    /\ \A s \in recorded : s <= lastOK
    /\ \A c \in Callers : pc[c] = "storing" => stamp[c] \in lastOK..now

(* A lookup is answered from the cache exactly when some success that was  *)
(* ever recorded is younger than the TTL: no expired success is served,    *)
(* and no recorded success is lost to a later, slower caller's store       *)
(* (checks.go:53-56, "subsequent calls within the TTL return nil without   *)
(* invoking fn").                                                          *)
LookupIsExact ==
    [][\A c \in Callers :
        /\ Hit(c)  => \E s \in recorded : now - s < TTL
        /\ Miss(c) => \A s \in recorded : now - s >= TTL]_vars

(* lastOK never moves back in time, although callers whose probes finished *)
(* in any order race to write it: the clock is read under the lock         *)
(* (checks.go:75-77).                                                      *)
LastOKMonotone == [][lastOK' >= lastOK]_vars

(* The two critical sections together are one shared register: every call  *)
(* answers as CacheContract says, with its own probe's result or with a    *)
(* success confirmed less than TTL ago, whatever other calls do between    *)
(* its steps, and a failed call leaves nothing behind (checks.go:57-80).   *)
Stage(c) ==
    CASE pc[c] = "idle" -> "away"
      [] pc[c] \in {"lookup", "look"} -> "asked"
      [] pc[c] = "probing" -> "asking"
      [] OTHER -> "informed"

Contract == INSTANCE CacheContract WITH
    newest <- lastOK,
    stage <- [c \in Callers |-> Stage(c)]
ImplementsContract == Contract!Spec

(* A probe that hangs holds no other call up: whoever is at the mutex gets *)
(* through it, whatever the probes in flight do (checks.go:71-73).         *)
InCache(c) == pc[c] \in {"lookup", "look", "relock", "stamping", "storing"}
CacheNeverBlocks == \A c \in Callers : InCache(c) ~> ~InCache(c)
=============================================================================
