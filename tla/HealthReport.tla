----------------------------- MODULE HealthReport -----------------------------
(***************************************************************************)
(* What a health endpoint promises its poller: every check registered      *)
(* before the request reaches one verdict, and the one reply, sent when    *)
(* all have, lists each check exactly once with its own verdict and is 200 *)
(* only if none failed.  A request that is neither GET nor HEAD is refused *)
(* before any check ran.                                                   *)
(*                                                                         *)
(* A check that panics brings the process down.  No reply is promised      *)
(* then, but one may still get out first, and it leaves that check out:    *)
(* it can be 200.                                                          *)
(***************************************************************************)
EXTENDS Naturals, FiniteSets

CONSTANT Names

VARIABLES
    checks,     \* the registered checks
    verdict,    \* what each check said: pending, nil, err, or it panicked
    reply,      \* the status code, 0 before the reply
    report      \* the listed results, in any order

vars == <<checks, verdict, reply, report>>

Healthy(n) == verdict[n] = "nil"
Untouched == \A n \in Names : verdict[n] = "pending"

(* The checks a reply can list, and the orders it may list them in. *)
Told == {n \in checks : verdict[n] # "panic"}
Listings == {f \in [1..Cardinality(Told) -> Told] :
                \A n \in Told : \E i \in 1..Cardinality(Told) : f[i] = n}

Init ==
    /\ checks = {}
    /\ verdict = [n \in Names |-> "pending"]
    /\ reply = 0
    /\ report = <<>>

Register(n) ==
    /\ reply = 0
    /\ Untouched
    /\ checks' = checks \union {n}
    /\ UNCHANGED <<verdict, reply, report>>

Decide(n) ==
    /\ reply = 0
    /\ n \in checks
    /\ verdict[n] = "pending"
    /\ \E v \in {"nil", "err", "panic"} : verdict' = [verdict EXCEPT ![n] = v]
    /\ UNCHANGED <<checks, reply, report>>

Answer ==
    /\ reply = 0
    /\ \A n \in checks : verdict[n] # "pending"
    /\ reply' = IF \A n \in Told : Healthy(n) THEN 200 ELSE 503
    /\ \E f \in Listings :
          report' = [i \in 1..Cardinality(Told) |->
                        [name |-> f[i], healthy |-> Healthy(f[i])]]
    /\ UNCHANGED <<checks, verdict>>

Refuse ==
    /\ reply = 0
    /\ Untouched
    /\ reply' = 405
    /\ UNCHANGED <<checks, verdict, report>>

Next == (\E n \in Names : Register(n) \/ Decide(n)) \/ Answer \/ Refuse

Spec == Init /\ [][Next]_vars
=============================================================================
