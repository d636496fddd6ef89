-------------------------- MODULE CachedCheckHistory --------------------------
(***************************************************************************)
(* CachedCheck seen by whoever polls it: the same steps, and history       *)
(* variables that remember which calls saw the current outage, whether one *)
(* has reported it, which calls began after that, whether a success was    *)
(* recorded during or after a call that reported it, and how many probes   *)
(* ran since anything last failed.  They restrict no step.                 *)
(***************************************************************************)
EXTENDS CachedCheck

VARIABLES
    sawDown,    \* calls whose probe saw the dependency in the current outage
    reported,   \* one of them has returned its error
    knew,       \* calls that began after that
    crossed,    \* calls during which another call recorded a success
    overlapped, \* a success was recorded during, or after, a call that reported
    probes      \* calls of fn since the last failure, counted up to ProbeCap

history == <<sawDown, reported, knew, crossed, overlapped, probes>>
hvars == <<vars, history>>

(* Bound on the count: one more than AtMostTwoProbes allows. *)
ProbeCap == 3

HInit ==
    /\ Init
    /\ sawDown = {} /\ knew = {} /\ crossed = {}
    /\ reported = FALSE /\ overlapped = FALSE
    /\ probes = 0

Began(c) == pc[c] = "idle" /\ pc'[c] # "idle"
Invoked(c) == pc[c] # "probing" /\ pc'[c] = "probing"
Saw(c) == pc[c] = "probing" /\ pc'[c] = "probed"
Stored(c) == pc[c] = "storing" /\ pc'[c] = "idle"
Failed(c) == pc[c] # "idle" /\ pc'[c] = "idle" /\ answer'[c] = "err"

(* Everything known of an outage is forgotten when the dependency is back. *)
Remember ==
    /\ sawDown' = {c \in Callers : ~up' /\ ~Began(c) /\ (Saw(c) \/ c \in sawDown)}
    /\ reported' = (~up' /\ (reported \/ \E c \in sawDown : Failed(c)))
    /\ knew' = {c \in Callers : ~up' /\ IF Began(c) THEN reported ELSE c \in knew}
    /\ crossed' = {c \in Callers : pc'[c] # "idle" /\ ~Began(c)
                      /\ (c \in crossed \/ \E d \in Callers : Stored(d))}
    /\ overlapped' = (~up' /\ \/ overlapped
                              \/ \E c \in sawDown \cap crossed : Failed(c)
                              \/ reported /\ \E d \in Callers : Stored(d))
    /\ probes' = IF ~up' \/ \E c \in Callers : Failed(c) THEN 0
                 ELSE IF probes < ProbeCap /\ \E c \in Callers : Invoked(c)
                 THEN probes + 1
                 ELSE probes

HNext == Next /\ Remember

HSpec == HInit /\ [][HNext]_hvars

(* Once an outage was reported, and for as long as it lasts, every later   *)
(* call reports it (checks.go:54-55, "Errors are never cached, ensuring    *)
(* failures are detected immediately on the next poll").                   *)
FailureDetected == \A c \in knew : answer[c] # "nil"

(* That promise is broken only by overlapping calls: a call that began     *)
(* after the report of an outage that still lasts returns nil only if      *)
(* another call recorded a success during, or after, a call that reported  *)
(* it.  Calls that never overlap keep the promise (checks.go:66-78).       *)
FlapNeedsOverlap == \A c \in knew : answer[c] = "nil" => overlapped

(* While nothing fails and the first success has not expired, concurrent   *)
(* callers invoke fn at most twice between them (checks_test.go:245-246,   *)
(* "expected at most 2 calls with caching").                               *)
AtMostTwoProbes == probes <= 2
=============================================================================
