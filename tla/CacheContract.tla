---------------------------- MODULE CacheContract ----------------------------
(***************************************************************************)
(* What a cached check promises its callers, who share nothing but the     *)
(* newest confirmed success.  A call looks at it in one instant: younger   *)
(* than the TTL, it is the answer; otherwise the call asks the dependency  *)
(* itself, answers with what it saw there, and a success it saw becomes    *)
(* the newest, confirmed at an instant no earlier than the one it          *)
(* replaces.  A failure changes nothing.  Without a positive TTL every     *)
(* call asks.                                                              *)
(***************************************************************************)
EXTENDS Integers

CONSTANTS Callers, TTL

VARIABLES
    now,        \* the clock
    up,         \* whether the dependency would answer
    newest,     \* when the newest success was confirmed, Never before one
    stage,      \* of each call: away, asked, asking or informed
    saw,        \* what a call that is informed saw
    answer      \* what each caller's last call returned

vars == <<now, up, newest, stage, saw, answer>>

Never == -1
Caching == TTL > 0
Young == newest # Never /\ now - newest < TTL

Init ==
    /\ now = 0
    /\ up \in BOOLEAN
    /\ newest = Never
    /\ stage = [c \in Callers |-> "away"]
    /\ saw = [c \in Callers |-> FALSE]
    /\ answer = [c \in Callers |-> "none"]

Become(c, s) == stage' = [stage EXCEPT ![c] = s]
Answer(c, a) == Become(c, "away") /\ answer' = [answer EXCEPT ![c] = a]

Ask(c) ==
    /\ stage[c] = "away"
    /\ Become(c, IF Caching THEN "asked" ELSE "asking")
    /\ answer' = [answer EXCEPT ![c] = "none"]
    /\ saw' = [saw EXCEPT ![c] = FALSE]
    /\ UNCHANGED <<now, up, newest>>

Recall(c) ==
    /\ stage[c] = "asked" /\ Young
    /\ Answer(c, "nil")
    /\ UNCHANGED <<now, up, newest, saw>>

Seek(c) ==
    /\ stage[c] = "asked" /\ ~Young
    /\ Become(c, "asking")
    /\ UNCHANGED <<now, up, newest, saw, answer>>

(* The dependency may be up and the probe fail all the same. *)
See(c) ==
    /\ stage[c] = "asking"
    /\ \E ok \in {FALSE, up} : saw' = [saw EXCEPT ![c] = ok]
    /\ Become(c, "informed")
    /\ UNCHANGED <<now, up, newest, answer>>

Deny(c) ==
    /\ stage[c] = "informed" /\ ~saw[c]
    /\ Answer(c, "err")
    /\ UNCHANGED <<now, up, newest, saw>>

Confirm(c) ==
    /\ stage[c] = "informed" /\ saw[c]
    /\ IF Caching THEN newest' \in 0..now /\ newest' >= newest
                  ELSE UNCHANGED newest
    /\ Answer(c, "nil")
    /\ UNCHANGED <<now, up, saw>>

Pass == now' = now + 1 /\ UNCHANGED <<up, newest, stage, saw, answer>>
Flip == up' = ~up /\ UNCHANGED <<now, newest, stage, saw, answer>>

Next ==
    \/ \E c \in Callers : \/ Ask(c) \/ Recall(c) \/ Seek(c) \/ See(c)
                          \/ Deny(c) \/ Confirm(c)
    \/ Pass \/ Flip

Spec == Init /\ [][Next]_vars
=============================================================================
