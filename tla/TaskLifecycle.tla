----------------------------- MODULE TaskLifecycle -----------------------------
(***************************************************************************)
(* What the registry and its vaults promise about a task, without saying how: *)
(* a task is offered, taken by somebody else, paid into and out of, perhaps   *)
(* frozen, and over.  Collateral is locked for exactly those whose task it    *)
(* is, AZL leaves the escrow only through a payment or the end of the task,   *)
(* and what is over stays over.  TaskRegistry implements it.                  *)
(***************************************************************************)
EXTENDS Naturals

CONSTANTS Tasks, Accounts

VARIABLES
    stage,    \* [Tasks -> Stage]
    locked,   \* [Tasks -> SUBSET Accounts]: whose collateral the task holds
    held      \* [Tasks -> Nat]: AZL in the task's escrow

vars == <<stage, locked, held>>

Stage == {"none", "offered", "taken", "frozen", "over"}

Init ==
    /\ stage = [t \in Tasks |-> "none"]
    /\ locked = [t \in Tasks |-> {}]
    /\ held = [t \in Tasks |-> 0]

Offer(t, p) ==
    /\ stage[t] = "none"
    /\ stage' = [stage EXCEPT ![t] = "offered"]
    /\ locked' = [locked EXCEPT ![t] = {p}]
    /\ UNCHANGED held

Take(t, w) ==
    /\ stage[t] = "offered" /\ w \notin locked[t]
    /\ stage' = [stage EXCEPT ![t] = "taken"]
    /\ locked' = [locked EXCEPT ![t] = @ \cup {w}]
    /\ UNCHANGED held

PayIn(t) ==
    /\ stage[t] = "taken"
    /\ held'[t] > held[t]
    /\ held' = [held EXCEPT ![t] = held'[t]]
    /\ UNCHANGED <<stage, locked>>

(* A payment that is not the last one.                                       *)
PayOut(t) ==
    /\ stage[t] = "taken"
    /\ \E n \in 1..held[t] - 1 : held' = [held EXCEPT ![t] = n]
    /\ UNCHANGED <<stage, locked>>

Freeze(t) ==
    /\ stage[t] = "taken" /\ held[t] > 0
    /\ stage' = [stage EXCEPT ![t] = "frozen"]
    /\ UNCHANGED <<locked, held>>

End(t) ==
    /\ stage[t] \in {"offered", "taken", "frozen"}
    /\ stage' = [stage EXCEPT ![t] = "over"]
    /\ locked' = [locked EXCEPT ![t] = {}]
    /\ held' = [held EXCEPT ![t] = 0]

Next ==
    \E t \in Tasks :
        \/ \E a \in Accounts : Offer(t, a) \/ Take(t, a)
        \/ PayIn(t) \/ PayOut(t) \/ Freeze(t) \/ End(t)

Spec == Init /\ [][Next]_vars
===============================================================================
