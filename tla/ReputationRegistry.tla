-------------------------- MODULE ReputationRegistry --------------------------
(***************************************************************************)
(* ReputationRegistryV2: one terminal record per task and the tallies the     *)
(* records leave with its parties.  The registry records completions and      *)
(* poster defaults, arbitration records rulings and unresolved disputes.      *)
(***************************************************************************)
EXTENDS Naturals, FiniteSets, Amounts

CONSTANTS Tasks, Accounts

TallyType == [recorded : [Tasks -> BOOLEAN], completed : [Accounts -> Nat],
              wins : [Accounts -> Nat], losses : [Accounts -> Nat]]

NoTally == [recorded |-> [t \in Tasks |-> FALSE],
            completed |-> [a \in Accounts |-> 0],
            wins |-> [a \in Accounts |-> 0],
            losses |-> [a \in Accounts |-> 0]]

CanRecord(r, t) == ~r.recorded[t]

Recorded(r, t) == [r EXCEPT !.recorded[t] = TRUE]

RecordCompletion(r, t, poster, worker) ==
    [Recorded(r, t) EXCEPT !.completed = Plus(Plus(@, poster, 1), worker, 1)]

RecordPosterExpiry(r, t, poster) ==
    [Recorded(r, t) EXCEPT !.losses = Plus(@, poster, 1)]

(* A neutral ruling (SPLIT, MUTUAL) leaves both tallies alone.               *)
RecordDispute(r, t, winner, loser, neutral) ==
    IF neutral THEN Recorded(r, t)
    ELSE [Recorded(r, t) EXCEPT !.wins = Plus(@, winner, 1), !.losses = Plus(@, loser, 1)]

(* A timed-out dispute costs the poster a loss but not the task's record.    *)
RecordUnresolved(r, poster) == [r EXCEPT !.losses = Plus(@, poster, 1)]
===============================================================================
