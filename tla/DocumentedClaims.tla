--------------------------- MODULE DocumentedClaims ---------------------------
(***************************************************************************)
(* What a comment of the repository says of the task registry where the       *)
(* contract does something else: TLC shows a behaviour that refutes it.       *)
(***************************************************************************)
EXTENDS MCTaskRegistry

Ends(t, from, to) == tasks[t].state \in from /\ tasks'[t].state = to

(* TaskRegistryV2.sol:338-339: cancelling a claimed task transfers the         *)
(* poster's access fee to the worker "unless poster used Action Credit".  The *)
(* code asks whether the worker used one.                                     *)
CreditSparesCancellingPoster ==
    [][\A t \in Tasks :
          /\ Ends(t, {"CLAIMED"}, "CANCELLED") /\ tasks[t].posterCredit
          /\ now <= tasks[t].fundingDeadline /\ now <= tasks[t].deadline
          => vault'.deposits[tasks[t].poster] = vault.deposits[tasks[t].poster]
      ]_vars
===============================================================================
