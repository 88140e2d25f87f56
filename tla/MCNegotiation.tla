---------------------------- MODULE MCNegotiation ----------------------------
(* Two negotiations, bound in any way to two tasks of the poster, of which    *)
(* this worker has the first.  In one negotiation the worker accepts the      *)
(* terms of its task and announces its delivery; in the other it asks for a   *)
(* part of that task's payment and for all of the other worker's.             *)
EXTENDS Negotiation, TLC

CONSTANTS t1, t2, n1, n2, r1, r2

Envelope(k, n, t, a) ==
    [kind |-> k, negotiation |-> n, task |-> t, amount |-> a]

Sent == {Envelope("TaskAcceptance", n1, t1, 0),
         Envelope("DeliveryNotice", n1, t1, 0),
         Envelope("PaymentPartial", n2, t1, 1),
         Envelope("PaymentFull", n2, t2, 0)}

RouteSymmetry == Permutations({r1, r2})
=============================================================================
