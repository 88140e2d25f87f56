------------------------------- MODULE Amounts --------------------------------
(***************************************************************************)
(* Amounts of AZL held per account, as the vault contracts keep them.        *)
(***************************************************************************)
EXTENDS Naturals

Plus(f, x, n) == [f EXCEPT ![x] = @ + n]

Minus(f, x, n) == [f EXCEPT ![x] = @ - n]

Monus(m, n) == IF m > n THEN m - n ELSE 0

AtLeast(m, n) == IF m > n THEN m ELSE n
===============================================================================
