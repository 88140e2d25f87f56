---------------------------- MODULE MCOpenPosting -----------------------------
EXTENDS OpenPosting, TLC

CONSTANTS w1, x, y, f1, f2

(* Two clicks on one page, for different scopes.                              *)
Owners == (f1 :> w1) @@ (f2 :> w1)
Written == (f1 :> x) @@ (f2 :> y)
===============================================================================
