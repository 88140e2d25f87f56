---------------------------- MODULE MCLiveWorker ----------------------------
(* Two proposals for one task, one of them perhaps a repetition of the other, *)
(* and a ping that may come behind them.                                    *)
EXTENDS LiveWorker

CONSTANTS t1, m1, m2, m3

SubjectOf == [m \in {m1, m2, m3} |-> t1]
=============================================================================
