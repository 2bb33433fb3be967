---------------------------- MODULE MCCorrelation ----------------------------
(* The chains read disjoint sets of signals but for R2 and R8, so one kind    *)
(* stands for the cause of every chain and one for the effect of every chain; *)
(* the third has what the chains fall back to, causes and effects on a line.  *)
EXTENDS Correlation

CONSTANTS cause, effect, other

MCKinds == {cause, effect, other}
MCSignals ==
    [k \in MCKinds |->
       CASE k = cause -> {"srv", "mapping", "gpo", "overlarge", "skew", "tls"}
         [] k = effect -> {"connect", "noUser", "pam", "watchdog", "sasl", "preauth"}
         [] k = other -> {"resolve", "outOfRange", "hugeGroup",
                          "goingOffline", "backendOffline", "terminated"}]

\* 300 and 3600 apart, and farther.
MCTimes == {0, 300, 3900}
=============================================================================
