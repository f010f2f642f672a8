---------------------------- MODULE MCForecastV2 ----------------------------
(* Instances of ForecastV2 for TLC: a grid of three time units.            *)
EXTENDS ForecastV2

Base == [dt |-> 3, horizon |-> 12, fallback |-> 1, minimum |-> 0, allowance |-> 1]

V2Specs == {[engine |-> "statistical", cfg |-> Base, other |-> 1],
            [engine |-> "statistical", cfg |-> Base, other |-> 2],
            [engine |-> "legacyLstm", cfg |-> Base, other |-> 1]}

(* Leads of 9, of 12, and one that does not fit the horizon: no            *)
(* measurement, a measured start, a start pending for longer than any.     *)
Starts == {[p90 |-> None, pending |-> None], [p90 |-> 2, pending |-> None], [p90 |-> None, pending |-> 7]}
=============================================================================
