---------------------------- MODULE MCReconciler ----------------------------
(* Small instances of Reconciler.                                          *)
EXTENDS Reconciler

CONSTANTS a, b, r1, r2, r3, u1, u2, u3, u4, v1, v2

Base == [mode |-> "Active", min |-> 1, max |-> 4, signal |-> a,
         capacity |-> 10, headroom |-> 20, forecasting |-> TRUE]

(* Settling run: the user switches the mode.                               *)
SwitchSpecs == {Base, [Base EXCEPT !.mode = "Recommend"]}

(* Write-path run: the other spec also has an invalid query.               *)
WriteSpecs == {Base, [Base EXCEPT !.mode = "Recommend", !.signal = None]}

(* 15 requests per minute need two replicas, with or without the headroom. *)
Rate1 == {15}

NoForecasts == {}

(* Timing run.  5 needs one replica, 30 three (four with the headroom).    *)
Rate2 == {5, 30}

(* At rate 5 the first forecast asks for three replicas and is an          *)
(* overestimate; the second is discarded as diverged.                      *)
Over == [near |-> 30, peak |-> 30, confidence |-> 100, ramp |-> FALSE]

Forecast2 == {Over, [Over EXCEPT !.near = 60]}

(* Timing run: the bounds and the headroom are edited, and the mode is     *)
(* switched to one without a capacity.                                     *)
HoldSpecs == {Base, [Base EXCEPT !.max = 2, !.headroom = 0],
              [Base EXCEPT !.mode = "Recommend", !.capacity = 0]}
=============================================================================
