------------------------------- MODULE MCUpdater -------------------------------
EXTENDS Installation, TLC

CONSTANTS w1, w2

(* Elsewhere the checks of the windows are what is asked about; on Windows *)
(* the program ends and starts again, or its steps fail, or both.          *)
MCBounds == {
  [windows |-> FALSE, starts |-> 0, faults |-> 0, polls |-> 4, checking |-> {w1, w2}],
  [windows |-> TRUE, starts |-> 0, faults |-> 1, polls |-> 2, checking |-> {w1}],
  [windows |-> TRUE, starts |-> 1, faults |-> 0, polls |-> 2, checking |-> {w1}],
  [windows |-> TRUE, starts |-> 1, faults |-> 1, polls |-> 1, checking |-> {w1}]}
=============================================================================
