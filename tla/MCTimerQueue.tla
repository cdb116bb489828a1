---------------------------- MODULE MCTimerQueue ----------------------------
(***************************************************************************)
(* Messages to check module TimerQueue on.  The instances are finite as    *)
(* they stand: the clock wraps.                                            *)
(***************************************************************************)
EXTENDS TimerQueue

CONSTANTS foo0, bar0
=============================================================================
