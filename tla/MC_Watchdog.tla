------------------------------ MODULE MC_Watchdog ------------------------------
(***************************************************************************)
(* Watchdog with a task that is slow for its kind, as Network is (6 s of   *)
(* the 8 s timeout), and Diagnostics, whose period is set to a short one   *)
(* or to one beyond the timeout.  The time unit is large: one check        *)
(* period.                                                                 *)
(***************************************************************************)
EXTENDS Watchdog

CONSTANTS network, diagnostics

MCDelays == network :> {2} @@ diagnostics :> {1, 3}
=============================================================================
