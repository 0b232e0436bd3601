----------------------- MODULE DeviationScenarioClaims -----------------------
(***************************************************************************)
(* What the messages of deviation_scenario_service.go say and the          *)
(* handlers, run concurrently, do not keep.                                *)
(***************************************************************************)
EXTENDS MCDeviationScenarios

(* deviation_scenario_service.go:172 answers 409 to an update when the     *)
(* scenario changed concurrently: an update that takes effect changes the  *)
(* row it read, also for clients that count versions ahead.                *)
ConcurrentChangeRefused ==
    [][\A r \in {q \in Requests : At(q, "update")} :
          req[r].call.op = "update" /\ At(r, "audit")'
              => Stored(r) = req[r].before]_vars
=============================================================================
