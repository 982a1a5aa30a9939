----------------------------- MODULE SignalOrder -----------------------------
(* What the Demo execution path promises for each canonical Forward Shadow   *)
(* signal, whatever the number of Live processes, crashes and restarts: it   *)
(* is claimed once, and either withheld or submitted once, answered at most  *)
(* once, and closed only after it was answered (services/demo_execution.py,  *)
(* module docstring and "Submit one canonical signal at most once").         *)

CONSTANT Signals

VARIABLE phase   \* phase[s]: how far signal s has gone

Phases == {"unclaimed", "claimed", "withheld", "submitted", "answered", "closed"}

Init == phase = [s \in Signals |-> "unclaimed"]

Move(s, from, to) ==
  /\ phase[s] = from
  /\ phase' = [phase EXCEPT ![s] = to]

Claim(s)    == Move(s, "unclaimed", "claimed")
Withhold(s) == Move(s, "unclaimed", "withheld") \/ Move(s, "claimed", "withheld")
Submit(s)   == Move(s, "claimed", "submitted")
Answer(s)   == Move(s, "submitted", "answered")

(* One reconciliation transaction may close several signals.                 *)
Close(S) ==
  /\ \A s \in S : phase[s] = "answered"
  /\ phase' = [s \in Signals |-> IF s \in S THEN "closed" ELSE phase[s]]

Next ==
  \/ \E s \in Signals : Claim(s) \/ Withhold(s) \/ Submit(s) \/ Answer(s)
  \/ \E S \in SUBSET Signals : Close(S)

Spec == Init /\ [][Next]_phase
==============================================================================
