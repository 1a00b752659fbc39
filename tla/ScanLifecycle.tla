---------------------------- MODULE ScanLifecycle -----------------------------
(***************************************************************************)
(* What the status of a ScanInstance promises to whoever watches it: the   *)
(* transitions the admission webhook lists as logical                      *)
(* (validatePhaseTransition), with the evidence each of them stands for.   *)
(***************************************************************************)
CONSTANT ScanInstances

VARIABLE life

Statuses == {"", "Queued", "InProgress", "Completed", "Failed"}

\* No ScanInstance of this name.
Nothing == [status |-> "none", locations |-> "unknown", report |-> FALSE]

TypeOK ==
    life \in [ScanInstances ->
                 [status : Statuses \cup {"none"},
                  locations : {"unknown", "none", "some"},
                  report : BOOLEAN]]

Init == life = [n \in ScanInstances |-> Nothing]

\* The table of the webhook; the first status may be any.
ValidTransitions(old) ==
    CASE old = "" -> Statuses
      [] old = "Queued" -> {"InProgress", "Failed"}
      [] old = "InProgress" -> {"Completed", "Failed"}
      [] OTHER -> {}

Created(n) ==
    /\ life[n] = Nothing
    /\ life' = [life EXCEPT ![n].status = ""]

Removed(n) ==
    /\ life[n] # Nothing
    /\ life' = [life EXCEPT ![n] = Nothing]

\* A scan that is called Completed had nothing to scan or has its report.
Changed(n, new) ==
    /\ new \in ValidTransitions(life[n].status)
    /\ new = "Completed" =>
          life[n].locations = "none" \/ life[n].report
    /\ life' = [life EXCEPT ![n].status = new]

\* The virtual machines of the backup are established once; a pre-scan that
\* was given up may still find them.
Inspected(n, found) ==
    /\ life[n].status \in {"InProgress", "Failed"}
    /\ life[n].locations = "unknown"
    /\ life' = [life EXCEPT ![n].locations = found]

Reported(n) ==
    /\ life[n].status = "InProgress"
    /\ life[n].locations = "some"
    /\ life' = [life EXCEPT ![n].report = TRUE]

Next ==
    \E n \in ScanInstances :
        \/ Created(n) \/ Removed(n)
        \/ \E s \in Statuses : Changed(n, s)
        \/ \E l \in {"none", "some"} : Inspected(n, l)
        \/ Reported(n)

Spec == Init /\ [][Next]_life

=============================================================================
