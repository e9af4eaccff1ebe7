------------------------------ MODULE FanTenure ------------------------------
(***************************************************************************)
(* What the fan module promises about who drives the fans, with no thread, *)
(* no lock and no firmware in it: the fans have one tenant at a time, every *)
(* tenancy begins from and returns to the control loop, only the tenant     *)
(* orders a speed, and once the daemon has started to leave the control     *)
(* loop orders nothing more.  FanOwnership implements it.                   *)
(***************************************************************************)

CONSTANT Orders   \* what the pwm files can be told; "auto" is one of them

VARIABLES
  tenant,   \* who drives the fans
  order,    \* the last order written to the pwm files
  closed    \* the daemon is on its way out

vars == <<tenant, order, closed>>

Tenants == {"control", "measuring", "starting", "running", "stopping"}

\* The types of the variables.
TypeOK ==
  /\ tenant \in Tenants
  /\ order \in Orders
  /\ closed \in BOOLEAN

Init ==
  /\ tenant = "control"
  /\ order \in Orders
  /\ closed = FALSE

Become(from, to) ==
  /\ tenant = from
  /\ tenant' = to
  /\ UNCHANGED <<order, closed>>

\* The control loop writes the mode in force.
Control ==
  /\ tenant = "control"
  /\ ~closed
  /\ order' \in Orders
  /\ UNCHANGED <<tenant, closed>>

\* A calibration, a probe or a write check moves the fans it has claimed.
Measure ==
  /\ tenant = "measuring"
  /\ order' \in Orders
  /\ UNCHANGED <<tenant, closed>>

\* Handing the fans to the firmware is the one order anybody may give.
ToFirmware ==
  /\ order' = "auto"
  /\ UNCHANGED <<tenant, closed>>

Close ==
  /\ closed' = TRUE
  /\ UNCHANGED <<tenant, order>>

Next ==
  \/ Control
  \/ Measure
  \/ ToFirmware
  \/ Close
  \/ Become("control", "measuring")
  \/ Become("measuring", "control")
  \/ Become("control", "starting")
  \/ Become("starting", "control")
  \/ Become("starting", "running")
  \/ Become("running", "stopping")
  \/ Become("stopping", "control")

Spec == Init /\ [][Next]_vars

=============================================================================
