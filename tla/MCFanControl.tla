---------------------------- MODULE MCFanControl ----------------------------
EXTENDS FanControl

\* The firmware's own control, a curve, and a speed under the floor.
MCRequests == {[mode |-> m, pwm |-> None] : m \in {"auto", "curve"}} \cup
              {[mode |-> "manual", pwm |-> "slow"]}

\* A daemon that found the firmware in control, or one that restored its curve.
MCInit == Init /\ <<setting.mode, setting.owned>> \in {<<"auto", FALSE>>, <<"curve", TRUE>>}

MCSpec == MCInit /\ [][Next]_vars /\ Fairness
=============================================================================
