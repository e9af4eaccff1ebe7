----------------------------- MODULE PowerModes -----------------------------
(***************************************************************************)
(* The four power modes by their rank, least to most (PowerMode::ALL), and  *)
(* the firmware profile each of them is seen as from outside.               *)
(***************************************************************************)
EXTENDS Naturals

Eco == 0
Balanced == 1
Performance == 2
Unlimited == 3
PowerModes == Eco..Unlimited

\* No mode: an empty Option.
NoMode == 9

\* The firmware has no profile beyond performance.
Family(mode) == IF mode = Unlimited THEN Performance ELSE mode
=============================================================================
