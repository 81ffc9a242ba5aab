--------------------------- MODULE MCAcquisition ---------------------------
(* A fast sensor on the base tick and a slow one on tick_source4 whose       *)
(* initialisation may hang, shared by two clients.                           *)
EXTENDS Acquisition, Bitwise, TLC

CONSTANTS acc, prs

MCDivider == (acc :> 1) @@ (prs :> 4)

\* The mask test of the callback, event = count ^ (count - 1) and event & d, in
\* four bits instead of 32, agrees with Fires on every value of the counter.
ASSUME FiresIsTheMaskTest ==
  \A n \in 0 .. 7, d \in {1, 2, 4, 8} :
    ((n ^^ ((n - 1) % 16)) & d # 0) <=> Fires(d, n)
=============================================================================
