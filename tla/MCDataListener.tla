--------------------------- MODULE MCDataListener ---------------------------
(* Three slots and enough samples to fill the ring, drop some, go     *)
(* round it and register again.                                              *)
EXTENDS DataListener
=============================================================================
