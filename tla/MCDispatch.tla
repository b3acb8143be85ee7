----------------------------- MODULE MCDispatch -----------------------------
(* NotificationDispatch on small instances: symmetry for TLC.              *)
EXTENDS NotificationDispatch, TLC

Symmetry == Permutations(Connections) \cup Permutations(Dispatches)
=============================================================================
