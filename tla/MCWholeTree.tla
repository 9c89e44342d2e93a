----------------------------- MODULE MCWholeTree -----------------------------
(* All trees of binary nodes up to a depth. *)
EXTENDS WholeTree

TwoKeys == {"a", "b"}

=============================================================================
