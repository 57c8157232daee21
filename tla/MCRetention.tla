---------------------------- MODULE MCRetention ----------------------------
(* Small instances of Retention for TLC. *)
EXTENDS Retention, TLC

CONSTANTS k1, k2, p1

TwoKeys == {k1, k2}
TwoGroups == [k \in TwoKeys |-> k]
OneKey == {k1}
OneKeyGroup == [k \in OneKey |-> k1]
OnePath == {p1}

\* Sessions are interchangeable when each is a group of its own.
KeySymmetry == Permutations(TwoKeys)
=============================================================================
