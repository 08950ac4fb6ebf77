-------------------------- MODULE MCAirplaySession --------------------------
(* AirplaySession for TLC: the session addresses are interchangeable. *)
EXTENDS AirplaySession, TLC

Addresses == Permutations(Sessions)
=============================================================================
