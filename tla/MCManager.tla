----------------------------- MODULE MCManager -----------------------------
(* Four Bundles: a requires b, b and c claim one resource, d is blocked.     *)
EXTENDS Manager

CONSTANTS a, b, c, d

MCRequires == [x \in Bundles |-> IF x = a THEN {b} ELSE {}]

=============================================================================
