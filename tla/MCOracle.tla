------------------------------ MODULE MCOracle -------------------------------
(* Small instances of Oracle for TLC.                                      *)
EXTENDS Oracle

CONSTANTS c1, c2, c3, c4

MCThree == {c1, c2, c3}
MCFour == {c1, c2, c3, c4}

=============================================================================
