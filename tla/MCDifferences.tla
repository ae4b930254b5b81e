---------------------------- MODULE MCDifferences ----------------------------
(* Differences with widths of 2, 3, 4 and 6 bits and pages of 4 bytes.     *)
EXTENDS Differences

MCCounters == {0, 1, 3, 9, 31, 32, 63}
MCCharges  == {0, 2, 5, 8, 15}
MCAmounts  == {4, 7, 13, 30}
=============================================================================
