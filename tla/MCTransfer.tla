----------------------------- MODULE MCTransfer -----------------------------
EXTENDS Transfer

OneRange  == <<[start |-> 0, end |-> FileSize - 1]>>
TwoRanges == <<[start |-> 0, end |-> 0], [start |-> 1, end |-> FileSize - 1]>>
=============================================================================
