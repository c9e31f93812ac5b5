----------------------------- MODULE MCDispatch -----------------------------
EXTENDS Dispatch

CONSTANTS c1, c2, c3

TwoSources == {[source |-> "a", proxy |-> "p"], [source |-> "a", proxy |-> "q"],
               [source |-> "b", proxy |-> NoProxy]}
TwoRanges == <<c1, c2>>
=============================================================================
