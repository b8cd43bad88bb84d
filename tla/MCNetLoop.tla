---- MODULE MCNetLoop ----
\* Two connection numbers beside the listening socket and a receive buffer of
\* two bytes, so that three bytes fill it and leave one behind.
EXTENDS NetLoop

MCBudget == [parent |-> 5, tame |-> 3, wild |-> 2]
====
