----------------------------- MODULE MCSignalJobs -----------------------------
(* One analyzer and one generator with two workers each, two stocks of one code. *)
EXTENDS SignalJobs

CONSTANTS s1, s2, a, g

Weak == [entry |-> 1, score |-> 1, rr |-> 2, fit |-> TRUE]
Good == [entry |-> 1, score |-> 2, rr |-> 2, fit |-> TRUE]
MCPlan == {Weak, Good}
MCCode == [s \in Stock |-> "code"]
MCLists == {<<>>, <<s1, s1>>, <<s1, s2>>}
==============================================================================
