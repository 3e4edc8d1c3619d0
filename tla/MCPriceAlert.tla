----------------------------- MODULE MCPriceAlert -----------------------------
(* Two users hold the same stock, two jobs overlap; the stop loss is at the  *)
(* one price Yahoo gives, and the monitoring job may raise a stop to it.     *)
EXTENDS PriceAlert, TLC

MCCodeOf == [p \in Position |-> CHOOSE c \in Code : TRUE]
MCPrice == {3}
MCTarget == {[tp |-> 9, sl |-> 3, trail |-> 0, stop |-> 0],
             [tp |-> 9, sl |-> 3, trail |-> 0, stop |-> 3]}
Symmetry == Permutations(Job) \cup Permutations(Position)
===============================================================================
