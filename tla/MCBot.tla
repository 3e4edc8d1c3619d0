--------------------------------- MODULE MCBot ---------------------------------
(* Dialogues over two handlers and two drafts, and errands two at a time. *)
EXTENDS Bot, TLC

CONSTANTS h1, h2, e1, e2

MCMenus ==
  {[does |-> {"set", "exit", "analyze", "cancel"}, surprises |-> 2],
   [does |-> {"analyze", "refresh", "position", "ai"}, surprises |-> 4]}
MCPrompts == {2, 3, 5}

Symmetry == Permutations({h1, h2}) \cup Permutations({e1, e2})
==============================================================================
