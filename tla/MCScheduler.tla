----------------------------- MODULE MCScheduler -----------------------------
(* A small instance of Scheduler: cron expressions fire every second instant. *)
EXTENDS Scheduler, TLC

MCCronNext(s, t) == 2 * (t \div 2 + 1)
Symmetry == Permutations(HttpCaller)
==============================================================================
