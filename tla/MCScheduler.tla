---------------------------- MODULE MCScheduler ----------------------------
(* Values for the constants of Scheduler: periods of a few instructions,   *)
(* different where their order matters, and a tick of 0 that a start from  *)
(* an existing ROM has.                                                    *)
EXTENDS Scheduler

MCPeriod == [timer1 |-> 3, timer2 |-> 2, receive |-> 2, adjtime |-> 2,
             statistics |-> 3, rollover |-> 3]

=============================================================================
