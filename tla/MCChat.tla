-------------------------------- MODULE MCChat --------------------------------
EXTENDS ChatRuns, TLC

B(turns, threads, typed, streams, faults, crashes) ==
  [turns |-> turns, threads |-> threads, typed |-> typed, streams |-> streams, faults |-> faults,
   crashes |-> crashes, whole |-> TRUE]
MCChatBudgets == {B(3,0,0,0,0,1), B(1,1,1,0,1,0), B(0,3,0,0,0,0), B(0,1,0,2,1,0), B(1,0,0,1,0,1),
                  B(1,0,0,0,2,0), B(0,0,0,2,2,0)}

MCSpec == ChatSpec /\ ChatFairness
===============================================================================
