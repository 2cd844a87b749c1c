----------------------------- MODULE MCWorkQueue -----------------------------
(***************************************************************************)
(* Runs the two programs of exercise06 on the same instance: `program`     *)
(* says which of them is running.                                          *)
(***************************************************************************)
EXTENDS CondConsumers, SpinConsumers

VARIABLE program

MCVars == <<vars, program>>

MCInit == Init /\ program \in {"task2", "task3"}

MainStep == \/ program = "task3" /\ CondMain
            \/ program = "task2" /\ SpinMain

Step(c) == \/ program = "task3" /\ Alive /\ CondStep(c)
           \/ program = "task2" /\ Alive /\ SpinStep(c)

MCNext == /\ \/ program = "task3" /\ CondNext
             \/ program = "task2" /\ SpinNext
          /\ UNCHANGED program

\* The fairness of the program that is running.
MCFairness == /\ WF_MCVars(MainStep /\ UNCHANGED program)
              /\ SF_MCVars(ProducerLock /\ UNCHANGED program)
              /\ \A c \in Consumers :
                   /\ WF_MCVars(Step(c) /\ UNCHANGED program)
                   /\ SF_MCVars(Alive /\ Lock(c) /\ UNCHANGED program)

MCSpec == MCInit /\ [][MCNext]_MCVars /\ MCFairness
=============================================================================
