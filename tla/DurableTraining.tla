-------------------------- MODULE DurableTraining --------------------------
(***************************************************************************)
(* What pretrain() (training.py) with --save and --load promises to whoever*)
(* submits the job: training is one history of steps, each on the samples  *)
(* that follow those of the step before, and the checkpoints publish       *)
(* longer and longer beginnings of it.  A relaunched job goes on from      *)
(* exactly the last published one, or refuses to start; it never trains    *)
(* from anything else.  A crash loses at most interval steps, and a job    *)
(* that stops by itself loses none.                                        *)
(***************************************************************************)
EXTENDS Integers, Sequences

VARIABLES interval,  \* args.save_interval
          trained,   \* the steps the model has gone through
          durable,   \* the steps the last published checkpoint has gone through
          status     \* "training", "stopped" or "refused"

vars == <<interval, trained, durable, status>>

\* The number of samples that have been used.
Used(steps) == IF steps = <<>> THEN 0 ELSE steps[Len(steps)].to

Init == /\ interval \in Nat \ {0}
        /\ trained = <<>> /\ durable = <<>> /\ status = "training"

Step == /\ status = "training"
        /\ Len(trained) < Len(durable) + interval
        /\ Len(trained') = Len(trained) + 1
        /\ SubSeq(trained', 1, Len(trained)) = trained
        /\ trained'[Len(trained')].from = Used(trained)
        /\ Used(trained') > Used(trained)
        /\ UNCHANGED <<interval, durable, status>>

Publish == /\ status = "training"
           /\ durable' = trained
           /\ UNCHANGED <<interval, trained, status>>

Stop == /\ status = "training"
        /\ durable = trained
        /\ status' = "stopped"
        /\ UNCHANGED <<interval, trained, durable>>

Relaunch == /\ trained' = durable
            /\ status' = "training"
            /\ UNCHANGED <<interval, durable>>

Refuse == /\ trained = durable
          /\ status' = "refused"
          /\ UNCHANGED <<interval, trained, durable>>

Next == Step \/ Publish \/ Stop \/ Relaunch \/ Refuse

Spec == Init /\ [][Next]_vars
=============================================================================
