----------------------------- MODULE MCTraining -----------------------------
\* Instances of Training for TLC.
EXTENDS Training

\* The batch size grows from 1 to 2 over the first 2 samples.
MCRampup == [start |-> 1, increment |-> 1, ramup_samples |-> 2, global |-> 2]

MCJob == [data_parallel_size |-> 1, model_parallel_size |-> 2,
          save_interval |-> 2, eval_interval |-> 2, eval_iters |-> 1,
          exit_interval |-> 0, exit_duration_in_mins |-> FALSE,
          exit_signal_handler |-> FALSE, kill_switch_file |-> FALSE,
          use_distributed_optimizer |-> FALSE, rampup |-> MCRampup]

\* A job that runs to the end, and one with the distributed optimizer that
\* has to be submitted again after every second iteration.
MCLong == {MCJob, [MCJob EXCEPT !.use_distributed_optimizer = TRUE, !.exit_interval = 2]}

\* Each way to leave the job early, with two replicas that both save or of
\* which one does, and all of them together, the kill switch included, with
\* one rank.
MCReplicas == [MCJob EXCEPT !.data_parallel_size = 2, !.model_parallel_size = 1]
MCSharded == [MCReplicas EXCEPT !.use_distributed_optimizer = TRUE]
MCExits == {[MCSharded EXCEPT !.exit_interval = 1],
            [MCSharded EXCEPT !.exit_duration_in_mins = TRUE],
            [MCReplicas EXCEPT !.exit_signal_handler = TRUE]}
MCEveryExit == {[j EXCEPT !.model_parallel_size = 1, !.exit_interval = 2,
                          !.exit_duration_in_mins = TRUE,
                          !.exit_signal_handler = TRUE, !.kill_switch_file = TRUE] :
                  j \in {MCJob, [MCJob EXCEPT !.save_interval = 3]}}

MCConfigs == MCLong \cup MCExits \cup MCEveryExit
MCPlain == {MCJob}
MCKillSwitch == {[MCJob EXCEPT !.kill_switch_file = TRUE]}
=============================================================================
