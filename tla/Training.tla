------------------------------ MODULE Training ------------------------------
(***************************************************************************)
(* pretrain() and train() (megatron/training.py) on every rank of a job,   *)
(* from one launch to the next: start-up, loading, the training loop with  *)
(* its saves and its four ways to leave early, and the last save, while    *)
(* ranks crash, SIGTERM arrives and the kill-switch file appears.          *)
(*                                                                         *)
(* A rank runs by itself from one collective to the next; a collective     *)
(* completes when every rank of the job has entered it.  train_step, which *)
(* is full of collectives, is one of them.                                 *)
(***************************************************************************)
EXTENDS Checkpoint

CONSTANTS MaxRestarts  \* bound on how often the job is launched again

ASSUME MaxRestartsAssumption == MaxRestarts \in Nat

VARIABLES
  saved_checkpoint,  \* saved_checkpoint[r]: this iteration has been saved
  data_iterator,     \* data_iterator[r]: samples the train data iterator is past
  valid_iterator,    \* valid_iterator[r]: and the one of the validation data
  batch_size,        \* batch_size[r]: samples of get_num_microbatches() microbatches
  signal,            \* signal[r]: r has received SIGTERM
  kill_file,         \* args.kill_switch_file exists
  restarts           \* how often the job was launched again

iterators == <<data_iterator, valid_iterator, batch_size>>
local == <<saved_checkpoint, iterators>>
env == <<signal, kill_file, restarts>>
disk == <<files, tracker, saved>>
vars == <<args, pc, ret, dead, state, disk, local, env>>

\* get_num_microbatches() * micro_batch_size * data_parallel_size after
\* update_num_microbatches(consumed): the batch size grows to its full
\* value over the first ramup_samples samples.
GlobalBatchSize(consumed) ==
  LET b == args.rampup
      num_increments == (b.global - b.start) \div b.increment
  IN IF consumed > b.ramup_samples THEN b.global
     ELSE b.start + ((consumed * num_increments) \div b.ramup_samples) * b.increment

-----------------------------------------------------------------------------
\* Start-up.

KillSwitch == args.kill_switch_file /\ kill_file

\* The first kill-switch test: no collective has been entered yet.
Initialize(r) ==
  /\ At(r, "init")
  /\ Goto(r, IF KillSwitch THEN "exited" ELSE "start_time")
  /\ UNCHANGED <<args, ret, dead, state, disk, local, env>>

StartTime ==
  /\ AllAt("start_time")
  /\ Everyone("load")
  /\ UNCHANGED <<args, ret, dead, state, disk, local, env>>

\* An older checkpoint does not know how much validation data was used.
ConsumedValid(s) ==
  IF s.iteration > 0 /\ s.consumed_valid = 0
  THEN (s.iteration \div args.eval_interval) * args.eval_iters * args.rampup.global
  ELSE s.consumed_valid

\* build_train_valid_test_data_iterators; the batch size is the one
\* load_checkpoint has left.
BuildData(r) ==
  /\ At(r, "build_data")
  /\ state' = [state EXCEPT ![r].consumed_valid = ConsumedValid(state[r])]
  /\ data_iterator' = [data_iterator EXCEPT ![r] = state[r].consumed]
  /\ valid_iterator' = [valid_iterator EXCEPT ![r] = ConsumedValid(state[r])]
  /\ batch_size' = [batch_size EXCEPT ![r] = GlobalBatchSize(state[r].consumed)]
  /\ Goto(r, "loop")
  /\ UNCHANGED <<args, ret, dead, disk, saved_checkpoint, env>>

-----------------------------------------------------------------------------
\* Barriers.  One barrier is like another: ranks that wait in different
\* ones let each other go.

BarrierLabels == {"loaded", "save_timer", "save_barrier", "save_done", "stop_timer",
                  "exit_barrier"}

AfterTraining == IF args.eval_iters > 0 THEN "last_evaluations" ELSE "finished"

AfterBarrier(r) ==
  CASE pc[r] = "loaded" -> "build_data"
    [] pc[r] = "save_timer" -> "save"
    [] pc[r] = "save_barrier" -> IF r = 0 THEN "open_tracker" ELSE "save_done"
    [] pc[r] = "save_done" -> IF ret[r] = "finished" THEN AfterTraining ELSE "stop_timer"
    [] pc[r] = "stop_timer" -> ret[r]
    [] pc[r] = "exit_barrier" -> "exited"

Barrier ==
  /\ \A r \in Ranks : Alive(r) /\ pc[r] \in BarrierLabels
  /\ pc' = [r \in Ranks |-> AfterBarrier(r)]
  /\ UNCHANGED <<args, ret, dead, state, disk, local, env>>

-----------------------------------------------------------------------------
\* The training loop.

\* save_checkpoint_and_time, then on to l.
SaveAndTime(r, l) == Goto(r, "save_timer") /\ ret' = [ret EXCEPT ![r] = l]

\* Mutant: one iteration too many.
LoopOneMore(r) ==
  /\ At(r, "loop")
  /\ saved_checkpoint' = [saved_checkpoint EXCEPT ![r] = FALSE]
  /\ IF state[r].iteration <= TrainIters
     THEN Goto(r, "train_step") /\ UNCHANGED ret
     ELSE Goto(r, "save") /\ ret' = [ret EXCEPT ![r] = "finished"]
  /\ UNCHANGED <<args, dead, state, disk, iterators, env>>

\* The loop condition.  When training is done pretrain() saves once more.
Loop(r) ==
  /\ At(r, "loop")
  /\ saved_checkpoint' = [saved_checkpoint EXCEPT ![r] = FALSE]
  /\ IF state[r].iteration < TrainIters
     THEN Goto(r, "train_step") /\ UNCHANGED ret
     ELSE Goto(r, "save") /\ ret' = [ret EXCEPT ![r] = "finished"]
  /\ UNCHANGED <<args, dead, state, disk, iterators, env>>

AfterEvaluation == IF args.exit_signal_handler THEN "signals" ELSE "checkpoint"
AfterStep(iteration) ==
  IF args.eval_iters > 0 /\ iteration % args.eval_interval = 0 THEN "evaluate"
  ELSE AfterEvaluation

\* train_step and the counters train() keeps of it.  The optimizer applies
\* the update or skips it, on every rank alike; the learning-rate
\* scheduler advances only with an update.
Trained(s, from, applied) ==
  LET new_samples == GlobalBatchSize(s.consumed)
      step == [from |-> from, to |-> from + new_samples, applied |-> applied]
  IN [model |-> Append(s.model, step), optim |-> Append(s.optim, step),
      iteration |-> s.iteration + 1,
      consumed |-> s.consumed + new_samples,
      consumed_valid |-> s.consumed_valid,
      num_steps |-> s.num_steps + (IF applied THEN new_samples ELSE 0)]

TrainStep ==
  /\ AllAt("train_step")
  /\ \E applied \in BOOLEAN :
       state' = [r \in Ranks |-> Trained(state[r], data_iterator[r], applied)]
  /\ data_iterator' = [r \in Ranks |->
       data_iterator[r] + GlobalBatchSize(state[r].consumed)]
  /\ batch_size' = [r \in Ranks |-> GlobalBatchSize(state[r].consumed)]
  /\ pc' = [r \in Ranks |-> AfterStep(state[r].iteration + 1)]
  /\ UNCHANGED <<args, ret, dead, disk, saved_checkpoint, valid_iterator, env>>

\* Samples of an evaluation: batches of the size that is set.
Draw(r) == args.eval_iters * batch_size[r]

\* evaluate(): forward passes of all ranks.
Evaluate ==
  /\ AllAt("evaluate")
  /\ state' = [r \in Ranks |-> [state[r] EXCEPT !.consumed_valid = @ + Draw(r)]]
  /\ valid_iterator' = [r \in Ranks |-> valid_iterator[r] + Draw(r)]
  /\ Everyone(AfterEvaluation)
  /\ UNCHANGED <<args, ret, dead, disk, saved_checkpoint, data_iterator, batch_size, env>>

\* After training and the last save, on the validation and on the test
\* data, which evaluate() counts as validation data.
LastEvaluations ==
  /\ AllAt("last_evaluations")
  /\ state' = [r \in Ranks |-> [state[r] EXCEPT !.consumed_valid = @ + 2 * Draw(r)]]
  /\ valid_iterator' = [r \in Ranks |-> valid_iterator[r] + Draw(r)]
  /\ Everyone("finished")
  /\ UNCHANGED <<args, ret, dead, disk, saved_checkpoint, data_iterator, batch_size, env>>

\* Mutant: a rank looks at its own flag only.
OwnSignal(r) == signal[r]

\* any(signal_handler.signals_received()), after the all_gather.
SignalReceived(r) == \E q \in Ranks : signal[q]

Signals ==
  /\ AllAt("signals")
  /\ pc' = [r \in Ranks |-> IF SignalReceived(r) THEN "save_timer" ELSE "checkpoint"]
  /\ ret' = [r \in Ranks |-> IF SignalReceived(r) THEN "exited" ELSE ret[r]]
  /\ UNCHANGED <<args, dead, state, disk, local, env>>

AfterCheckpoint == IF args.exit_duration_in_mins THEN "duration" ELSE "exits"

Checkpoint(r) ==
  /\ At(r, "checkpoint")
  /\ IF state[r].iteration % args.save_interval = 0
     THEN /\ SaveAndTime(r, AfterCheckpoint)
          /\ saved_checkpoint' = [saved_checkpoint EXCEPT ![r] = TRUE]
     ELSE Goto(r, AfterCheckpoint) /\ UNCHANGED <<ret, saved_checkpoint>>
  /\ UNCHANGED <<args, dead, state, disk, iterators, env>>

\* Each rank compares its own clock; all_reduce(MAX) makes one decision.
Duration ==
  /\ AllAt("duration")
  /\ \E late \in SUBSET Ranks :
       LET done == late # {}
       IN /\ pc' = [r \in Ranks |-> IF ~done THEN "exits"
                                    ELSE IF saved_checkpoint[r] THEN "exited"
                                    ELSE "save_timer"]
          /\ ret' = [r \in Ranks |-> IF done THEN "exited" ELSE ret[r]]
  /\ UNCHANGED <<args, dead, state, disk, local, env>>

\* Mutant: an exit saves even what the interval has just saved.
LeaveAndSave(r) == SaveAndTime(r, "exit_barrier")

\* Leave the job, saving first what is not saved yet.
Leave(r) ==
  IF saved_checkpoint[r] THEN Goto(r, "exit_barrier") /\ UNCHANGED ret
  ELSE SaveAndTime(r, "exit_barrier")

\* --exit-interval, and the kill switch, which every rank looks up by
\* itself.
Exits(r) ==
  /\ At(r, "exits")
  /\ IF \/ args.exit_interval # 0 /\ state[r].iteration % args.exit_interval = 0
        \/ KillSwitch
     THEN Leave(r)
     ELSE Goto(r, "loop") /\ UNCHANGED ret
  /\ UNCHANGED <<args, dead, state, disk, local, env>>

RankStep(r) ==
  \/ Initialize(r) \/ BuildData(r) \/ Loop(r) \/ Checkpoint(r) \/ Exits(r)
  \/ (SaveStep(r) \/ LoadStep(r)) /\ UNCHANGED <<local, env>>

Collective ==
  \/ StartTime \/ Barrier \/ TrainStep \/ Evaluate \/ LastEvaluations \/ Signals \/ Duration
  \/ Metadata /\ UNCHANGED <<local, env>>

-----------------------------------------------------------------------------
\* The world around the job.

Terminal == {"exited", "finished", "aborted"}

Crash(r) ==
  /\ Alive(r) /\ pc[r] \notin Terminal
  /\ restarts < MaxRestarts
  /\ dead' = dead \cup {r}
  /\ UNCHANGED <<args, pc, ret, state, disk, local, env>>

Launch ==
  /\ restarts < MaxRestarts
  /\ restarts' = restarts + 1
  /\ Everyone("init")
  /\ ret' = [r \in Ranks |-> "init"]
  /\ dead' = {}
  /\ state' = [r \in Ranks |-> Fresh]
  /\ saved_checkpoint' = [r \in Ranks |-> FALSE]
  /\ data_iterator' = [r \in Ranks |-> 0]
  /\ valid_iterator' = [r \in Ranks |-> 0]
  /\ batch_size' = [r \in Ranks |-> GlobalBatchSize(0)]
  /\ signal' = [r \in Ranks |-> FALSE]
  /\ UNCHANGED <<args, disk, kill_file>>

\* When a rank crashes the launcher stops the others and starts all again.
Restart == dead # {} /\ Launch

\* Somebody submits a job again that has ended.
Resubmit == (\A r \in Ranks : pc[r] \in {"exited", "finished"}) /\ Launch

Sigterm(r) ==
  /\ args.exit_signal_handler /\ ~signal[r]
  /\ Alive(r) /\ pc[r] \notin Terminal
  /\ signal' = [signal EXCEPT ![r] = TRUE]
  /\ UNCHANGED <<args, pc, ret, dead, state, disk, local, kill_file, restarts>>

CreateKillFile ==
  /\ args.kill_switch_file /\ ~kill_file
  /\ kill_file' = TRUE
  /\ UNCHANGED <<args, pc, ret, dead, state, disk, local, signal, restarts>>

Stopped == \A r \in Ranks : pc[r] \in {"exited", "finished"}
Refused == \E r \in Ranks : pc[r] = "aborted"
Over == (Stopped \/ Refused) /\ UNCHANGED vars

Init ==
  /\ args \in Configs
  /\ pc = [r \in Ranks |-> "init"]
  /\ ret = [r \in Ranks |-> "init"]
  /\ dead = {}
  /\ state = [r \in Ranks |-> Fresh]
  /\ files = [i \in Iterations |-> [sh \in Shards |-> [k \in Kinds |-> Absent]]]
  /\ tracker = None
  /\ saved = Fresh
  /\ saved_checkpoint = [r \in Ranks |-> FALSE]
  /\ data_iterator = [r \in Ranks |-> 0]
  /\ valid_iterator = [r \in Ranks |-> 0]
  /\ batch_size = [r \in Ranks |-> GlobalBatchSize(0)]
  /\ signal = [r \in Ranks |-> FALSE]
  /\ kill_file = FALSE
  /\ restarts = 0

Next ==
  \/ \E r \in Ranks : RankStep(r) \/ Crash(r) \/ Sigterm(r)
  \/ Collective \/ Restart \/ Resubmit \/ CreateKillFile \/ Over

\* Ranks run on their own processors, a collective that all ranks have
\* entered completes, and a job with a dead rank is started again.
Fairness == /\ \A r \in UNION {0 .. WorldSize(c) - 1 : c \in Configs} :
                 WF_vars(r \in Ranks /\ RankStep(r))
            /\ WF_vars(Collective)
            /\ WF_vars(Restart)

Spec == Init /\ [][Next]_vars /\ Fairness

-----------------------------------------------------------------------------
Waiting == {"start_time", "metadata", "train_step", "evaluate", "last_evaluations",
            "signals", "duration"}
             \cup BarrierLabels
Labels == Waiting \cup Terminal \cup
          {"init", "load", "load_file", "build_data", "loop", "checkpoint", "exits",
           "save", "gather", "open_optim", "close_optim", "open_model", "close_model",
           "open_tracker", "close_tracker"}

Content == {Absent, Partial} \cup [status : {"complete"}, state : State]

\* The types of the variables.
TypeOK ==
  /\ args \in Configs
  /\ pc \in [Ranks -> Labels] /\ ret \in [Ranks -> Labels]
  /\ dead \subseteq Ranks
  /\ state \in [Ranks -> State]
  /\ files \in [Iterations -> [Shards -> [Kinds -> Content]]]
  /\ tracker \in {None, Empty} \cup Iterations
  /\ saved \in State
  /\ saved_checkpoint \in [Ranks -> BOOLEAN]
  /\ data_iterator \in [Ranks -> Nat] /\ valid_iterator \in [Ranks -> Nat]
  /\ batch_size \in [Ranks -> Nat \ {0}]
  /\ signal \in [Ranks -> BOOLEAN]
  /\ kill_file \in BOOLEAN
  /\ restarts \in 0 .. MaxRestarts

\* Ranks that wait for the others wait in the same collective, whatever
\* each has read or decided by itself since the last one.
CollectivesMatch ==
  \A r, q \in Ranks : pc[r] \in Waiting /\ pc[q] \in Waiting => pc[r] = pc[q]

\* Ranks that train together hold the weights and the optimizer state of
\* the same steps, and the same counters: a restart never puts shards of
\* different saves together, nor weights with another optimizer state.
RanksAgree ==
  \A r, q \in Ranks : At(r, "train_step") /\ At(q, "train_step") =>
    /\ state[r] = state[q] /\ data_iterator[r] = data_iterator[q]
    /\ state[r].model = state[r].optim

\* f[1] + ... + f[n].
Total(f, n) ==
  LET sum[k \in 0 .. n] == IF k = 0 THEN 0 ELSE sum[k-1] + f[k] IN sum[n]

\* The samples of the steps whose update was applied.
AppliedSamples(steps) ==
  Total([i \in DOMAIN steps |->
           IF steps[i].applied THEN steps[i].to - steps[i].from ELSE 0], Len(steps))

\* The samples of the evaluations after the steps so far.
EvaluatedSamples(steps) ==
  Total([i \in DOMAIN steps |->
           IF i % args.eval_interval = 0
           THEN args.eval_iters * (steps[i].to - steps[i].from) ELSE 0], Len(steps))

\* The samples the steps were trained on, and the counters of them.
TrainAccounting ==
  \A r \in Ranks : At(r, "train_step") =>
    LET steps == state[r].model
        used == IF steps = <<>> THEN 0 ELSE steps[Len(steps)].to
    IN /\ \A i \in DOMAIN steps :
            steps[i].from = (IF i = 1 THEN 0 ELSE steps[i-1].to)
       /\ state[r].consumed = used /\ data_iterator[r] = used
       /\ state[r].iteration = Len(steps)
       /\ state[r].num_steps = AppliedSamples(steps)

\* Over all launches every sample is used once and in order, the samples
\* counted as consumed are those used, and the learning-rate scheduler has
\* counted those of the applied updates.  The evaluation after a step draws
\* the same validation samples in every launch, the ones after those of the
\* evaluations before it; no evaluation, those after training included,
\* draws more than build_train_valid_test_datasets has asked for.
Accounting ==
  /\ TrainAccounting
  /\ \A r \in Ranks : At(r, "train_step") =>
       /\ valid_iterator[r] = EvaluatedSamples(state[r].model)
       /\ state[r].consumed_valid = valid_iterator[r]
  /\ \A r \in Ranks :
       valid_iterator[r] <=
         (TrainIters \div args.eval_interval + 1) * args.eval_iters * args.rampup.global

\* Every file of iteration i is complete, and of the last published save.
Whole(i) ==
  \A sh \in Shards, k \in Kinds :
    k = "model_optim_rng" \/ args.use_distributed_optimizer =>
      files[i][sh][k] = Complete(saved)

\* "Tracker file records the latest checkpoint during training to restart
\* from": whenever it names an iteration, all files of that iteration can
\* be loaded.
TrackerNamesCheckpoint == tracker \in Iterations => Whole(tracker)

\* ... as long as there is training left to do.
LatestCheckpointWhole == tracker \in 1 .. TrainIters - 1 => Whole(tracker)

\* Every launch ends, one way or another.
Stops == <>[](Stopped \/ Refused)

\* Some rank has not yet loaded what it resumes from, or never will.
Loading == \E r \in Ranks :
  \/ pc[r] \in {"init", "start_time", "load", "metadata", "load_file", "loaded", "aborted"}
  \/ pc[r] = "exited" /\ ret[r] = "init"

\* "If found will automatically exit the program at runtime": a job that is
\* past start-up ends once the kill-switch file exists.
KillSwitchExits == kill_file /\ ~Loading ~> Stopped \/ Refused

\* Ranks hold different weights: nothing a job may have trained.
Disagreement == <<"disagreement">>

\* While ranks are loading, what has been trained is what was last
\* published.
Durable == INSTANCE DurableTraining WITH
  interval <- args.save_interval,
  trained <- IF Loading THEN saved.model
             ELSE IF \A r \in Ranks : /\ state[r].model = state[0].model
                                      /\ state[r].optim = state[0].model
             THEN state[0].model ELSE Disagreement,
  durable <- saved.model,
  status <- IF Refused THEN "refused" ELSE IF Stopped THEN "stopped" ELSE "training"

\* The job implements durable training: whatever crashes, signals and exits
\* come in between, pretrain() goes on from exactly the last published
\* checkpoint or refuses to start, and stops with everything saved.
ImplementsDurableTraining == Durable!Spec
=============================================================================
