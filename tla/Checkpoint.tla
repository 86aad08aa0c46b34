----------------------------- MODULE Checkpoint -----------------------------
(***************************************************************************)
(* save_checkpoint and load_checkpoint (megatron/checkpointing.py): the    *)
(* files every model-parallel shard is saved in, the tracker file that     *)
(* names the iteration to restart from, and the collectives that order     *)
(* them.  A rank runs by itself between two collectives and may die        *)
(* anywhere; what is on disk stays.  args.save and args.load name the same *)
(* directory, on a file system all ranks share.                            *)
(*                                                                         *)
(* A file is written in two steps: between them it exists and cannot be    *)
(* loaded.  A tensor is abstracted to the history of training steps that   *)
(* produced it.                                                            *)
(***************************************************************************)
EXTENDS Integers, Sequences

CONSTANTS TrainIters,  \* args.train_iters
          Configs      \* the arguments a job may have

ASSUME TrainItersAssumption == TrainIters \in Nat \ {0}

\* --rampup-batch-size and --global-batch-size.
Rampup == {b \in [start : Nat \ {0}, increment : Nat \ {0},
                  ramup_samples : Nat \ {0}, global : Nat \ {0}] :
             b.start < b.global /\ (b.global - b.start) % b.increment = 0}

\* Ranks are numbered as with pipeline parallelism alone.
Config == [data_parallel_size : Nat \ {0},
           model_parallel_size : Nat \ {0},
           save_interval : Nat \ {0},
           eval_interval : Nat \ {0},
           eval_iters : Nat,
           exit_interval : Nat,             \* 0: None
           exit_duration_in_mins : BOOLEAN, \* is set
           exit_signal_handler : BOOLEAN,
           kill_switch_file : BOOLEAN,      \* is set
           use_distributed_optimizer : BOOLEAN,
           rampup : Rampup]

ASSUME ConfigsAssumption == Configs \subseteq Config

VARIABLES
  args,     \* the arguments of the job, the same on every rank
  pc,       \* pc[r]: where rank r stands
  ret,      \* ret[r]: where it goes when save_checkpoint returns
  dead,     \* the ranks that crashed
  state,    \* state[r]: the training state rank r holds
  files,    \* files[i][sh][k]: what is on disk for iteration i
  tracker,  \* latest_checkpointed_iteration.txt
  saved     \* history: the state of rank 0 when the tracker was last written

WorldSize(config) == config.data_parallel_size * config.model_parallel_size
Ranks == 0 .. WorldSize(args) - 1
Shards == 0 .. args.model_parallel_size - 1
Iterations == 1 .. TrainIters
Kinds == {"model_optim_rng", "distrib_optim"}

Shard(r) == r \div args.data_parallel_size               \* its tensor and pipeline rank
DataParallelRank(r) == r % args.data_parallel_size
Group(r) == {q \in Ranks : Shard(q) = Shard(r)}  \* its data-parallel group

\* A training step: the samples it used, and whether the optimizer applied
\* its update or skipped it.
TrainingStep == [from : Nat, to : Nat, applied : BOOLEAN]

\* What a rank holds: the steps its weights and its optimizer state have
\* gone through, args.iteration, args.consumed_train_samples,
\* args.consumed_valid_samples and the num_steps of the learning-rate
\* scheduler.
State == [model : Seq(TrainingStep), optim : Seq(TrainingStep),
          iteration : Nat, consumed : Nat, consumed_valid : Nat, num_steps : Nat]
Fresh == [model |-> <<>>, optim |-> <<>>, iteration |-> 0, consumed |-> 0,
          consumed_valid |-> 0, num_steps |-> 0]

Absent == [status |-> "absent"]
Partial == [status |-> "partial"]
Complete(s) == [status |-> "complete", state |-> s]

None == -1   \* no tracker file
Empty == 0   \* open(tracker_filename, 'w') has truncated it

Alive(r) == r \notin dead
At(r, l) == pc[r] = l /\ Alive(r)
AllAt(l) == \A r \in Ranks : At(r, l)
Goto(r, l) == pc' = [pc EXCEPT ![r] = l]
Everyone(l) == pc' = [r \in Ranks |-> l]

Write(r, k, content) ==
  files' = [files EXCEPT ![state[r].iteration][Shard(r)][k] = content]

-----------------------------------------------------------------------------
\* save_checkpoint.

\* Mutant: a rank that has nothing to write returns at once.
SaveWritersOnly(r) ==
  /\ At(r, "save")
  /\ Goto(r, IF DataParallelRank(r) # 0 THEN ret[r]
             ELSE IF args.use_distributed_optimizer THEN "gather" ELSE "open_model")
  /\ UNCHANGED <<args, ret, dead, state, files, tracker, saved>>

\* With --use-distributed-optimizer, save_parameter_state comes first: the
\* ranks of a data-parallel group gather their shards on the first.  The
\* others have nothing more to write.
Save(r) ==
  /\ At(r, "save")
  /\ Goto(r, IF args.use_distributed_optimizer THEN "gather"
             ELSE IF DataParallelRank(r) = 0 THEN "open_model" ELSE "save_barrier")
  /\ UNCHANGED <<args, ret, dead, state, files, tracker, saved>>

Gather(r) ==
  /\ \A q \in Group(r) : At(q, "gather")
  /\ pc' = [q \in Ranks |-> IF q \notin Group(r) THEN pc[q]
                            ELSE IF DataParallelRank(q) = 0 THEN "open_optim"
                            ELSE "save_barrier"]
  /\ UNCHANGED <<args, ret, dead, state, files, tracker, saved>>

OpenOptim(r) ==
  /\ At(r, "open_optim")
  /\ Write(r, "distrib_optim", Partial)
  /\ Goto(r, "close_optim")
  /\ UNCHANGED <<args, ret, dead, state, tracker, saved>>

CloseOptim(r) ==
  /\ At(r, "close_optim")
  /\ Write(r, "distrib_optim", Complete(state[r]))
  /\ Goto(r, "open_model")
  /\ UNCHANGED <<args, ret, dead, state, tracker, saved>>

OpenModel(r) ==
  /\ At(r, "open_model")
  /\ Write(r, "model_optim_rng", Partial)
  /\ Goto(r, "close_model")
  /\ UNCHANGED <<args, ret, dead, state, tracker, saved>>

\* Mutant: no barrier between the files and the tracker.
CloseModelNoBarrier(r) ==
  /\ At(r, "close_model")
  /\ Write(r, "model_optim_rng", Complete(state[r]))
  /\ Goto(r, IF r = 0 THEN "open_tracker" ELSE "save_done")
  /\ UNCHANGED <<args, ret, dead, state, tracker, saved>>

CloseModel(r) ==
  /\ At(r, "close_model")
  /\ Write(r, "model_optim_rng", Complete(state[r]))
  /\ Goto(r, "save_barrier")
  /\ UNCHANGED <<args, ret, dead, state, tracker, saved>>

OpenTracker(r) ==
  /\ At(r, "open_tracker")
  /\ tracker' = Empty
  /\ Goto(r, "close_tracker")
  /\ UNCHANGED <<args, ret, dead, state, files, saved>>

CloseTracker(r) ==
  /\ At(r, "close_tracker")
  /\ tracker' = state[r].iteration
  /\ saved' = state[r]
  /\ Goto(r, "save_done")
  /\ UNCHANGED <<args, ret, dead, state, files>>

SaveStep(r) ==
  \/ Save(r) \/ Gather(r) \/ OpenOptim(r) \/ CloseOptim(r)
  \/ OpenModel(r) \/ CloseModel(r) \/ OpenTracker(r) \/ CloseTracker(r)

-----------------------------------------------------------------------------
\* load_checkpoint.

\* Mutant: a tracker that cannot be parsed is taken for a missing one.
LoadEmptyAsNone(r) ==
  /\ At(r, "load")
  /\ Goto(r, IF tracker \in {None, Empty} THEN "loaded" ELSE "metadata")
  /\ state' = [state EXCEPT ![r].iteration = IF tracker = None THEN 0 ELSE tracker]
  /\ UNCHANGED <<args, ret, dead, files, tracker, saved>>

\* _load_base_checkpoint: without a tracker file training starts from
\* scratch; read_metadata exits on a tracker it cannot parse.
Load(r) ==
  /\ At(r, "load")
  /\ Goto(r, CASE tracker = None -> "loaded"
               [] tracker = Empty -> "aborted"
               [] OTHER -> "metadata")
  /\ state' = [state EXCEPT ![r].iteration = IF tracker = None THEN 0 ELSE tracker]
  /\ UNCHANGED <<args, ret, dead, files, tracker, saved>>

\* The all_reduce(MAX) of the iterations the ranks have read.
Metadata ==
  /\ AllAt("metadata")
  /\ LET max_iter == CHOOSE i \in {state[r].iteration : r \in Ranks} :
                       \A r \in Ranks : state[r].iteration <= i
     IN state' = [r \in Ranks |-> [state[r] EXCEPT !.iteration = max_iter]]
  /\ Everyone("load_file")
  /\ UNCHANGED <<args, ret, dead, files, tracker, saved>>

\* Mutant: consumed_train_samples is left at its initial value.
RestoredNoSamples(m, o) == [m EXCEPT !.optim = o.optim, !.consumed = 0]

\* The state of files m (model_optim_rng.pt) and o (where the optimizer's
\* state is).
Restored(m, o) == [m EXCEPT !.optim = o.optim]

\* Every rank loads the files of its shard; the distributed optimizer's
\* are loaded by the first rank of the group, which scatters them.
LoadFile(r) ==
  LET file == files[state[r].iteration][Shard(r)]
      m == file["model_optim_rng"]
      o == IF args.use_distributed_optimizer THEN file["distrib_optim"] ELSE m
  IN /\ At(r, "load_file")
     /\ IF m.status = "complete" /\ o.status = "complete"
        THEN /\ state' = [state EXCEPT ![r] = Restored(m.state, o.state)]
             /\ Goto(r, "loaded")
        ELSE Goto(r, "aborted") /\ UNCHANGED state
     /\ UNCHANGED <<args, ret, dead, files, tracker, saved>>

LoadStep(r) == Load(r) \/ LoadFile(r)
=============================================================================
