---------------------------- MODULE DatasetCache ----------------------------
(***************************************************************************)
(* Building the training dataset at the start of a job: the ranks with     *)
(* tensor-parallel rank 0 construct a GPTDataset for every corpus, and a   *)
(* BlendableDataset over several.  Rank 0 builds the indices that are not  *)
(* on the disk and writes them there, all ranks wait for it and load them  *)
(* (gpt_dataset.py, blendable_dataset.py).  Writing may fail, and the job  *)
(* may die at any time and be launched again over what it left.            *)
(***************************************************************************)
EXTENDS DatasetIndex

CONSTANTS
  R,          \* ranks that build datasets: R of the job's
  Jobs,       \* the jobs the model may be run with
  MaxRestarts \* how often a job is launched again

\* A job has a corpus for every data prefix, the weights of a blend, its
\* number of samples, and whether the blend is cached (data_cache_path).
IsJob(j) ==
  /\ j.weights \in Seq(Nat \ {0}) \ {<<>>} /\ Len(j.weights) = Len(j.corpora)
  /\ j.num_samples \in Nat \ {0} /\ j.data_cache_path \in BOOLEAN
  /\ AreSums(j)
  /\ \A k \in Weights(j) :
       LET c == j.corpora[k]
       IN /\ c.seq_length \in Nat \ {0, 1} /\ TokensPerEpoch(c) \in Nat \ {0, 1}
          /\ IsFiniteSet(Documents(c)) /\ \A d \in Documents(c) : c.sizes[d] \in Nat
          /\ c.num_samples = IF Len(j.corpora) = 1 THEN j.num_samples
                             ELSE DatasetNumSamples(j, k)
          /\ IsDocIdx(c) /\ IsShuffleIdx(c) /\ IsStart(c)

ASSUME RanksAssumption == R \in Nat \ {0}
ASSUME RestartsAssumption == MaxRestarts \in Nat
ASSUME JobsAssumption == \A j \in Jobs : IsJob(j)

VARIABLES
  args,
  pc,      \* pc[r]: where rank r is
  at,      \* at[r]: the dataset it is constructing, the blend after all corpora
  file,    \* the file rank 0 is at
  build,   \* rank 0's state of build_sample_idx
  blend,   \* blend[r]: rank r's state of build_blending_indices
  success, \* data_cache_success of rank 0
  disk,    \* disk[k][f]: what is in file f of dataset k
  loaded,  \* loaded[r][k]: the index of dataset k rank r has loaded
  restarts

vars == <<args, pc, at, file, build, blend, success, disk, loaded, restarts>>

Ranks == 0 .. R - 1
K == Len(args.corpora)
Blended == K > 1
Corpus(k) == args.corpora[k]

\* The files of an index in the order rank 0 writes them; the description
\* of a blend is not looked for.
Files(k) == IF k <= K THEN <<"desc", "doc", "sample", "shuffle">> ELSE <<"index", "sample_index">>
Datasets == 1 .. K + 1
AllFiles == {"desc", "doc", "sample", "shuffle", "index", "sample_index"}

Absent == [state |-> "absent"]
Partial == [state |-> "partial"]
Holds(content) == [state |-> "whole", content |-> content]

At(r, label) == pc[r] = label
Goto(r, label) == pc' = [pc EXCEPT ![r] = label]

\* Whether a dataset follows dataset k.
Follows(k) == IF Blended THEN k <= K ELSE k < K

-----------------------------------------------------------------------------

\* os.path.isfile, for every file of the index.
Cached(k) == \A i \in DOMAIN Files(k) : disk[k][Files(k)[i]].state # "absent"

\* A rank looks for the files: only what rank 0 sees matters.  A blend that
\* is not cached every rank builds by itself.
Look(r) ==
  /\ At(r, "look")
  /\ blend' = [blend EXCEPT ![r] = StartBlend(args)]
  /\ IF at[r] > K /\ ~args.data_cache_path
     THEN Goto(r, "blend") /\ UNCHANGED <<file, success>>
     ELSE IF r # 0 THEN Goto(r, "all_reduce") /\ UNCHANGED <<file, success>>
     ELSE /\ file' = 1 /\ success' = TRUE
          /\ Goto(r, IF Cached(at[r]) THEN "all_reduce" ELSE IF at[r] > K THEN "blend" ELSE "open")
  /\ UNCHANGED <<args, at, build, disk, loaded, restarts>>

\* Rank 0 opens the next file: open, or np.save.
Open ==
  /\ At(0, "open")
  /\ disk' = [disk EXCEPT ![at[0]][Files(at[0])[file]] = Partial]
  /\ Goto(0, "write")
  /\ UNCHANGED <<args, at, file, build, blend, success, loaded, restarts>>

Contents ==
  LET k == at[0]
      name == Files(k)[file]
  IN CASE name = "desc" -> "description"
       [] name = "doc" -> Corpus(k).doc_idx
       [] name = "sample" -> build.sample_idx
       [] name = "shuffle" -> Corpus(k).shuffle_idx
       [] OTHER -> blend[0].index

\* The file is written and closed; the samples are built after the second.
Close ==
  /\ At(0, "write")
  /\ disk' = [disk EXCEPT ![at[0]][Files(at[0])[file]] = Holds(Contents)]
  /\ file' = file + 1
  /\ IF Files(at[0])[file] = "doc"
     THEN build' = StartSamples(Corpus(at[0])) /\ Goto(0, "samples")
     ELSE /\ build' = build
          /\ Goto(0, IF file = Len(Files(at[0])) THEN "all_reduce" ELSE "open")
  /\ UNCHANGED <<args, at, blend, success, loaded, restarts>>

\* One turn of the inner loop of build_sample_idx.
BuildSamples ==
  /\ At(0, "samples")
  /\ LET c == Corpus(at[0])
     IN IF ~MoreSamples(c, build)
        THEN Goto(0, "open") /\ build' = build
        ELSE /\ pc' = pc
             /\ build' = IF Remaining(c, build) <= 0 THEN EndSample(c, build)
                         ELSE NextDocument(c, build)
  /\ UNCHANGED <<args, at, file, blend, success, disk, loaded, restarts>>

\* One turn of the loop of build_blending_indices.
BuildBlend(r) ==
  /\ At(r, "blend")
  /\ IF Len(blend[r].index) < BlendSize(args)
     THEN blend' = [blend EXCEPT ![r] = Draw(args, @)] /\ UNCHANGED <<pc, loaded>>
     ELSE IF args.data_cache_path
     THEN Goto(r, "open") /\ UNCHANGED <<blend, loaded>>
     ELSE /\ loaded' = [loaded EXCEPT ![r][K + 1] = blend[r].index]
          /\ Goto(r, "check") /\ blend' = blend
  /\ UNCHANGED <<args, at, file, build, success, disk, restarts>>

\* Mutant: rank 0 leaves when it could not write.
Rank0Exits ==
  /\ At(0, "open") \/ At(0, "write")
  /\ success' = FALSE
  /\ Goto(0, "exit")
  /\ UNCHANGED <<args, at, file, build, blend, disk, loaded, restarts>>

\* OSError, before a file is opened or while it is written.
DiskError ==
  /\ At(0, "open") \/ At(0, "write")
  /\ success' = FALSE
  /\ Goto(0, "all_reduce")
  /\ UNCHANGED <<args, at, file, build, blend, disk, loaded, restarts>>

\* The two reductions of the counts: every rank sees it if rank 0 failed.
AllReduce ==
  /\ \A r \in Ranks : At(r, "all_reduce")
  /\ pc' = [r \in Ranks |-> IF success THEN "load" ELSE "exit"]
  /\ UNCHANGED <<args, at, file, build, blend, success, disk, loaded, restarts>>

\* np.load of an incomplete file raises an error.
Load(r) ==
  /\ At(r, "load")
  /\ LET k == at[r]
         content(f) == disk[k][f].content
     IN IF \E i \in DOMAIN Files(k) : Files(k)[i] # "desc" /\ disk[k][Files(k)[i]].state # "whole"
        THEN Goto(r, "error") /\ UNCHANGED <<at, loaded>>
        ELSE /\ loaded' = [loaded EXCEPT ![r][k] =
                  IF k > K THEN content("index")
                  ELSE [doc_idx |-> content("doc"), sample_idx |-> content("sample"),
                        shuffle_idx |-> content("shuffle")]]
             /\ at' = [at EXCEPT ![r] = IF Follows(k) THEN k + 1 ELSE k]
             /\ Goto(r, IF Follows(k) THEN "look" ELSE IF Blended THEN "check" ELSE "train")
  /\ UNCHANGED <<args, file, build, blend, success, disk, restarts>>

\* "Check size": BlendableDataset reads its last sample.
SampleExists(index, i) == index[i + 1].sample < NumSamples(Corpus(index[i + 1].dataset))

CheckSize(r) ==
  /\ At(r, "check")
  /\ Goto(r, IF SampleExists(loaded[r][K + 1], BlendSize(args) - 1) THEN "train" ELSE "error")
  /\ UNCHANGED <<args, at, file, build, blend, success, disk, loaded, restarts>>

\* The job dies, or has ended, and is launched again.
Relaunch ==
  /\ restarts < MaxRestarts
  /\ restarts' = restarts + 1
  /\ pc' = [r \in Ranks |-> "look"]
  /\ at' = [r \in Ranks |-> 1]
  /\ loaded' = [r \in Ranks |-> [k \in Datasets |-> <<>>]]
  /\ blend' = [r \in Ranks |-> StartBlend(args)]
  /\ UNCHANGED <<args, file, build, success, disk>>

-----------------------------------------------------------------------------

Init ==
  /\ args \in Jobs
  /\ pc = [r \in Ranks |-> "look"]
  /\ at = [r \in Ranks |-> 1]
  /\ file = 1
  /\ build = StartSamples(Corpus(1))
  /\ blend = [r \in Ranks |-> StartBlend(args)]
  /\ success = TRUE
  /\ disk = [k \in Datasets |-> [f \in AllFiles |-> Absent]]
  /\ loaded = [r \in Ranks |-> [k \in Datasets |-> <<>>]]
  /\ restarts = 0

Step == \/ Open \/ Close \/ BuildSamples \/ AllReduce
        \/ \E r \in Ranks : Look(r) \/ BuildBlend(r) \/ Load(r) \/ CheckSize(r)

Ended(r) == pc[r] \in {"train", "exit", "error"}
Done == (\A r \in Ranks : Ended(r)) /\ UNCHANGED vars

Next == Step \/ DiskError \/ Relaunch \/ Done

\* Ranks go on; neither disks nor jobs have to fail.
Spec == Init /\ [][Next]_vars /\ WF_vars(Step)

-----------------------------------------------------------------------------

\* A rank that trains reads the stream of all epochs' documents: the tokens
\* of sample i are those from i * seq_length on, and one more that is the
\* first of the next sample.  It reads every sample once, those of a last
\* epoch that is shuffled apart after all others - whichever launch of the
\* job has written the index, and whatever it died in.
EverySampleOnce ==
  \A r \in Ranks : At(r, "train") =>
    \A k \in 1 .. K :
      LET c == Corpus(k)
          index == loaded[r][k]
          order == index.shuffle_idx
      IN /\ \A i \in Samples(c) :
              GetItem(c, index, i) = SubSeq(Stream(c), order[i] * c.seq_length + 1,
                                            (order[i] + 1) * c.seq_length + 1)
         /\ {order[i] : i \in Samples(c)} = Samples(c)
         /\ SeparateLastEpoch(c) =>
              \A i \in Samples(c) : order[i] < SamplesFromEpochsMinusOne(c) <=>
                                      i < SamplesFromEpochsMinusOne(c)

\* Every sample a job trains on exists: the samples of a blend up to the
\* number that was asked for are samples their corpora have, though which
\* corpus they come from only follows the weights approximately.
BlendedSamplesExist ==
  \A r \in Ranks : At(r, "train") /\ Blended =>
    /\ args.num_samples <= Len(loaded[r][K + 1])
    /\ \A i \in 0 .. args.num_samples - 1 : SampleExists(loaded[r][K + 1], i)

\* A launch ends for all ranks alike: all train, all exit because rank 0
\* could not write, or all fail.
RanksEndAlike ==
  <>[](\/ \A r \in Ranks : At(r, "train")
       \/ \A r \in Ranks : At(r, "exit")
       \/ \A r \in Ranks : At(r, "error"))
=============================================================================
