----------------------------- MODULE ShardRanges -----------------------------
(***************************************************************************)
(* The ranges of DistributedOptimizer (megatron/optimizer/                 *)
(* distrib_optimizer.py) over the gradient buffer of a model               *)
(* (megatron/model/distributed.py): the buffer is padded to a multiple of  *)
(* the data-parallel size and every data-parallel rank owns one slice of   *)
(* it, whatever parameters the slice cuts through.  A range is [start, end) *)
(* as in the code, and may be empty or even of negative size.              *)
(***************************************************************************)
EXTENDS Integers

Min2(a, b) == IF a < b THEN a ELSE b
Max2(a, b) == IF a < b THEN b ELSE a

Span(start, end) == [start |-> start, end |-> end]
Size(range) == range.end - range.start
Normalize(range, start) == Span(start, start + Size(range))
In(range) == range.start .. range.end - 1

\* math.ceil(numel / dp)
ShardSize(numel, dp) == (numel + dp - 1) \div dp
NumelPadded(numel, dp) == dp * ShardSize(numel, dp)

\* Mutant: the slices are rounded down.
WorldRangeFloor(numel, dp, rank) ==
  LET start == rank * (numel \div dp)
  IN Span(start, Min2(numel, start + numel \div dp))
\* gbuf_world_all_ranges[rank]: what data-parallel rank `rank` owns.
WorldRange(numel, dp, rank) ==
  LET start == rank * ShardSize(numel, dp)
  IN Span(start, Min2(numel, start + ShardSize(numel, dp)))

\* The part of a parameter that lies in a rank's slice, relative to the
\* slice.
LocalRange(param, world) ==
  Span(Max2(0, param.start - world.start),
        Min2(Size(world), param.end - world.start))
\* Only those are in param_range_map.
Owns(param, world) == Size(LocalRange(param, world)) > 0

\* The same part, relative to the parameter, ...
SubParam(param, world) ==
  Normalize(LocalRange(param, world), Max2(0, world.start - param.start))
\* ... and relative to the buffer.
GbufWorld(param, world) ==
  LET local == LocalRange(param, world)
  IN Normalize(local, local.start + world.start)
=============================================================================
