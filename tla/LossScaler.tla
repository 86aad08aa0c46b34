----------------------------- MODULE LossScaler ------------------------------
(***************************************************************************)
(* DynamicGradScaler (megatron/optimizer/grad_scaler.py).  Scales are      *)
(* powers of two (growth_factor 2 and backoff_factor 0.5, the only ones    *)
(* megatron/optimizer/__init__.py passes) and are kept by their exponents. *)
(***************************************************************************)
EXTENDS Integers, Sequences

CONSTANTS InitialScale, MinScale, GrowthInterval, Hysteresis

\* The assertions of __init__.
ASSUME ScalerAssumption ==
  /\ InitialScale \in Int /\ MinScale \in Int /\ MinScale <= InitialScale
  /\ GrowthInterval \in Nat \ {0} /\ Hysteresis \in Nat \ {0}

\* torch.max(_scale * backoff_factor, min_scale)
Backoff(scale) == IF scale - 1 < MinScale THEN MinScale ELSE scale - 1

\* _scale, _growth_tracker and _hysteresis_tracker.
NewScaler == [scale |-> InitialScale, growth |-> 0, hysteresis |-> Hysteresis]

Overflowed(s) ==
  [scale |-> IF s.hysteresis - 1 <= 0 THEN Backoff(s.scale) ELSE s.scale,
   growth |-> 0,
   hysteresis |-> s.hysteresis - 1]

\* Mutant: growing does not give back the hysteresis.
SucceededKeepsHysteresis(s) ==
  IF s.growth + 1 = GrowthInterval
  THEN [s EXCEPT !.scale = @ + 1, !.growth = 0]
  ELSE [s EXCEPT !.growth = @ + 1]

Succeeded(s) ==
  IF s.growth + 1 = GrowthInterval
  THEN [scale |-> s.scale + 1, growth |-> 0, hysteresis |-> Hysteresis]
  ELSE [s EXCEPT !.growth = @ + 1]

\* update(found_inf)
Update(s, found_inf) == IF found_inf THEN Overflowed(s) ELSE Succeeded(s)

-----------------------------------------------------------------------------
\* What the comments of update() say, as a function of the history h of
\* steps, TRUE for those without an overflow.

\* Steps since the last overflow.
GoodRun(h, i) ==
  CHOOSE n \in 0 .. i : /\ \A k \in i - n + 1 .. i : h[k]
                        /\ i - n > 0 => ~h[i - n]

\* "If we have had enough consecutive intervals with no nan/inf".
Grows(h, i) == h[i] /\ GoodRun(h, i) % GrowthInterval = 0

\* The overflows since the scale last grew.
OverflowsSinceGrowth(h, i) ==
  LET since == {k \in 1 .. i : \A j \in k .. i : ~Grows(h, j)}
      f[k \in 0 .. i] == IF k = 0 THEN 0
                         ELSE f[k-1] + (IF k \in since /\ ~h[k] THEN 1 ELSE 0)
  IN f[i]

\* "Now if we are out of hysteresis count, scale down the loss".
ScaleAfter(h) ==
  LET f[i \in 0 .. Len(h)] ==
        IF i = 0 THEN InitialScale
        ELSE IF Grows(h, i) THEN f[i-1] + 1
        ELSE IF ~h[i] /\ OverflowsSinceGrowth(h, i) >= Hysteresis
        THEN Backoff(f[i-1])
        ELSE f[i-1]
  IN f[Len(h)]

ScalerAfter(h) ==
  [scale |-> ScaleAfter(h),
   growth |-> GoodRun(h, Len(h)) % GrowthInterval,
   hysteresis |-> Hysteresis - OverflowsSinceGrowth(h, Len(h))]
=============================================================================
