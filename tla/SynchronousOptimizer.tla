------------------------ MODULE SynchronousOptimizer -------------------------
(***************************************************************************)
(* What an optimizer promises to the training loop, however gradients and  *)
(* optimizer states are distributed: the whole world decides once for      *)
(* every step whether it is applied or skipped, every rank carries the     *)
(* decisions out in order, and after k steps a rank holds the parameters   *)
(* of the model with all the applied ones among the first k, and no other, *)
(* applied.  A restart goes back to the last saved step.                   *)
(***************************************************************************)
EXTENDS Integers, Sequences, FiniteSets

CONSTANT Worlds       \* the sets of ranks a launch may have

VARIABLES decisions,   \* for every step, whether it was applied
          done,        \* done[r]: steps rank r has finished
          parameters,  \* parameters[r]: the steps all parameters of rank r have had
          saved        \* the steps of the last checkpoint

vars == <<decisions, done, parameters, saved>>

World == DOMAIN done

Applied(list, k) == Cardinality({i \in 1 .. k : list[i]})

Init ==
  /\ decisions = <<>>
  /\ \E W \in Worlds : /\ done = [r \in W |-> 0]
                       /\ parameters = [r \in W |-> 0]
  /\ saved = 0

\* Some ranks finish their next step; the first to do so decide on it.
Advance ==
  /\ done' \in {f \in [World -> 0 .. Len(decisions) + 1] :
                 \A r \in World : f[r] \in {done[r], done[r] + 1}}
  /\ IF \E r \in World : done'[r] > Len(decisions)
     THEN \E d \in BOOLEAN : decisions' = Append(decisions, d)
     ELSE UNCHANGED decisions
  /\ parameters' = [r \in World |->
       IF done'[r] = done[r] THEN parameters[r] ELSE Applied(decisions', done'[r])]
  /\ UNCHANGED saved

\* All ranks are at the same step.
Save ==
  /\ \A r \in World : done[r] = Len(decisions)
  /\ saved' = Len(decisions)
  /\ UNCHANGED <<decisions, done, parameters>>

Restart ==
  \E W \in Worlds :
    /\ decisions' = SubSeq(decisions, 1, saved)
    /\ done' = [r \in W |-> saved]
    /\ parameters' = [r \in W |-> Applied(decisions, saved)]
    /\ UNCHANGED saved

Next == Advance \/ Save \/ Restart

Spec == Init /\ [][Next]_vars
=============================================================================
