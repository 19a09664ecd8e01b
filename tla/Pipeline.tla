------------------------------- MODULE Pipeline -------------------------------
(***************************************************************************)
(* What refreshing and preparing data promise, without workers, leases or  *)
(* messages: the source follows the publisher, the output follows the      *)
(* source, a mirror follows its resource, and none ever moves back.        *)
(***************************************************************************)
EXTENDS Naturals

CONSTANTS Keys, Source, Output

VARIABLES upstream, stage, shown

pipelineVars == <<upstream, stage, shown>>

Init ==
    /\ upstream \in Nat
    /\ stage = [k \in Keys |-> 0]
    /\ shown = [k \in Keys |-> 0]

Revise == upstream' = upstream + 1 /\ UNCHANGED <<stage, shown>>

\* What the stage of k may have caught up with.
Feed(k) == IF k = Source THEN upstream ELSE stage[Source]

Advance(k) ==
    /\ \E v \in stage[k] .. Feed(k) : stage' = [stage EXCEPT ![k] = v]
    /\ UNCHANGED <<upstream, shown>>

Show(k) ==
    /\ \E v \in shown[k] .. stage[k] : shown' = [shown EXCEPT ![k] = v]
    /\ UNCHANGED <<upstream, stage>>

Next == Revise \/ \E k \in Keys : Advance(k) \/ Show(k)

Spec == Init /\ [][Next]_pipelineVars
===============================================================================
