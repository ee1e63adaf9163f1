------------------------- MODULE MCRotationService -------------------------
(***************************************************************************)
(* Instances of RotationService: two requests of two streams each.         *)
(***************************************************************************)
EXTENDS RotationService

\* EveryRequestAnswered and EveryJobEnds: no caller waits for ever, and no thread is kept
\* by a request that has gone.
EveryoneIsServed == EveryRequestAnswered /\ EveryJobEnds
=============================================================================
