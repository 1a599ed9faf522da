-------------------------- MODULE PipelineContract --------------------------
(***************************************************************************)
(* What the panel relies on from one detached pipeline thread              *)
(* (start_assist_pipeline in src/main.cpp): each command reports at most   *)
(* one transcript, then at most two starts of playback (the stream and its *)
(* fallback), in this order; then the running flag is cleared once, and    *)
(* only after that one final result is pushed.  AssistSession uses its     *)
(* threads by this contract and PipelineProcess, which models the child    *)
(* process behind a thread, implements it.                                 *)
(***************************************************************************)
VARIABLE phase      \* where the thread is in its report

LivePhases == {"live", "heard", "speaking", "fallback"}

Init == phase = "idle"

Start == phase = "idle" /\ phase' = "live"

Progress ==
    \/ phase = "live" /\ phase' = "heard"
    \/ phase = "heard" /\ phase' = "speaking"
    \/ phase = "speaking" /\ phase' = "fallback"

Return == phase \in LivePhases /\ phase' = "ending"

PushFinal == phase = "ending" /\ phase' = "idle"

Next == Start \/ Progress \/ Return \/ PushFinal

Spec == Init /\ [][Next]_phase

\* Every thread gets to its end.
FairSpec == Spec /\ []<>(phase \notin LivePhases) /\ []<>(phase # "ending")
=============================================================================
