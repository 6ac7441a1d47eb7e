-------------------------- MODULE MCStageExecution --------------------------
(* Two-stage runs with a CPU and a GPU worker, and a run with two GPUs.    *)
EXTENDS StageExecution

MCOneGpu == {2}
MCTwoGpus == {1, 2}
=============================================================================
