---------------------------- MODULE MCGpuWorker ----------------------------
(***************************************************************************)
(* Instances of GpuWorker for TLC: the matrices searched have different    *)
(* signatures.                                                             *)
(***************************************************************************)
EXTENDS GpuWorker, TLC

OwnSignature == [m \in Search |-> m]

Symmetric == Permutations(Call) \cup Permutations(Search)
=============================================================================
