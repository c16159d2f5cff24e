--------------------------- MODULE AllReduceBackends ---------------------------
(* The all-reduce backends of a group (CudaCommunicator): which are switched *)
(* on by the environment, which are made, what is logged of them, and which  *)
(* one an all-reduce takes. What a backend accepts, and whether it disables  *)
(* itself when it is made, is decided outside of the repository.             *)
EXTENDS Integers, Sequences, FiniteSets, SequencesExt

CONSTANTS
  Groups,     \* [name, world]: the groups to make
  CudaFlags,  \* what may be switched on, on either platform: AITER, which is
  RocmFlags   \* outside of the repository, on ROCm only

VARIABLES
  group, platform, flags,  \* chosen at the start
  comms,     \* backend |-> "on" or "disabled"
  logged,    \* sequence of backends in the log
  accepts,   \* backends that accept the input of the all-reduce
  chosen     \* the backend that did it
vars == <<group, platform, flags, comms, logged, accepts, chosen>>

Set(flag) == flag \in flags
use_b12x_allreduce == Set("custom") /\ Set("b12x")
use_roce_allreduce == Set("custom") /\ Set("roce")
use_aiter_allreduce == Set("custom") /\ Set("aiter")
FlashInferAsSet == Set("fi") /\ ~use_b12x_allreduce /\ ~use_roce_allreduce
use_flashinfer_allreduce ==
  Set("fi") /\ ~Set("invariant") /\ ~use_b12x_allreduce /\ ~use_roce_allreduce
use_flashinfer_pcie_ipc_allreduce == Set("ipc") /\ ~Set("invariant")

\* The backends made for a group named tp, given those that will disable
\* themselves. RoCE stands in for a b12x that did, custom for neither.
TpBackends(broken) ==
  LET b12x == use_b12x_allreduce
      roce == use_roce_allreduce /\ (b12x => "b12x" \in broken)
      fast == (b12x /\ "b12x" \notin broken) \/ (roce /\ "roce" \notin broken)
  IN  {x \in {"b12x", "roce", "fi", "ipc", "aiter", "ca", "qr"} :
         CASE x = "b12x" -> b12x /\ ~roce
           [] x = "roce" -> roce
           [] x = "fi" -> use_flashinfer_allreduce
           [] x = "ipc" -> use_flashinfer_pcie_ipc_allreduce
           [] x = "aiter" -> use_aiter_allreduce
           [] x = "ca" -> Set("custom") /\ ~use_aiter_allreduce /\ ~fast
           [] x = "qr" -> Set("custom") /\ platform = "rocm"}
IsTp == group.name = "tp"
Made(broken) ==
  (IF group.world > 1 THEN {"pynccl"} ELSE {})
  \cup (IF IsTp /\ group.world > 1 THEN TpBackends(broken) ELSE {})
  \cup (IF IsTp /\ Set("symm") /\ platform = "cuda" THEN {"symm"} ELSE {})
  \cup (IF group.name = "dp" /\ group.world \in {2, 4, 8} /\ platform = "rocm" /\ Set("aiter") /\ "aiter" \notin broken
        THEN {"aiter"} ELSE {})
On(x) == x \in DOMAIN comms /\ comms[x] = "on"

\* all_reduce_symmetric_with_copy runs over PyNCCL; its conditions are outside.
NcclSymmPossible == Set("nccl_symm") /\ ~Set("invariant") /\ "pynccl" \in DOMAIN comms
Logged(x) ==
  CASE x = "nccl_symm" -> NcclSymmPossible /\ On("pynccl")
    [] x = "aiter" -> IsTp /\ use_aiter_allreduce /\ On("aiter")
    [] OTHER -> On(x)
all_potential_ar_backends ==
  <<"ipc", "b12x", "roce", "fi", "nccl_symm", "qr", "aiter", "ca", "symm", "pynccl">>

\* The chain of all_reduce: the first that takes the input.
TakesInput(x) == x \in accepts /\ (IF x = "nccl_symm" THEN NcclSymmPossible ELSE On(x))
Chain ==
  <<"b12x", "roce">> \o (IF TakesInput("fi") THEN <<>> ELSE <<"nccl_symm">>)
  \o <<"qr", "ipc", "fi">> \o (IF IsTp /\ use_aiter_allreduce THEN <<"aiter">> ELSE <<>>) \o <<"ca", "symm">>
FirstOf(order) ==
  LET able == SelectSeq(order, TakesInput)
  IN  IF able # <<>> THEN able[1] ELSE IF On("pynccl") THEN "pynccl" ELSE "torch"
-----------------------------------------------------------------------------
Init ==
  /\ group \in Groups /\ platform \in {"cuda", "rocm"}
  /\ flags \in SUBSET (IF platform = "cuda" THEN CudaFlags ELSE RocmFlags)
  /\ comms = [x \in {} |-> ""] /\ logged = <<>> /\ accepts = {} /\ chosen = "none"

CudaCommunicator(broken) ==
  /\ DOMAIN comms = {} /\ chosen = "none" /\ broken \subseteq {"b12x", "roce", "ca", "aiter", "pynccl"}
  /\ comms' = [x \in Made(broken) |-> IF x \in broken THEN "disabled" ELSE "on"]
  /\ chosen' = "made"
  /\ UNCHANGED <<group, platform, flags, logged, accepts>>
_log_all_reduce_backend_selection ==
  /\ chosen = "made"
  /\ logged' = IF group.world > 1 THEN SelectSeq(all_potential_ar_backends, Logged) ELSE <<>>
  /\ chosen' = "ready"
  /\ UNCHANGED <<group, platform, flags, comms, accepts>>
\* Some input arrives (symmetric memory is NCCL's as well) ...
Able == DOMAIN comms \cup (IF On("pynccl") THEN {"nccl_symm"} ELSE {})
Input(able) ==
  /\ chosen = "ready" /\ able \subseteq Able /\ Cardinality(able) <= 2
  /\ accepts' = able /\ chosen' = "input"
  /\ UNCHANGED <<group, platform, flags, comms, logged>>
\* ... and is reduced.
all_reduce ==
  /\ chosen = "input"
  /\ chosen' = FirstOf(Chain)
  /\ UNCHANGED <<group, platform, flags, comms, logged, accepts>>
Next ==
  \/ \E broken \in {{}, {"b12x"}, {"b12x", "roce"}, {"ca"}, {"aiter"}, {"pynccl"}} : CudaCommunicator(broken)
  \/ _log_all_reduce_backend_selection
  \/ \E able \in SUBSET Able : Input(able)
  \/ all_reduce
Spec == Init /\ [][Next]_vars
-----------------------------------------------------------------------------
Reduced == chosen \notin {"none", "made", "ready", "input"}
Fast == {"b12x", "roce", "aiter", "ca"}
\* An all-reduce is done by a backend of its group that the log named ("the
\* subset of potential backends that may be chosen at dispatch time"); under
\* VLLM_BATCH_INVARIANT by none without a fixed order of its additions, and
\* outside of the tp group by PyNCCL. Of B12X, RoCE and the custom one, the
\* next stands in for one that disabled itself and at most one is on; the
\* custom one is never beside AITER, and a tp group is left without a fast one
\* only if the last of them disabled itself.
BackendsFitGroup ==
  Reduced =>
    /\ chosen # "torch" /\ group.world > 1 => chosen \in Range(logged)
    /\ Set("invariant") => chosen \notin {"fi", "ipc", "nccl_symm"}
    /\ ~IsTp => chosen \in {"pynccl", "nccl_symm", "torch"}
    /\ IsTp /\ group.world > 1 /\ Set("custom") =>
         /\ Cardinality({x \in {"b12x", "roce", "ca"} : On(x)}) <= 1
         /\ On("ca") => "aiter" \notin DOMAIN comms
         /\ \/ \E x \in Fast : On(x)
            \/ \E x \in {"ca", "aiter"} \cap DOMAIN comms : comms[x] = "disabled"
=============================================================================
