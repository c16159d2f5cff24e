# Specification of the TP3 inference recipes

The repository holds recipes that run large language models on three GPUs: patched
vLLM sources, kernels, launch scripts and the records of their qualification. This
directory models their control: the scheduler of the GLM-5.3 recipe
(`src/GLM-5.3-Flash Kraken-tp3-20260927/src/vllm/v1/core/sched/scheduler.py`, called
`scheduler.py` below), where nearly all of the concurrency is, and around it the
worker's memory and data movement, weights that live partly on the host, Engram
tables, collectives, the cache contract and the launcher. `PROJECT.json` lists the
components, the lines each definition stands for, the hazards and the properties
that watch them.

## 1. Inventory

### The scheduler

The engine loop calls `schedule()`, hands the `SchedulerOutput` to the workers and
later passes their result to `update_from_output()`. With
`max_concurrent_batches > 1` (pipeline parallelism, asynchronous scheduling) it calls
`schedule()` again before the previous result is in, so up to that many steps are *in
flight*. Between two handlers come requests (`add_request`), aborts
(`finish_requests`), resets (`reset_prefix_cache`), and the effects of workers and
connectors. All handlers run on one thread: the interleavings are those of whole
handlers with steps and transfers in flight.

| part | state | operations |
|---|---|---|
| fenced block release | `sched_step_seq`, `processed_step_seq`, `Request.last_sched_seq`, `deferred_frees`, the block pool | `_request_blocks_can_be_freed`, `_free_request_blocks`, `_free_cow_retained_blocks`, `_drain_deferred_frees` |
| token accounting | `num_computed_tokens`, `num_output_placeholders`, `num_in_flight_tokens`, `num_stale_output_tokens`, `drop_stale_output`, `spec_token_ids` | `schedule`, `_preempt_request`, `_update_after_schedule`, `update_from_output`, `update_draft_token_ids` |
| queues and life cycle | `running`, `waiting`, `skipped_waiting`, `requests`, `num_waiting_for_streaming_input`, `finished_recving_kv_req_ids`, `failed_recving_kv_req_ids`, `grammar_compile_error_reqs` | `add_request`, the passes of `schedule`, `_handle_stopped_request`, `finish_requests`, `_update_from_kv_xfer_finished` |
| one scheduling step | token, input and draft budgets, `scheduled_loras`, `preempted_reqs`, the cursor of the running pass, service class and prefill deferral | `schedule` |
| chunk sizes and encoder inputs | encoder budget, cache and references | `_mamba_block_aligned_split`, `_reserve_prefill_lookahead`, `_try_schedule_encoder_inputs`, `_free_encoder_inputs` |
| load failures | `failed_recving_kv_req_ids`, truncated `num_computed_tokens`, evicted blocks | `_handle_invalid_blocks`, `_update_requests_with_invalid_blocks`, `_handle_failed_recving`, `_update_waiting_for_remote_kv` |

Interactions: `schedule()` allocates from `kv_cache_manager` and preempts;
preemption parks or frees blocks, resets the token counters and requeues; the
connector loads into blocks of requests that wait in `skipped_waiting` and reports
through `update_from_output()`, which also drains the parked blocks. `AsyncScheduler`,
`KVCacheManager`, `Request`, the request queues, the prefill interleave controller,
the connectors and the engine loop are **not in the repository**: what the models
assume of them is what `scheduler.py` relies on, and is marked external.

Hard behaviours: output arriving for a request that was preempted, reset, aborted or
stopped meanwhile; blocks that change hands while a step still touches them;
transfers that outlive their request or fail; sessions that pause while chunks arrive;
several passes over the queues in one step with budgets handed back on preemption.

### Around the scheduler

| component | where | state and operations | hard behaviour |
|---|---|---|---|
| sharded linear layers | `linear.py` | a parameter on a rank; one loader per layer class | padding meets packed words, scales, fused files, context groups |
| TP3 configuration | `glm53_tp3.py` | fields of target, draft and vision configurations | shared, repeated and partial application |
| context parallelism | `dcp.py` | partial outputs and LSEs; buffers, signals and epochs of exchanges | empty shards, infinities; ranks that run ahead |
| block memory | worker `utils.py` | one allocation under all layers; zeroing, copying | overlapping views, kernel block sizes |
| recurrent states | `mamba_utils.py` (both runners) | running column, accepted tokens, cached columns | drafts over block boundaries, preemption, overlapping copies |
| mixed-residency memory | `vmm_shim.py`, `vmm_policy.py` | chunk mappings and handles; promote, evict, free | driver calls that fail half-way |
| expert residency | `expert_residency.py`, `b12x.py` (MoE), `uva.py`, `uva_p4.py` | pointer tables, slabs, route counts, budgets | a failure between two publications; shares of free memory |
| Engram | `engram.py`, `engram_row_cache.py`, the DeepSeek `model.py` | shards of tables, lazy filling, staged rows, row cache, hash buffers | ranks that notice a file at different steps; stale rows |
| CUDA communicator | `cuda_communicator.py` | streams, symmetric buffers, owners of a shared communicator, backends | ranks that choose differently; a communicator destroyed too early |
| LIL cache contract | `lil/cache.py` | settings, cache service, persistent directory | settings derived from each other; a branch that moves |
| launcher | `serve-glm53-flash-tp3-kraken.py` | arguments, lock, arena in shared memory | containers that die and start while others look |
| model code, kernels, loaders, tools | the rest | tensors, files | numerical, not modelled |

Interactions: the scheduler's chunks (`ChunkCuts`) drive the recurrent states; its
block ids reach the zeroing and copying of the worker; promotion frees the host memory
that the lazy Engram tables are filled into; exchanges and combines alternate in every
attention layer; the launcher and the cache plan must name the same arena.

## 2. Modules

| module | models | checked by |
|---|---|---|
| `DeferredFree` | fenced block release with overlapping steps, loads, sends, copy-on-write, abort and reset | `MCDeferredFree`, `MCLive`, `DeferredFreeProofs` |
| `BlockReuse` | the abstract promise: what a step in flight touches is not written by a transfer | refined by `DeferredFree`, proved in `DeferredFreeProofs` |
| `DeferredFreeProofs` | the fence protocol's inductive invariant and its theorems; the refinement and the order of the drain | TLAPS |
| `OutputAccounting`, `Totals` | token counters of overlapped steps; the sum of a sequence as a recursive function | `MCOutputAccounting`, `MCLive`, `OutputAccountingProofs` |
| `RequestQueues` | queues, sessions, transfers of a request's life | `MCRequestQueues`, `MCScheduler`, `RequestQueuesProofs` |
| `ScheduleStep` | the passes of one `schedule()` call after another | `MCScheduleStep`, `MCScheduler`, `ScheduleStepProofs` |
| `InductionProofs` | induction over numbers, sums of sequences and over finite sets, what sequences list: lemmas of the three modules below and of `VmmAllocationProofs` | TLAPS |
| `OutputAccountingProofs`, `RequestQueuesProofs`, `ScheduleStepProofs` | the inductive invariants and theorems of the three modules above | TLAPS |
| `KvLoadFailure` | failed loads, what is recomputed, evicted or failed | `MCWorker`, `MCLoads` |
| `ChunkCuts`, `PrefillChunks` | the cuts of the next chunk (operators); a prompt and its encoder inputs, chunk by chunk | `MCWorker`, `MCPrefill` |
| `MambaStates`, `TiledCopy` | recurrent states under drafts and rejections (extends `ChunkCuts`); the byte copies below | `MCWorker` |
| `KvBlocks` | zeroing and copying of blocks in a shared allocation | `MCWorker` |
| `WeightShards`, `Tp3Geometry` | loaders of sharded parameters; the padded geometry | `MCWorker` |
| `DcpCombine`, `DcpExchange` | partial attention combined; the exchanges over symmetric buffers | `MCWorker`, `DcpExchangeProofs` |
| `VmmAllocation` | mixed-residency tensor, one driver call per action | `MCWorker`, `VmmAllocationProofs` |
| `ExpertBanks`, `ExpertPromotion` | pointer tables with publication and rollback; placement and promotion over all layers | `MCWorker` |
| `EngramTables`, `EngramRowCache`, `NgramHash` | sharded tables filled and looked up; the host's row cache; hash inputs | `MCWorker`, `MCEngram` |
| `Collectives`, `PyncclSharing`, `AllReduceBackends` | every collective with its paths; communicators with several owners; choice of an all-reduce | `MCWorker` |
| `CacheContract`, `Launch` | the plan of an external cache and its namespace; the launcher with its arena | `MCWorker`, `LaunchProofs` |
| `DcpExchangeProofs`, `VmmAllocationProofs`, `LaunchProofs` | the inductive invariants and theorems of those three | TLAPS |

`MCScheduler`, `MCLive` and `MCWorker` check several instances side by side: the parts
share no state, a behaviour is one of the part that the variable `which` (or `part`)
names, and the cells are that part's variables. A part's property is
`which = "part" => Part!Property`; the others keep their names in the modules.

The modules of the scheduler share one shape. `phase` says which handler is under way,
since no two overlap; a handler with several state changes that the code orders is a
chain of actions linked by `phase`, and everything else (requests, aborts, resets) needs
`phase = "idle"`. `device` (or `InFlight`) is the queue of steps the workers have,
oldest first: results are processed in that order because the engine's batch queue is a
FIFO. Budgets, allocation results and stop conditions are nondeterministic where a
module is not about them. Modules about ranks have a program counter per rank and let
collectives and signals order them, nothing else.

### DeferredFree

`blocks[r]` is what request `r` holds, `deferred_frees` the fenced queue, `step[i]`
the steps with the blocks they touch. `ScheduleRunning`, `PreemptVictim`,
`AdmitWaiting`, `StartLoad` and `EndSchedule` are the passes of `schedule()`, and
`BeginAgain` returns from the waiting requests to the running ones: in a step that would
be empty with preemption, over capacity that is left without.
`BeginUpdate` (which drains), `StopRequest`, `BeginXfer`, `FinishedRecving`,
`FinishedSending`, `EndUpdate` are `update_from_output()`. Blocks of a
request are released at once only when no step in flight can touch them; otherwise they
are parked with the sequence number that must be processed first.

* `NoOverwrite`: no load writes a block a step in flight touches.
* `LandingExclusive`: a block being loaded belongs to the loading request only.
* `CountersInSync`, `DrainedUpToFence`, `NothingParkedUnlessNeeded` (proved only): the
  fence counters and the queue do what the comments say of them.
* `ParkedIsReturned` (liveness), `ImplementsBlockReuse` (refinement).

### OutputAccounting

The counters are integers as in the code; a step holds for each request how many
tokens it computes, how many of them are drafts and whether it samples. `epoch` and
`known` are history: the first is `num_preemptions` at scheduling, the second what the
workers believe the request's length to be. They let the properties say which output
is stale and where the workers' tokens continue.

`schedule()` has no passes here: those after the waiting pass change other requests'
counters, so their order shows nothing; it is the subject of `ScheduleStep`.

* `StaleShareIsExact`: the stale counter is exactly the tokens in flight from before the
  last preemption.
* `OutputInOrder`: delivered output continues the token list where it ends.
* `PlaceholdersMatch`, `CountersSettle`: placeholders and computed tokens return to
  what they would be without speculation.
* `NoWastedStep`: no step is scheduled for a request certain to reach its limit.
* `StaleDrains` (liveness).

### RequestQueues

Sequences for the four queues; a status per request, `"finished"` for those that stay
in `self.requests` until a transfer completes and `"gone"` afterwards. A session's
client sends chunks and a closing update at any time.

* `BothQueued`: a live request is in exactly one queue, the one its status says, and
  `get_num_unfinished_requests` counts the live requests that do not wait for a client.
* `NoSessionForgotten`, `SlotsSufficeForAll`: about paused sessions.
* `TransfersBelong`: about transfers that outlive a request.

### ScheduleStep

`phase` is the pass of `schedule()` under way. `BeginSchedule` fixes what the code
decides before its first pass (budget cap, service class, deferral, who is eligible)
in the record `step`; `RecordLoras` stands between the first running pass and the
waiting pass; `FollowingPass` chooses the later passes (`reserve`, `interleave`,
`fallback`, `leftover`) in the code's order and under its conditions. `req_index` is
the cursor of a running pass: `GoOver` and `Refuse` move it past a request,
`Consider` fixes the tokens it is to get, then `Serve` (blocks were found), `Evict` (a
victim is preempted and the search goes on) or `GiveUp` follow. `Admit`,
`AdmitBoundary`, `SkipWaiting` and `EndWaiting` are the waiting pass. `left` and
`drafts` stand for the token counters of `OutputAccounting`. The compute-share
and interleave controllers are external: any choice they may make is allowed.
`Overlap` says that steps overlap (a request may then be ineligible or have nothing to
compute), `Limits` that encoder inputs, alignment or a connector may refuse or cut a
share.

* `BothBalance`: what is left of the three budgets is what was not spent, over any
  evictions.
* `EveryoneConsidered`: the cursor skips nobody although evictions shift the list.
* `EvictionIsOrdered`, `LeftoverIsHarmless`: what evictions may take away, from whom, and
  in which passes.
* `BoundaryStepIsAlone`: saved boundary logits are a step of their own.
* `EmptyStepIsExplained`: an empty step is never the choice of the policy.

### KvLoadFailure

All prompts are beginnings of one text, a token stands for a block of tokens, and
`pool.right` are the blocks whose content is what their position in the text calls for.
A step loads first (some blocks fail), then computes token after token: a token is
right if everything before it is. `update_from_output` is the code's three scans in
their order (whole requests, blocks loaded beside the steps, blocks loaded within
them), then completions. `OutputsAreExact` says that nobody samples behind a wrong
block; `LoadsComeToAnEnd` that nobody waits for a load that is over.

### ChunkCuts, PrefillChunks, MambaStates, TiledCopy

`ChunkCuts` are pure operators with the code's names. `PrefillChunks` applies them chunk
by chunk, with entries of the encoder cache coming and going; `MambaStates` applies them
to one request whose states move from column to column, with drafts accepted or
rejected, preemption, and boundary checkpoints, in three modes (`scalar`, `fused`, `v2`).
A state is the number of tokens it has seen, so a wrong column is a wrong number.
`TiledCopy` lets thread blocks and lanes run in any order.
`ChunksAreServable`, `StatesAreExact` and `BlocksAreExact` are their properties.

### WeightShards, Tp3Geometry, DcpCombine, DcpExchange, KvBlocks

`WeightShards` describes a layer as groups of rows and runs the loader of its class for
every rank and kind of parameter; what ends up in the parameter is compared with the rows
of the checkpoint the rank should hold (`WeightsFitGeometry`). `Tp3Geometry` applies the
geometry up to three times to all configurations of a model: either all are padded
once, or none is. `DcpCombine` represents an LSE by its exponential and compares each
way of combining with attention over all keys; `DcpExchange` has one action per
signal, store, wait and read of each rank, and says that a rank reads the data of its own
call and none waits for ever (`AttentionIsGlobal`). In `KvBlocks` a byte is a word,
and zeroing or copying is compared with the bytes of the block; layouts whose views at one
address have different strides are those an assertion stops the worker for.

### VmmAllocation, ExpertBanks, ExpertPromotion

In `VmmAllocation` each driver call may fail, and the error runs through the handlers as
written; `MaxFailures` is 2, so that a rollback may fail too. `ExpertBanks` publishes
two pointer tables by copies that may fail or be interrupted half-way.
`ExpertPromotion` walks over the layers when the model is built, and promotes one after
the other once armed. `VmmKeepsWeights`, `BanksResolve`, `LayersShareFairly`.

### EngramTables, EngramRowCache, NgramHash

Every rank prepares, looks up and launches steps; the device does them later, together.
Filling waits for the file, the device and the other ranks. `EngramRowsAreGlobal`: the
rows of a step, summed over the ranks, are the rows of its n-grams, whether its layers are
looked up ahead of the forward pass, in it, or some one way and some the other; the tail behind a
step is clear; the cache returns what was asked for; a token is hashed with the tokens
of its own text.

### Collectives, PyncclSharing, AllReduceBackends

Each rank turns a call into operations of its stream; an operation of NCCL runs when all
ranks have the same at the head. A buffer is tensors with shapes, so a cached buffer that
is still read, or one of another shape, shows. `PyncclSharing` lets ranks run through
one program of creating, using and destroying groups at their own pace.
`AllReduceBackends` tries every set of switches on both platforms, AITER (outside of the
repository) on ROCm only, where it may be made beside B12X or RoCE.

### CacheContract, Launch

`configure` is the derivation of the settings in the code's order, with every refusal;
`resolve_identity` pins the weights, and the hub may move between any two steps.
`Launch` builds the arguments from the environment or takes a command list instead, which
passes `main`'s checks but none of `build_args`; containers claim the arena, look, unlink,
start and die, in any order. `KV_CACHE_MEMORY_BYTES` is any positive number in the
measured setting, also one above the measured budget: the launcher sets no bound, and
`PlanIsConsistent` claims none.

## 3. Runs

| run | instance | shows |
|---|---|---|
| `deferred_free` | 2 requests, 2 blocks, 2 batches, 4 numbered steps, loads and sends | safety, the inductive invariant, refinement |
| `live` | the fence: 2 requests, 2 blocks, 2 steps; the counters: 1 request, prompt 3, 3 batches, 3 preemptions; `FairSpec` | parked blocks come back, stale output drains |
| `deferred_free_reset` | as `deferred_free`, violation | a forced reset can fail although no request holds blocks |
| `output_async` | 2 requests, prompt 1, 2 output tokens, 1 draft, 2 batches, 2 preemptions | all counters under asynchronous scheduling |
| `scheduler` | `ScheduleStep` twice, 3 requests: PRIORITY with drafts and throttled prefills; FCFS with compute share, interleaving, boundary checkpoints, 2 adapters of which 1 fits. `RequestQueues` twice: 2 requests, 2 batches, connector, grammar, preemption; 2 sessions and a plain request, 1 batch | budgets, cursor, victims, empty steps over all kinds of pass; queues, counters, transfers, sessions |
| `request_session_preempted` | 1 session, violation | a stopped preempted session is in no queue |
| `request_interleaved` | 2 requests, violation | a queue head is lost |
| `step_adapters_admitted` | 2 requests, 2 adapters of which 1 fits, violation | the assertion on scheduled adapters fails |
| `worker` | twenty parts beside each other, each with the instances listed in `MCWorker` | the properties of section 2's other modules |
| `prefill_lookahead` | 1 prompt of 9 tokens, blocks of 4, lookahead 2, violation | a prompt that is never finished |
| `load_recompute` | 3 requests, chunks of one token, violation | a request samples behind a block not yet recomputed |
| `engram_arming` | 2 ranks, 1 lazy table, 2 steps in flight, violation | ranks that notice the arm file at different steps wait for ever |

Bounds of the scheduler. Two batches are what makes a step outlive the handler that
follows it; three are used where a request must be preempted twice with output still in
flight (`NoWastedStep` is a statement about two: the code looks one step back). Two
requests and two blocks let a block change hands while its former holder is in flight;
more of either only adds independent copies of the same hand-over, and the theorems
cover all sizes for the fence protocol. Preemptions, updates of a session, tokens and
step numbers are bounded by `MaxPreemptions`, `MaxChunks`, `MaxOut` and `MaxStep` in the
guards, and `schedule()` by `TokenCap`, `InputCap`, `MaxPrompt` and `MaxDrafts`, with three
requests: one to serve, one to evict and one behind the cursor. `CHECK_DEADLOCK FALSE` is
set in every run because all requests may end, after which the engine waits, and every
part of `worker` reaches its end.

Bounds of `worker`. Failures are bounded by 2 (`MaxFailures`: the call and its
rollback), leaked handles by 1, geometry applications by 3 (the third finds what the
second left), exchanges by two layer calls (so that the alternating buffers come round),
forwards of Engram by 2, calls of groups, launches and moved branches by the constants in
`MCWorker`. Ranks are 2 or 3 (up to 6 for weights), blocks 2 to 4 tokens long with a
prompt that crosses two boundaries, drafts 2, so that a rejected draft may cross a
boundary back. Copies are long enough for a head, aligned words and a tail. In
`KvLoadFailure` the pool is never short of blocks and no step is scheduled before the
last result; the parts have two to four requests with prompts of two or three blocks, of
which the first may be shared. In a few actions `\E x \in {value}` names a costly value, so
that TLC computes it once per step; it is no choice.

`KvLoadFailure` passes where the code makes losses good: loads beside the steps under
both policies, with aborts; loads within the steps under recompute when no prompt is
cut by a threshold and nobody aborts, with one or two cache groups; under fail with two
groups. Three things lie outside, found while modelling. (a) `load_recompute`
below. (b) Under the fail policy with one group, the blocks behind a shared invalid block
are not evicted for a request whose own invalid blocks were all marked by others
(`blocks_to_evict` is extended only where the first own block is found, 4051-4108), although
the docstring promises "downstream dependent blocks" (4006-4007); it takes four requests
(prompts of 2, 3, 2 and 4 blocks). (c) A request aborted while the failing step runs is
not among the requests scanned, so its blocks stay cached under either policy. (d) With one
request loading beside the steps and two within them, recompute has the gap of (a) too.

Speculation without overlapping steps, more than one draft, and preemptions that drop
output for KV delivery (`KVDelivery`; resets drop it in every run) are in
`OutputAccounting` but in no run. Leftover passes under a LoRA limit are modelled but
have no property: what they exceed depends on the external interleave controller.

Fairness. Only `live` assumes any. Handlers run to their end (weak fairness on the
steps of a handler begun). Processing the oldest result is strongly fair: the engine
loop takes the oldest result whenever it cannot add a batch. Nothing is assumed about
clients, allocation or stop conditions. That ranks do not block each other is stated as
an invariant instead (`NobodyStuck`, `CollectivesAreExact`, `FillCompletes`): a state in
which some rank can never go on.

Violations are disagreements met while modelling:
1. `deferred_free_reset`: a forced reset raises `RuntimeError` although its comment
   says the preemption makes it succeed.
2. `request_session_preempted`: `_handle_stopped_request` enqueues a preempted session
   that the end of `update_from_output` then removes.
3. `request_interleaved`: `pop_request()` where `remove_request(request)` is meant.
4. `step_adapters_admitted`: the waiting pass limits adapters per step, so a prefill turn
   admits a request whose adapter no longer fits beside the running decodes, and the
   assertion on `scheduled_loras` fails in the next ordinary step.
5. `prefill_lookahead`: the cut for the drafter's lookahead undoes the alignment chosen
   before; the rest up to the block boundary is then cut to nothing in every step.
6. `load_recompute`: a request that shares an invalid block goes on behind it before the
   one that marked it has recomputed it.
7. `engram_arming`: the arm file is looked for on each rank by itself, so one rank waits
   in the barrier of the filling and the other in a collective of the step before.

Other observations, without a run: a launcher given a command list with another port
claims an arena that `lil` does not use (the path is fixed, the lists of `Launch` have
either port); the order in which all-reduce backends are logged is not that in which they are tried.

## 4. Proofs

`DeferredFreeProofs` proves, for every set of requests and blocks, every number of
batches and steps and every combination of connector roles, that `IInv` is inductive
and from it `TypeOK`, `NoOverwrite`, `LandingExclusive`, `CountersInSync` and
`NothingParkedUnlessNeeded` (without deferral nothing is parked; stated for every
configuration, so it needs no run of its own). The assumption used is `ConfigAssumption` of
`DeferredFree`. `NoOverwrite` alone is not inductive: that a block may be handed to a
load follows from *why* it was free. `FenceInv` says it: with deferral, each block a
step in flight touches is either still held by a request whose last scheduled step is
not earlier, or parked behind a fence not earlier than that step. `SeqInv` ties the
fences and the sequence numbers of the steps to the two counters, so draining up to
`processed_step_seq` releases nothing in use; `HandlerInv` says what each phase
leaves settled, e.g. that without deferral no step is in flight while blocks are
allocated. The proof has a lemma per action and, under it, a step per conjunct the
action can disturb.

The second half of the module rests on that invariant. `Implementation`: under the mapping `Reuse`
of `DeferredFree` (held, landing and the queue of what the steps in flight touch) the
initial states are those of `BlockReuse`, `EndSchedule` is `Submit`, `BeginUpdate` is
`Complete`, `StartLoad` is `StartFill`, `FinishedRecving` is `EndFill`, and every other
action changes ownership at most (`OwnStep`), because `LandingExclusive` keeps a landing
block held and `NoOverwrite` of the successor state keeps it out of the queue.
`DrainedToFence` needs `SeqInv`: what is parked waits for its request's last step, which
is scheduled and not processed, so an entry appended to an empty queue is pending, and
draining stops at the first pending one.

`InductionProofs` is the ground of the next three proofs and of `FreshIsUnused`
(`VmmAllocationProofs`). The installed provers cannot
instantiate an induction theorem that takes an operator, so induction is stated for a
set instead: one that holds 0 and the successor of each of its numbers holds all of them
(`InductiveSet`, from the well-foundedness of `<`). What a recursive function computes
follows by taking for the set the numbers up to which the claim is true. Sums over
sequences (`Total`) and over finite sets (`SumFunctionOnSet`, whose fold chooses its
elements in an order nobody knows) get the laws that the counters need: one term changes,
one is added or removed, all are equal. For the same reason the models remove entries
from a queue by a recursive function (`Without`) and not by `SelectSeq`, which cannot be
expanded.

`OutputAccountingProofs` proves, for any number of requests, drafts, batches and
preemptions, all that the run `output_async` checks. The hypotheses are
`AccountingAssumption` and, for `NoWastedStep` alone, `MaxBatches <= 2` (the code
looks one step back). None of the properties is inductive by itself, because a
counter changes when a result is processed and the property speaks of the steps that
remain. The invariant has these parts:
* `StepsInOrder`, `BatchIsFitting`: the steps in flight hold a request's residencies (the
  times between two preemptions) in order, none newer than the present one.
* `StaleShareIsExact`: counters are sums over the queue, the stale one over its older part.
* `CountersFit`: what may be appended is covered by placeholders, and a running request
  always lacks a token that no step in flight computes; this is why it can settle.
* `DeliveriesChain`: the shares still to be delivered continue the token list one after
  the other, so whichever is first continues it now: `OutputInOrder`.

`RequestQueuesProofs` proves, for every set of requests and sessions and every setting,
`FinishedIsReleased` and `NoUpdateForgotten`. The first is inductive with `LoadsTracked`
(whoever waits for a load has it under way or reported complete): an abort keeps a
request only if one of the two transfers still has to end.

The same module proves `TypeOK`, `QueuedOnce`, `UnfinishedAreCounted`,
`SlotsSuffice` and `CompletionsBelong`, and `SkippedAreRequeued` and `SessionCommences`,
which two runs refute, where they do hold. Together that is
every property of `RequestQueues` that the run `scheduler` checks. The hypothesis `Configured` draws that line: no interleave
controller (`request_interleaved` shows what it does to the queues), and sessions are not
combined with preemption (`request_session_preempted`). A request is in the queue its
status says only because of what else is known of it: `Placed` says whom each queue lists
in each phase, the local queues of a handler included (`Listed`), that what a waiting
request still has in flight is stale and that of a running one only the last share
samples (`SharesInv`), that paused sessions are counted and hold their slot (`Counted`),
and that reported loads are waited for (`Awaited`). Without `SharesInv` a result could stop a request that waits for a load, and
it would end in two queues.

`ScheduleStepProofs` proves for any finite set of requests, budgets, policy and controls
what the run `scheduler` checks of `ScheduleStep` on its two instances (there the
properties appear as `BothBalance`, `EveryoneConsidered`, ..., which say that both
instances have them) and the action property `LeftoverKeepsService`. The hypothesis is
`StepAssumption`; `EvictionFollowsPriority` also assumes PRIORITY. The
invariant is `StepInv /\ Balanced /\ Asked`:
* `PassFits`: a pass that may evict starts with nothing scheduled, so the requests behind
  its cursor hold no tokens. FCFS evicts the last, which is behind the cursor: it has
  nothing to refund, and only PRIORITY, which may evict before the cursor, must refund and
  move the cursor back. This is what makes the code's two branches equivalent for the budgets.
* `Passed`, `Ranked`: whoever is before the cursor was looked at; nobody still running is
  less important than a victim.
* `Balanced`: each budget is the step's less a sum or a number of scheduled requests, and
  what is under consideration still fits it.
* `Asked`: while nothing was scheduled, budgets are full, so a pass ends only behind the
  last request, and `FollowingPass` leaves out no pass that some request needs. Once
  something is served the claim has nothing to say until the next call begins.

`DcpExchangeProofs` proves `ReadsOwnCall` and `NobodyStuck` for any number of ranks, any
plan of layer calls, any choice of direct and collective exchanges and any sizes (the
hypotheses: `N`, the number of ranks, is positive, the bounds and sizes are natural). Nothing
orders the ranks but what they wait for, so the invariant is stated pair by pair.
`Together`: two ranks are at the same exchange, or one of them has given its part and
the other is at the very next one; no third case survives, because passing an exchange
takes the part of every rank. `IsGiven` says that what a rank has given is where its
peers look for it, `IsKept` that it stays there while the rank is one exchange ahead:
the next exchange uses the other workspace, or the other of the two buffers. That is the
reason why two buffers are enough, and the mutant with one buffer breaks it.
`NobodyStuck` is stated by what each kind of wait needs, not by ENABLED: a rank that is
behind nobody finds that everyone has signalled, or entered.

`VmmAllocationProofs` proves `WeightsSurvive`, `WeightsStayReadable`, `HotIsCounted` and
`FreeReturnsAll` for any layouts, any number of failing driver calls and of leaked
handles, with and without the host's copies being kept. The hypothesis `LayoutsFit` is
what the constructor accepts: a prefix of hot regions with one cold rest, or chunks and
nothing hot. None of the four is inductive, since an operation passes through states in
which a region has no mapping at all. `VmmInv` says where the weights are meanwhile:
* `Made`, `Recorded`: how far the constructor is; the object's mappings and handles are the
  driver's, also half-way through a failed `free()`, which is why it may be tried again.
* `Backed`, `AtHome`, `Moved`: what is mapped holds its own weights; the host's handle holds
  them still, unless a chunk was moved for good, and then its address is mapped.
* `Underway`: what the operation at hand has reached at each of its calls (the copy is done
  before the address is unmapped, the temporary mapping leads to the new handle).
* `Reachable`: with one failure every region is readable but the one being remapped; an
  error handler is entered at the cost of one failure, so a mapping lost for good takes two
  failures, or a chunk, for which there is no way back.
* `OnDevice`, `Counted`, `Unharmed`: without failures the recorded handles are those mapped.
The proof classifies the calls: those that leave all but a reservation alone
(`QuietStep`), those whose error falls through to a handler (`Fallen`), and the few that
map, unmap, copy or release, each a lemma for all the places where the code makes it.

`LaunchProofs` proves `ArenaFollowsLock` for any number of containers, environments and
ports, if no container is called `Nobody`. The invariant says what holding the lock
means at each step of a start, and that the arena is free when `lil` takes over.

Only model-checked: `StaleDrains` and `ParkedIsReturned`, since liveness is out of the
prover's reach; the properties of `KvLoadFailure` and `ChunkCuts`, and those of all the parts of
`worker` but `DcpExchange`, `VmmAllocation` and `Launch`. `AdaptersFit` is refuted by `step_adapters_admitted` and has no
theorem. No module declares a RECURSIVE operator.

## 5. Plan

Done: the modules of section 2 and the proofs of section 4.

Next, in order:
* Proofs: `CommunicatorsAreShared` of `PyncclSharing`.
* Preemption and drafts in `KvLoadFailure`; loads that share a pool with parked blocks
  (`DeferredFree` and `KvLoadFailure` composed).
* The `all` mode of recurrent states; checkpoints within a prefill.
* Suspend and resume of communicators.

## 6. Not modelled, and why

* Scheduler: pausing and the reuse of a request id in `RequestQueues` (PRIORITY is checked
  in `ScheduleStep` only). `AsyncScheduler` appears only through its placeholder
  bookkeeping: streaming sessions with two sampling steps in flight are not covered. A
  connector that loads and sends for the same request at once is not covered (its
  completions are not distinguishable in the repository). `KvLoadFailure` leaves out
  preemption, drafts, hits within a block and prompts of a single block.
* `linear.py`: allocation of parameters, their classes and the products; `dcp.py`: the
  kernels, and more than one micro-batch or group of ranks.
* Recurrent states: the `all` mode, checkpoints within a prefill.
* Communicator: suspend, resume and checkpoint; choice of the all2all manager;
  `reduce_scatter` along a third dimension.
* Expert residency: preparation of the b12x plans and tuning. Engram: the preparation of
  plans, the projection behind the rows, the native reader and hash.
* Launcher and cache contract: arguments that pass through unchanged.
* Statistics, grammar bitmasks and connector metadata; model code, attention and GEMM
  kernels, weight files, tokenizer, environment tables, benchmark and qualification tools
  are numerical or pure input and output.
