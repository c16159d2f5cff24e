------------------------------- MODULE MCWorker -------------------------------
(* Instances of the parts beside the scheduler, checked side by side: they   *)
(* share no state, so a behaviour is one of the part "which" names. The      *)
(* cells are that part's variables, in its order; those it does not need     *)
(* stay empty.                                                               *)
EXTENDS Integers, Sequences, TLC

VARIABLES which, c1, c2, c3, c4, c5, c6, c7, c8, c9, c10, c11, c12, c13
vars == <<which, c1, c2, c3, c4, c5, c6, c7, c8, c9, c10, c11, c12, c13>>
-----------------------------------------------------------------------------
(* Weights: every class of layer, padded and not, on 1 to 6 ranks.           *)
Class == INSTANCE WeightShards WITH
  Layers <- {}, Params <- {},
  layer <- c1, param <- c2, rank <- c3, axis <- c4, pending <- c5, outcome <- c6
MCLayers == {
  Class!ColumnParallelLinear(3, 6, 5), Class!ColumnParallelLinear(3, 12, 8),
  Class!ColumnParallelLinear(1, 4, 3),
  Class!DCPGroupColumnParallelLinear(6, 2, 12, 10), Class!DCPGroupColumnParallelLinear(4, 2, 8, 8),
  Class!MergedColumnParallelLinear(3, <<6, 6>>, <<5, 5>>),
  Class!MergedColumnParallelLinear(3, <<12, 12>>, <<8, 8>>),
  Class!MergedColumnParallelLinear(3, <<12, 6, 12>>, <<10, 6, 9>>),
  Class!MergedColumnParallelLinear(2, <<4, 8>>, <<4, 8>>),
  Class!QKVParallelLinear(3, 6, 3, 2, 2, 5, 2), Class!QKVParallelLinear(4, 4, 2, 2, 4, 4, 2),
  Class!QKVParallelLinear(3, 9, 9, 2, 2, 8, 8), Class!QKVParallelLinear(3, 6, 1, 4, 2, 4, 1),
  Class!QKVParallelLinear(3, 6, 2, 2, 2, 6, 2),
  Class!MinimaxM3QKVParallelLinearWithIndexer(4, 4, 2, 2, 2),
  Class!MinimaxM3QKVParallelLinearWithIndexer(2, 4, 4, 2, 2),
  Class!KimiK3MergedQKVGateLinear(3, 2, 4, 6),
  Class!RowParallelLinear(3, 12, 8), Class!RowParallelLinear(3, 6, 4), Class!RowParallelLinear(3, 6, 6)}
MCParams ==
  [kind : {"block", "packed", "storage"}, unit : {2}, v2 : BOOLEAN]
  \cup [kind : {"rows"}, unit : {1}, v2 : BOOLEAN]
Shards == INSTANCE WeightShards WITH
  Layers <- MCLayers, Params <- MCParams,
  layer <- c1, param <- c2, rank <- c3, axis <- c4, pending <- c5, outcome <- c6

(* The geometry: GLM 5.3's target and draft with their real sizes, a vision  *)
(* tower, configurations that disagree, and models that are not GLM's.       *)
Text == [num_attention_heads |-> 64, num_key_value_heads |-> 64, linear_num_heads |-> 64,
         moe_intermediate_size |-> 2048, hidden_size |-> 4096, vocab_size |-> 154880]
Outer == [num_attention_heads |-> 64, hidden_size |-> 4096]
Vision == [num_heads |-> 16, hidden_size |-> 1024, intermediate_size |-> 4096,
           projection_intermediate_size |-> 10240]
Draft == [num_attention_heads |-> 32, num_key_value_heads |-> 8, vocab_size |-> 154880]
ModelOf == INSTANCE Tp3Geometry WITH
  Models <- {}, MoeWidths <- {}, MaxCalls <- 0,
  model <- c1, before <- c2, moe_tp_width <- c3, ep <- c4, tp <- c5, calls <- c6, outcome <- c7
MCModels == {
  ModelOf!Model(TRUE, FALSE, <<ModelOf!Config(Text)>>, <<>>),
  ModelOf!Model(TRUE, FALSE, <<ModelOf!Config(Text), ModelOf!Config(Outer)>>, <<ModelOf!Config(Vision)>>),
  ModelOf!Model(TRUE, FALSE, <<ModelOf!Config(Text), ModelOf!Config([Outer EXCEPT !.hidden_size = 2048])>>, <<>>),
  ModelOf!Model(TRUE, FALSE, <<ModelOf!Config(Text)>>, <<ModelOf!Config([Vision EXCEPT !.num_heads = 12])>>),
  ModelOf!Model(FALSE, TRUE, <<ModelOf!Config(Draft)>>, <<>>),
  ModelOf!Model(FALSE, TRUE, <<ModelOf!Config(Draft), ModelOf!Config([num_attention_heads |-> 30])>>, <<>>),
  ModelOf!Model(FALSE, FALSE, <<ModelOf!Config(Draft)>>, <<>>)}
Geometry == INSTANCE Tp3Geometry WITH
  Models <- MCModels, MoeWidths <- {0, 2112, 4096}, MaxCalls <- 3,
  model <- c1, before <- c2, moe_tp_width <- c3, ep <- c4, tp <- c5, calls <- c6, outcome <- c7

(* Attention over a split context: 2 ranks with 2 heads each, LSEs with both *)
(* infinities and NaN, requests that one rank has no keys of.                *)
MCLses ==
  {[x \in (0..1) \X (0..3) |-> IF x[2] = 0 THEN a[x[1]] ELSE IF x[2] = 1 THEN b[x[1]] ELSE 1 + 2 * x[1]] :
     a \in [0..1 -> {-2, -1, 0, 1, 3}], b \in [0..1 -> {0, 2}]}
Rows(rows, starts, lens) == [rows |-> rows, query_start_loc |-> starts, seq_lens |-> lens]
MCBatches ==
  {Rows(3, <<0, 1, 3>>, l) : l \in [0..1 -> {<<0, 1>>, <<1, 0>>, <<2, 1>>}]}
  \cup {Rows(3, <<0, 1, 1, 2>>, l) : l \in [0..1 -> {<<0, 1, 1>>, <<1, 0, 2>>}]}
  \cup {Rows(2, <<0>>, [r \in 0..1 |-> <<>>])}
Combine == INSTANCE DcpCombine WITH
  N <- 2, HeadsPerRank <- 2, Lses <- MCLses, Batches <- MCBatches,
  how <- c1, lse <- c2, batch <- c3, stage <- c4, masked <- c5, received <- c6, out <- c7

(* The exchanges of 3 ranks over 2 layer calls.                              *)
Peer(a2a, a2a_direct, q_direct, kv_direct, pcp) ==
  [a2a |-> a2a, a2a_direct |-> a2a_direct, q_direct |-> q_direct, kv_direct |-> kv_direct, pcp |-> pcp]
Exchange == INSTANCE DcpExchange WITH
  N <- 3, MaxSteps <- 2,
  Backends <- {Peer(TRUE, TRUE, TRUE, TRUE, FALSE), Peer(FALSE, FALSE, TRUE, TRUE, FALSE),
               Peer(TRUE, TRUE, FALSE, FALSE, TRUE)},
  Config <- [max_num_batched_tokens |-> 9, max_num_seqs |-> 2, speculative |-> 1,
             parallel |-> FALSE, capture |-> 0],
  backend <- c1, plan <- c2, step <- c3, pc <- c4, op <- c5, sent <- c6, epoch <- c7,
  buffer <- c8, signal <- c9, entered <- c10

(* Cache layouts: layer after layer, packed, heads outside of the blocks,    *)
(* shared layers, and kernels with different block sizes.                    *)
SizesOf == INSTANCE KvBlocks WITH
  Layouts <- {}, MaxChunk <- 0, MaxOps <- 0,
  layout <- c1, mem <- c2, was <- c3, done <- c4, ops <- c5
Layer(base, stride, token, outer, shared) ==
  [base |-> base, block_stride |-> stride, token |-> token, outer |-> outer, shared |-> shared]
CacheGroup(size, backends, layers) == [block_size |-> size, backends |-> backends, layers |-> layers]
Cache(blocks, size, groups) == [num_blocks |-> blocks, size |-> size, groups |-> groups]
MCLayouts == {
  Cache(3, 24, <<CacheGroup(4, {{SizesOf!Exactly(2)}, {SizesOf!MultipleOf(1)}},
    {Layer(0, 4, 1, {0}, FALSE), Layer(12, 4, 1, {0}, FALSE), Layer(12, 4, 1, {0}, TRUE)})>>),
  Cache(3, 18, <<CacheGroup(2, {{SizesOf!MultipleOf(2)}}, {Layer(0, 6, 1, {0}, FALSE), Layer(2, 6, 1, {0}, FALSE)}),
                 CacheGroup(2, {{SizesOf!Exactly(2)}}, {Layer(0, 6, 3, {0}, FALSE)})>>),
  Cache(3, 12, <<CacheGroup(2, {{SizesOf!Exactly(1), SizesOf!MultipleOf(2)}}, {Layer(0, 2, 1, {0, 6}, FALSE)})>>),
  Cache(2, 12, <<CacheGroup(6, {{SizesOf!Exactly(3), SizesOf!Exactly(2)}, {SizesOf!Exactly(2), SizesOf!MultipleOf(3)}},
    {Layer(0, 6, 1, {0}, FALSE)})>>),
  Cache(2, 8, <<CacheGroup(4, {{SizesOf!Exactly(4)}, {SizesOf!Exactly(2)}}, {Layer(0, 4, 1, {0}, FALSE)})>>)}
Kv == INSTANCE KvBlocks WITH
  Layouts <- MCLayouts, MaxChunk <- 2, MaxOps <- 2,
  layout <- c1, mem <- c2, was <- c3, done <- c4, ops <- c5

(* Byte copies of up to 5 words, aligned and not, by up to 3 thread blocks.  *)
CopyJob(kernel, src, dst, size, tiles, width) ==
  [kernel |-> kernel, src |-> src, dst |-> dst, size |-> size, tiles |-> tiles, width |-> width]
MCJobs ==
  {CopyJob("tiled", s, 40 + d, n, t, w) :
     s \in {0, 3}, d \in {0, 3, 5}, n \in {0, 2, 8, 13, 29, 37}, t \in {1, 2, 3}, w \in {1, 2}}
  \cup {CopyJob("lanes", s, 0, n, 1, w) : s \in {1, 2, 6}, n \in {1, 4, 5}, w \in {2, 3}}
  \cup {CopyJob("lanes", 0, 5, 4, 1, 3)}
Tiles == INSTANCE TiledCopy WITH Jobs <- MCJobs, job <- c1, mem <- c2, loaded <- c3, todo <- c4

(* Prompts cut into chunks: blocks of 4, hash blocks of 2.                   *)
Prompt(prompt, tokens, junction, items) ==
  [prompt |-> prompt, tokens |-> tokens, junction |-> junction, checkpoints |-> FALSE,
   boundaries |-> {}, items |-> items]
Item(offset, length, id) == [offset |-> offset, length |-> length, id |-> id]
MCPrompts == {
  Prompt(9, 9, 0, <<>>), Prompt(8, 10, 5, <<>>), Prompt(9, 9, 6, <<Item(1, 2, "a"), Item(5, 2, "b")>>),
  Prompt(7, 7, 0, <<Item(2, 2, "a"), Item(4, 2, "a")>>),
  [Prompt(8, 8, 0, <<Item(3, 2, "a")>>) EXCEPT !.checkpoints = TRUE, !.boundaries = {3, 6}]}
Plain == [block |-> 4, hash |-> 2, drop |-> FALSE, partial |-> FALSE, fine |-> FALSE,
          internal |-> FALSE, retention |-> -1, max_prefill |-> 6, lookahead |-> 0,
          whole_items |-> FALSE, mamba |-> TRUE, budget |-> 3, capacity |-> 4, max_tokens |-> 6]
MCSettings == {
  Plain, [Plain EXCEPT !.lookahead = 1], [Plain EXCEPT !.lookahead = 2, !.mamba = FALSE],
  [Plain EXCEPT !.lookahead = 1, !.whole_items = TRUE, !.mamba = FALSE],
  [Plain EXCEPT !.drop = TRUE, !.partial = TRUE, !.fine = TRUE, !.lookahead = 1],
  [Plain EXCEPT !.internal = TRUE, !.retention = 0],
  [Plain EXCEPT !.retention = 3, !.max_prefill = 3, !.max_tokens = 3]}
Chunks == INSTANCE PrefillChunks WITH
  Prompts <- MCPrompts, Settings <- MCSettings, MaxSteps <- 2,
  r <- c1, o <- c2, computed <- c3, held <- c4, cached <- c5, chunk <- c6, steps <- c7

(* Recurrent states: blocks of 3 tokens, 2 drafts, two recurrent groups with *)
(* two groups without between them; and a group that mixes both.             *)
Align == [Plain EXCEPT !.block = 3, !.hash = 1, !.max_prefill = 4, !.max_tokens = 4]
          @@ [mode |-> "fused", S |-> 2,
              groups |-> <<<<<<>>>>, <<<<"conv", "temporal">>, <<"temporal">>>>, <<<<>>, <<>>>>, <<<<"conv">>>>>>]
MCOptions == {
  Align, [Align EXCEPT !.mode = "v2"], [Align EXCEPT !.mode = "scalar", !.S = 0, !.drop = TRUE],
  [Align EXCEPT !.groups = <<<<<<"conv">>, <<>>>>>>]}
States == INSTANCE MambaStates WITH
  Requests <- {Prompt(3, 3, 0, <<>>), Prompt(6, 6, 0, <<>>), Prompt(7, 7, 5, <<>>)},
  Options <- MCOptions, K <- 2, MaxTokens <- 11, MaxDepth <- 5,
  r <- c1, o <- c2, computed <- c3, tokens <- c4, state_idx <- c5, resumed <- c6, accepted <- c7,
  step <- c8, mem <- c9, used <- c10, captured <- c11, phase <- c12, depth <- c13

(* A weight tensor of mixed residency: hot, cold, half cold, in chunks.      *)
Residency(regions, hot, chunked) == [regions |-> regions, hot |-> hot, chunked |-> chunked]
Vmm == INSTANCE VmmAllocation WITH
  Layouts <- {Residency(2, 1, FALSE), Residency(2, 2, FALSE), Residency(1, 0, FALSE), Residency(3, 0, TRUE)},
  KeepHost <- FALSE, MaxFailures <- 2, MaxLeaks <- 1,
  layout <- c1, drv <- c2, own <- c3, pc <- c4, reg <- c5, failures <- c6

(* Pointer tables of a layer with 3 experts of 2 bytes.                      *)
Banks == INSTANCE ExpertBanks WITH
  E <- 3, ExpertBytes <- 2, Budgets <- {3, 6}, MaxCount <- 1, MaxFailures <- 2,
  target <- c1, own <- c2, new <- c3, pc <- c4, counts <- c5, enabled <- c6, file <- c7, failures <- c8

(* Three MoE layers under the settings that choose how they are promoted.    *)
Operand(weight, row) == [weight |-> weight, row |-> row]
Inplace == [vmm |-> TRUE, range |-> {1, 2, 3}, quarters |-> 4, cold |-> 4, chunk_experts |-> 1, budget |-> 0,
            deferred |-> FALSE, inplace |-> TRUE, codec |-> TRUE, startup |-> FALSE, even_split |-> TRUE,
            reserve |-> 2]
MCEnvs == {
  Inplace, [Inplace EXCEPT !.chunk_experts = 2, !.budget = 20],
  [Inplace EXCEPT !.chunk_experts = 0, !.cold = 2],
  [Inplace EXCEPT !.deferred = TRUE], [Inplace EXCEPT !.deferred = TRUE, !.inplace = FALSE],
  [Inplace EXCEPT !.deferred = TRUE, !.inplace = FALSE, !.even_split = FALSE],
  [Inplace EXCEPT !.vmm = FALSE, !.budget = 40, !.inplace = FALSE, !.startup = TRUE, !.codec = FALSE,
                  !.range = {2, 3}]}
Promotion == INSTANCE ExpertPromotion WITH
  Layers <- 1..3, Experts <- 3, Gran <- 2, Envs <- MCEnvs, Frees <- {1, 5, 12, 21, 40},
  Params <- <<Operand(TRUE, 4), Operand(FALSE, 1), Operand(TRUE, 2), Operand(FALSE, 1)>>,
  env <- c1, place <- c2, offloaded <- c3, ordinal <- c4, mode <- c5, pending <- c6, promoted <- c7,
  armed <- c8, free <- c9, atFirst <- c10

(* Engram tables: a lazy and a disk table with enough host memory and with   *)
(* too little, one on disk over 3 ranks, and tables looked up in the graph,  *)
(* beside one on disk and without.                                           *)
Engram(tp, rows, layers, disk, ram_in_graph, host) ==
  [tp |-> tp, rows |-> rows, layers |-> layers, disk |-> disk, ram_in_graph |-> ram_in_graph, host |-> host,
   parked |-> 1, margin |-> 1, chunk |-> 1, max_tokens |-> 2]
TableStep(dummy, ids) == [dummy |-> dummy, ids |-> ids]
Tables == INSTANCE EngramTables WITH
  Settings <- {Engram(2, 3, <<"lazy", "disk">>, TRUE, FALSE, 1), Engram(2, 3, <<"lazy", "disk">>, TRUE, FALSE, 3),
               Engram(3, 4, <<"disk">>, TRUE, FALSE, 0), Engram(2, 3, <<"ram", "disk">>, TRUE, FALSE, 0),
               Engram(2, 3, <<"ram", "disk">>, TRUE, TRUE, 0), Engram(3, 4, <<"device", "device">>, FALSE, FALSE, 0)},
  Batches <- {TableStep(FALSE, <<2, 0>>), TableStep(FALSE, <<1>>), TableStep(FALSE, <<2, -1>>),
              TableStep(TRUE, <<-1, -1>>)},
  MaxSteps <- 2,
  s <- c1, armed <- c2, host <- c3, rank <- c4, table <- c5, staged <- c6, steps <- c7, sent <- c8

(* A cache of 2 rows before a shard of rows 1 to 4; batches with rows twice, *)
(* rows of one slot, rows of other shards and none.                          *)
MCIds == {b \in UNION {[1..n -> -1..5] : n \in 1..3} : Len(b) = 3 => \A p \in 1..3 : b[p] \in {1, 2, 3}}
RowCache == INSTANCE EngramRowCache WITH
  Capacity <- 2, shard_start <- 1, shard_end <- 5, IdBatches <- MCIds, HasScales <- TRUE,
  tags <- c1, weight <- c2, scale <- c3, out <- c4, out_scale <- c5, ids <- c6, ready <- c7

(* Two texts, one with an image, hashed in steps of up to 3 tokens.          *)
Hashes == INSTANCE NgramHash WITH
  Texts <- <<<<1, 4, 2, 3, 1>>, <<3, 2, 1>>>>, Drafts <- {5}, Sentinel <- 4, Compress <- <<1, 2, 2, 4, 5>>,
  MaxTokens <- 3, MaxSeqs <- 2,
  done <- c1, buf <- c2, batch <- c3, out <- c4

(* Collectives of 2 and 3 ranks through every path, with results that are    *)
(* still in use during the next call.                                        *)
Setup(w) ==
  [world |-> w, symm |-> FALSE, aiter |-> FALSE, rocm |-> FALSE, b12x |-> FALSE,
   batch_invariant |-> FALSE, pynccl |-> TRUE]
MCSetups == {
  Setup(2), Setup(3), [Setup(2) EXCEPT !.symm = TRUE], [Setup(3) EXCEPT !.symm = TRUE],
  [Setup(3) EXCEPT !.batch_invariant = TRUE], [Setup(2) EXCEPT !.aiter = TRUE, !.rocm = TRUE],
  [Setup(2) EXCEPT !.b12x = TRUE], [Setup(2) EXCEPT !.pynccl = FALSE]}
Call(op, dim, shapes) ==
  [op |-> op, dim |-> dim, shapes |-> shapes, sizes |-> <<>>, symm |-> FALSE, hold |-> FALSE, root |-> 0]
Held(c) == [c EXCEPT !.hold = TRUE]
Symmetric(c) == [c EXCEPT !.symm = TRUE]
Varying(c, sizes) == [c EXCEPT !.sizes = sizes]
Of(c, root) == [c EXCEPT !.root = root]
MCPrograms ==
  (2 :> {
    <<Held(Call("all_gather", 0, <<<<1, 2>>>>)), Call("reduce_scatter", 0, <<<<2, 2>>>>),
      Symmetric(Call("reduce_scatter", 1, <<<<2, 2>>>>))>>,
    <<Call("all_gather", 1, <<<<2, 2>>>>), Call("all_gather", 2, <<<<1, 2, 2>>>>),
      Of(Call("broadcast", 0, <<<<2, 1>>>>), 1)>>,
    <<Held(Call("reduce_scatter", 0, <<<<4, 1>>>>)), Call("all_gather", 0, <<<<2, 1>>>>)>>,
    <<Held(Of(Call("pass", 0, <<<<2, 1>>>>), 1)), Of(Call("pass", 0, <<<<1, 1>>>>), 0)>>,
    <<Varying(Call("all_gatherv", 0, <<<<0, 2>>, <<0, 1>>>>), <<2, 2>>),
      Varying(Call("reduce_scatterv", 0, <<<<4, 2>>>>), <<1, 3>>)>>})
  @@ (3 :> {
    <<Held(Varying(Call("all_gatherv", 0, <<<<0, 2>>, <<0, 1>>>>), <<2, 0, 2>>)),
      Varying(Call("reduce_scatterv", 0, <<<<4, 2>>>>), <<2, 0, 2>>)>>,
    <<Held(Varying(Call("all_gatherv", 0, <<<<0, 2>>>>), <<1, 1, 1>>)),
      Varying(Call("reduce_scatterv", 1, <<<<2, 3>>>>), <<1, 1, 1>>)>>,
    <<Of(Call("pass", 0, <<<<2, 1>>>>), 2), Call("all_gather", 1, <<<<2, 1, 2>>>>),
      Varying(Call("reduce_scatterv", 1, <<<<1, 4>>>>), <<2, 1, 1>>)>>})
Device == INSTANCE Collectives WITH
  Setups <- MCSetups, Programs <- MCPrograms,
  setup <- c1, program <- c2, pos <- c3, stream <- c4, mem <- c5, got <- c6

(* Two groups over the same ranks, one in the other order, and one that      *)
(* overlaps: created, used and destroyed in any order the ranks agree on.    *)
SharedGroup(ranks) == [ranks |-> ranks, stateless |-> FALSE]
Sharing == INSTANCE PyncclSharing WITH
  World <- 3, MaxCalls <- 4,
  Groups <- <<SharedGroup(<<0, 1>>), SharedGroup(<<0, 1>>), SharedGroup(<<1, 2>>), SharedGroup(<<1, 0>>)>>,
  share <- c1, program <- c2, pos <- c3, entered <- c4, table <- c5, held <- c6, alive <- c7

(* Every switch on both platforms, AITER on ROCm alone: the code ties none   *)
(* of the others to a platform before it makes the backend.                  *)
Switches == {"custom", "symm", "fi", "ipc", "invariant", "b12x", "roce", "nccl_symm"}
Backends == INSTANCE AllReduceBackends WITH
  Groups <- [name : {"tp", "ep", "dp"}, world : {1, 2}],
  CudaFlags <- Switches, RocmFlags <- Switches \cup {"aiter"},
  group <- c1, platform <- c2, flags <- c3, comms <- c4, logged <- c5, accepts <- c6, chosen <- c7

(* The four profiles with settings around their limits; some launch twice.   *)
GlmSettings ==
  [id |-> "glm53-flash", cache_mode |-> "lmcache", transfer |-> "engine_driven", native |-> 0, chunk |-> 4,
   l1 |-> 8, l1_init |-> 2, gpu_workers |-> 0, port |-> 8000, cache_port |-> 0, http_port |-> 0,
   metrics_port |-> 0, well_formed |-> TRUE, directory |-> "/cache", l2 |-> TRUE, tp |-> 3, dcp |-> 1,
   dtype |-> "fp8", block |-> 2, target_tokens |-> 0, batched |-> 4, scheduled |-> 0, seqs |-> 2,
   mode |-> "dflash2", drafts |-> 7, policy |-> "auto", policy_from |-> "model", page |-> 2,
   page_from |-> "model", retention |-> -1, retention_from |-> "model", util |-> 930,
   util_from |-> "model", long |-> TRUE, revision |-> 0, draft_revision |-> 0, runtime |-> "lock1",
   again |-> FALSE]
QwenSettings == [GlmSettings EXCEPT !.id = "qwen38-flash-next"]
Ds4Settings == [GlmSettings EXCEPT !.id = "ds4-flash", !.tp = 2, !.chunk = 8]
Ds41Settings == [Ds4Settings EXCEPT !.id = "ds41-flash"]
Pages(profiles) ==
  UNION {{[s EXCEPT !.page = p, !.dcp = d, !.block = b, !.chunk = c, !.l2 = l2] :
            p \in {0, 2, 3}, d \in {1, 3}, b \in {1, 4}, c \in {4, 6}, l2 \in BOOLEAN} : s \in profiles}
Policies(profiles) ==
  UNION {{[s EXCEPT !.transfer = t, !.tp = n, !.policy = p, !.policy_from = f, !.retention = r, !.retention_from = f] :
            t \in {"engine_driven", "gpu_driven"}, n \in {2, 3, 5}, p \in {"auto", "aligned", "request_boundaries"},
            f \in {"model", "user"}, r \in {-1, 0, 4}} : s \in profiles}
PortSettings(s) ==
  {[s EXCEPT !.port = p, !.cache_port = c, !.http_port = h] :
     p \in {8000, 55534, 65535}, c \in {0, 8000, 18001}, h \in {0, 18000}}
LaunchedTwice == {
  GlmSettings, QwenSettings, Ds41Settings, [GlmSettings EXCEPT !.mode = "mtp"],
  [GlmSettings EXCEPT !.revision = 1], [GlmSettings EXCEPT !.draft_revision = 1, !.dtype = "bf16"],
  [GlmSettings EXCEPT !.transfer = "gpu_driven"], [GlmSettings EXCEPT !.mode = "off", !.runtime = "lock2"],
  [GlmSettings EXCEPT !.l2 = FALSE]}
MCPlans ==
  Policies({GlmSettings, QwenSettings, Ds4Settings, Ds41Settings,
            [GlmSettings EXCEPT !.target_tokens = 4, !.batched = 9, !.mode = "mtp"]})
  \cup Pages({[GlmSettings EXCEPT !.page_from = "user", !.target_tokens = 6],
              [GlmSettings EXCEPT !.page_from = "user"], Ds4Settings, Ds41Settings, QwenSettings})
  \cup PortSettings(GlmSettings)
  \cup {[GlmSettings EXCEPT !.cache_mode = m, !.native = n] : m \in {"vram", "native"}, n \in {0, 4}}
  \cup {[GlmSettings EXCEPT !.l1_init = 9], [GlmSettings EXCEPT !.directory = "/"], [GlmSettings EXCEPT !.id = "other"]}
  \cup {[s EXCEPT !.again = TRUE] : s \in LaunchedTwice}
Contract == INSTANCE CacheContract WITH
  Settings <- MCPlans, MaxLaunches <- 2, MaxMoves <- 1,
  v <- c1, stage <- c2, plan <- c3, hub <- c4, opened <- c5, launches <- c6

(* One start of every environment; four of two containers in the plain one.  *)
(* Instead of it, command lists at both ports, and such that main refuses.   *)
Environment ==
  [checkpoint |-> "default", mode |-> "mtp", dcp |-> 1, moe_tp |-> TRUE, lmcache |-> "l1", seqs |-> 0,
   batched |-> 0, maximum |-> 0, sizes |-> <<>>, custom |-> FALSE, reclaim |-> "auto", kv_blocks |-> 0,
   backend |-> "", image |-> TRUE]
MCEnvironments ==
  {[Environment EXCEPT !.checkpoint = k, !.mode = m, !.dcp = d, !.moe_tp = t, !.lmcache = l, !.maximum = x, !.kv_blocks = b] :
     k \in {"default", "uncensored"}, m \in {"", "mtp", "mtp0"}, d \in {1, 3}, t \in BOOLEAN,
     l \in {"off", "l1"}, x \in {0, 5, 32, 64, 100}, b \in {0, 1500, 1800}}
  \cup {[Environment EXCEPT !.sizes = s, !.custom = u] :
          s \in {<<>>, <<1, 32>>, <<8, 4, 32>>, <<1, 16>>}, u \in BOOLEAN}
  \cup {[Environment EXCEPT !.moe_tp = t, !.checkpoint = k, !.backend = b, !.image = i] :
          t \in BOOLEAN, k \in {"default", "uncensored"}, b \in {"", "b12x", "triton"}, i \in BOOLEAN}
CommandList ==
  [port |-> 8000, lmcache |-> TRUE, mode |-> "mtp", dcp |-> 3, expert_parallel |-> FALSE, moe_backend |-> "marlin",
   eplb |-> FALSE, sizes |-> <<4, 2>>, maximum |-> 4, kv_blocks |-> 1800]
MCLists == {
  CommandList, [CommandList EXCEPT !.port = 8001], [CommandList EXCEPT !.lmcache = FALSE, !.kv_blocks = 0],
  [CommandList EXCEPT !.expert_parallel = TRUE], [CommandList EXCEPT !.moe_backend = ""],
  [CommandList EXCEPT !.eplb = TRUE]}
Servers == INSTANCE Launch WITH
  Containers <- {"a", "b"}, Lists <- MCLists,
  Scenarios <- [env : MCEnvironments, starts : {1}]
               \cup [env : {Environment, [Environment EXCEPT !.lmcache = "off"]}, starts : {4}],
  env <- c1, args <- c2, pc <- c3, refused <- c4, lock <- c5, arena <- c6, starts <- c7

(* Failed loads where what is lost is made good: loads beside the steps      *)
(* under both policies, with aborts; loads within the steps, of prompts not  *)
(* cut by a threshold and never aborted, under recompute with one or two     *)
(* cache groups and under fail with two; and a request of each kind.         *)
Loading ==
  [recompute |-> TRUE, groups |-> 1, blocks |-> 5, prompt |-> [a |-> 2, b |-> 2], async |-> {}, sync |-> {},
   threshold |-> 0, budget |-> 4, aborts |-> FALSE]
MCLoads ==
  {[Loading EXCEPT !.recompute = p, !.async = {"a", "b"}, !.aborts = ~p] : p \in BOOLEAN}
  \cup {[Loading EXCEPT !.recompute = p, !.groups = 2, !.prompt = [a |-> 2], !.async = {"a"}, !.aborts = TRUE] : p \in BOOLEAN}
  \cup {[Loading EXCEPT !.groups = g, !.blocks = 20, !.prompt = [a |-> 2, b |-> 2, c |-> 3, d |-> 3],
                        !.sync = {"a", "b", "c", "d"}, !.budget = n] : g \in 1..2, n \in 3..4}
  \cup {[Loading EXCEPT !.recompute = FALSE, !.groups = 2, !.blocks = 14, !.prompt = [a |-> 2, b |-> 3, c |-> 2],
                        !.sync = {"a", "b", "c"}, !.budget = 6],
        [Loading EXCEPT !.prompt = [a |-> 2, b |-> 3], !.sync = {"a"}, !.async = {"b"}]}
Loads == INSTANCE KvLoadFailure WITH
  Scenarios <- MCLoads,
  s <- c1, phase <- c2, status <- c3, running <- c4, skipped <- c5, computed <- c6, pool <- c7,
  receiving <- c8, transfers <- c9, finished_recving <- c10, failed_recving <- c11, step <- c12, output <- c13
-----------------------------------------------------------------------------
Empty11 == c11 = 0 /\ c12 = 0 /\ c13 = 0
Empty9  == c9 = 0 /\ c10 = 0 /\ Empty11
Empty8  == c8 = 0 /\ Empty9
Empty7  == c7 = 0 /\ Empty8
Empty6  == c6 = 0 /\ Empty7
Empty5  == c5 = 0 /\ Empty6
Init ==
  \/ which = "shards" /\ Shards!Init /\ Empty7
  \/ which = "geometry" /\ Geometry!Init /\ Empty8
  \/ which = "combine" /\ Combine!Init /\ Empty8
  \/ which = "exchange" /\ Exchange!Init /\ Empty11
  \/ which = "kv" /\ Kv!Init /\ Empty6
  \/ which = "tiles" /\ Tiles!Init /\ Empty5
  \/ which = "chunks" /\ Chunks!Init /\ Empty8
  \/ which = "states" /\ States!Init
  \/ which = "loads" /\ Loads!Init
  \/ which = "vmm" /\ Vmm!Init /\ Empty7
  \/ which = "banks" /\ Banks!Init /\ Empty9
  \/ which = "promotion" /\ Promotion!Init /\ Empty11
  \/ which = "tables" /\ Tables!Init /\ Empty9
  \/ which = "rows" /\ RowCache!Init /\ Empty8
  \/ which = "hashes" /\ Hashes!Init /\ Empty5
  \/ which = "device" /\ Device!Init /\ Empty7
  \/ which = "sharing" /\ Sharing!Init /\ Empty8
  \/ which = "backends" /\ Backends!Init /\ Empty8
  \/ which = "contract" /\ Contract!Init /\ Empty7
  \/ which = "servers" /\ Servers!Init /\ Empty8
Next ==
  \/ which = "shards" /\ Shards!Next /\ UNCHANGED <<which, c7, c8, c9, c10, c11, c12, c13>>
  \/ which = "geometry" /\ Geometry!Next /\ UNCHANGED <<which, c8, c9, c10, c11, c12, c13>>
  \/ which = "combine" /\ Combine!Next /\ UNCHANGED <<which, c8, c9, c10, c11, c12, c13>>
  \/ which = "exchange" /\ Exchange!Next /\ UNCHANGED <<which, c11, c12, c13>>
  \/ which = "kv" /\ Kv!Next /\ UNCHANGED <<which, c6, c7, c8, c9, c10, c11, c12, c13>>
  \/ which = "tiles" /\ Tiles!Next /\ UNCHANGED <<which, c5, c6, c7, c8, c9, c10, c11, c12, c13>>
  \/ which = "chunks" /\ Chunks!Next /\ UNCHANGED <<which, c8, c9, c10, c11, c12, c13>>
  \/ which = "states" /\ States!Next /\ UNCHANGED <<which>>
  \/ which = "loads" /\ Loads!Next /\ UNCHANGED <<which>>
  \/ which = "vmm" /\ Vmm!Next /\ UNCHANGED <<which, c7, c8, c9, c10, c11, c12, c13>>
  \/ which = "banks" /\ Banks!Next /\ UNCHANGED <<which, c9, c10, c11, c12, c13>>
  \/ which = "promotion" /\ Promotion!Next /\ UNCHANGED <<which, c11, c12, c13>>
  \/ which = "tables" /\ Tables!Next /\ UNCHANGED <<which, c9, c10, c11, c12, c13>>
  \/ which = "rows" /\ RowCache!Next /\ UNCHANGED <<which, c8, c9, c10, c11, c12, c13>>
  \/ which = "hashes" /\ Hashes!Next /\ UNCHANGED <<which, c5, c6, c7, c8, c9, c10, c11, c12, c13>>
  \/ which = "device" /\ Device!Next /\ UNCHANGED <<which, c7, c8, c9, c10, c11, c12, c13>>
  \/ which = "sharing" /\ Sharing!Next /\ UNCHANGED <<which, c8, c9, c10, c11, c12, c13>>
  \/ which = "backends" /\ Backends!Next /\ UNCHANGED <<which, c8, c9, c10, c11, c12, c13>>
  \/ which = "contract" /\ Contract!Next /\ UNCHANGED <<which, c7, c8, c9, c10, c11, c12, c13>>
  \/ which = "servers" /\ Servers!Next /\ UNCHANGED <<which, c8, c9, c10, c11, c12, c13>>
Spec == Init /\ [][Next]_vars
-----------------------------------------------------------------------------
(* The properties of the parts, those of closely related parts under one     *)
(* name.                                                                     *)
\* A loaded parameter holds the rank's rows of the checkpoint, a rank that
\* cuts its heads out of a context group's parameter gets its own rows, and
\* slices that end at the units of the stored parameter are never refused.
\* The TP3 geometry is applied to all configurations of a model or to none.
WeightsFitGeometry ==
  /\ which = "shards" =>
       Shards!TypeOK /\ Shards!ShardsReassemble /\ Shards!LocalViewIsShard /\ Shards!AlignedIsAccepted
  /\ which = "geometry" => Geometry!GeometryIsWhole
\* Every rank ends with the softmax-weighted sum over all ranks' keys; it reads
\* from its exchange buffers the data of the call it is in, and none waits for
\* an exchange the others will not enter.
AttentionIsGlobal ==
  /\ which = "combine" => Combine!CombineIsGlobalAttention
  /\ which = "exchange" => Exchange!ReadsOwnCall /\ Exchange!NobodyStuck
\* Zeroing and copying blocks touches those blocks and all of them, at the
\* largest block size all kernels accept; a tiled copy, and one onto an
\* overlapping region, moves every byte.
BlocksAreExact ==
  /\ which = "kv" => Kv!BlocksAreExact /\ Kv!LargestCommonSize
  /\ which = "tiles" => Tiles!CopyIsExact
\* A chunk and the drafter behind it find their encoder outputs in the cache,
\* and the drafter its lookahead, unless the chunk ends the prompt; a chunk is
\* empty only if a budget or the encoder cache was short.
ChunksAreServable ==
  which = "chunks" => Chunks!InputsReady /\ Chunks!LookaheadKept /\ Chunks!EmptyChunkIsExplained
\* A step starts every layer from the state after the computed tokens; cached
\* columns and boundary checkpoints hold the state at their position.
StatesAreExact ==
  which = "states" => States!StartsFromComputed /\ States!CachedColumnsExact /\ States!CheckpointIsExact
\* In the scenarios above, which are those the code makes good, loads may fail
\* in any way: a request samples from the right contents, is not forgotten, and
\* gives its blocks back when no transfer writes to them.
LoadsAreRecovered == which = "loads" => Loads!OutputsAreExact /\ Loads!LoadsComeToAnEnd
\* Whichever driver calls fail, a weight tensor's contents survive, and after
\* one failure they are found under their addresses, but for one chunk; hot
\* bytes are counted and free() returns everything.
VmmKeepsWeights ==
  which = "vmm" => Vmm!WeightsStayReadable /\ Vmm!WeightsSurvive /\ Vmm!HotIsCounted /\ Vmm!FreeReturnsAll
\* Every pointer leads to its expert's weights, also between two generations
\* of tables; the experts that are hot are the most routed ones.
BanksResolve ==
  which = "banks" => Banks!PointersResolve /\ Banks!TablesAreCommitted /\ Banks!HottestAreHot
\* Promotions keep the reserve and leave every layer its equal share; what
\* the host holds is counted against the offload budget.
LayersShareFairly ==
  which = "promotion" =>
    Promotion!ReserveKept /\ Promotion!NoLayerStarved /\ Promotion!OffloadIsCounted /\ Promotion!OnlyOwnedArePromoted
\* Over the ranks, a step's tokens get the rows of their n-grams, nothing is
\* left of earlier steps, and filling leaves host memory its margin; rows read
\* through the cache are the rows asked for, with tag, weight and scale of a
\* slot belonging together; a token is hashed with the three before it in its
\* own text.
EngramRowsAreGlobal ==
  /\ which = "tables" => Tables!RowsAreGlobal /\ Tables!TailIsClear /\ Tables!MarginKept
  /\ which = "rows" => RowCache!ReadIsExact /\ RowCache!SlotIsOneRow
  /\ which = "hashes" => Hashes!HashesMatchText
\* Every collective is what its name says on all ranks and none waits for a
\* peer that issued another; a group's communicator lives as long as the group
\* and is the one its peers use.
CollectivesAreExact ==
  /\ which = "device" => Device!CollectivesAreExact
  /\ which = "sharing" => Sharing!CommunicatorsAreShared
\* An all-reduce is done by a backend that was made for its group, is logged,
\* and keeps to the environment; the fast ones stand in for each other.
BackendsFitGroup == which = "backends" => Backends!BackendsFitGroup
\* The settings of engine, connector and cache service agree with each other,
\* and so do the launcher's arguments, in a list it built or was given.
PlanIsConsistent ==
  /\ which = "contract" => Contract!PlanIsConsistent
  /\ which = "servers" => Servers!ArgumentsHangTogether
\* A persistent directory holds the states of one layout and one set of
\* weights, over all launches.
NamespacesAreSeparate == which = "contract" => Contract!NamespacesAreSeparate
\* A server's arena is not taken from it, and does not outlive its use.
ArenaFollowsLock == which = "servers" => Servers!ArenaFollowsLock
===============================================================================
