------------------------------- MODULE KvBlocks -------------------------------
(* The memory behind the blocks the scheduler hands out (worker utils.py):  *)
(* one allocation that the layers of all cache groups view as blocks, with  *)
(* views that may be split into kernel blocks, spread over outer dimensions *)
(* or laid over one another; zeroing the new blocks and copying blocks must *)
(* reach every byte of a block and no byte of another. A byte is a word.    *)
(* create_kv_cache_views, the specs and the backends are not in the         *)
(* repository.                                                              *)
EXTENDS Integers, Sequences, FiniteSets, FiniteSetsExt, SequencesExt

CONSTANTS
  Layouts,     \* [num_blocks, size, groups]; a group: [block_size, backends, layers]
  MaxChunk,    \* words one program of the zeroing kernel clears
  MaxOps       \* bound: zeroings and copies

VARIABLES
  layout,      \* the cache configuration
  mem,         \* word |-> what it holds
  was, done,   \* the memory before the last operation, and the operation
  ops
vars == <<layout, mem, was, done, ops>>

Words == 0..(layout.size - 1)
Blocks == 0..(layout.num_blocks - 1)
-----------------------------------------------------------------------------
(* Kernel block sizes. A backend supports sizes or multiples of a base.     *)
Exactly(n) == [exact |-> TRUE, n |-> n]
MultipleOf(n) == [exact |-> FALSE, n |-> n]
block_size_is_supported(backends, size) ==
  \A b \in backends : \E s \in b : IF s.exact THEN size = s.n ELSE size % s.n = 0

NoSize == 0   \* raises "No common block size"
select_common_block_size(manager_size, backends) ==
  LET explicit == {s.n : s \in {t \in UNION backends : t.exact}}
      candidates == {n \in explicit : manager_size % n = 0 /\ block_size_is_supported(backends, n)}
  IN  IF block_size_is_supported(backends, manager_size) THEN manager_size
      ELSE IF candidates = {} THEN NoSize ELSE Max(candidates)

prepare_kernel_block_sizes(L) ==
  [g \in DOMAIN L.groups |-> select_common_block_size(L.groups[g].block_size, L.groups[g].backends)]

\* The view of a layer: kernel blocks "stride" words apart from "base" on,
\* each "page" words long, once for every offset in "outer". "token" words
\* per token and the layer's stride from block to block are the layout's.
allocate_kv_cache(L, g, layer) ==
  LET kernel == prepare_kernel_block_sizes(L)[g]
      ratio == L.groups[g].block_size \div kernel
  IN  [base |-> layer.base, ratio |-> ratio, stride |-> layer.block_stride \div ratio,
       page |-> kernel * layer.token, outer |-> layer.outer, shared |-> layer.shared]
Views(L) == UNION {{allocate_kv_cache(L, g, l) : l \in L.groups[g].layers} : g \in DOMAIN L.groups}

\* The words of block b in a view.
Span(start, n) == start..(start + n - 1)
WordsOf(v, b) ==
  UNION {Span(v.base + o + (b * v.ratio + i) * v.stride, v.page) : o \in v.outer, i \in 0..(v.ratio - 1)}
-----------------------------------------------------------------------------
(* KVBlockZeroer: one segment for each address that starts a kernel block   *)
(* of block 0; views laid over one another keep the widest page, and an     *)
(* assertion stops the worker if their strides differ. Layers that share    *)
(* another layer's cache are skipped.                                       *)
Own == {v \in Views(layout) : ~v.shared}
Starts(v) == {v.base + o + i * v.stride : o \in v.outer, i \in 0..(v.ratio - 1)}
BlockStride(v) == v.stride * v.ratio
StridesAgree ==
  LET own == Own
  IN  \A v, w \in own : Starts(v) \cap Starts(w) # {} => BlockStride(v) = BlockStride(w)
KVBlockZeroer ==
  LET own == Own
      At(addr) == {v \in own : addr \in Starts(v)}
  IN  {[addr |-> a, stride |-> BlockStride(CHOOSE v \in At(a) : TRUE),
        page |-> Max({v.page : v \in At(a)})] : a \in UNION {Starts(v) : v \in own}}
\* The kernel's programs: enough chunks for the longest page.
blk_size == LET longest == Max({s.page : s \in KVBlockZeroer})
            IN  Min({MaxChunk, Min({n \in {1, 2, 4, 8, 16, 32} : n >= longest})})
FullChunksOnly == Max({s.page : s \in KVBlockZeroer}) \div blk_size

max_chunks == LET longest == Max({s.page : s \in KVBlockZeroer})
              IN  (longest + blk_size - 1) \div blk_size
_zero_kv_blocks_kernel(block, seg, chunk) ==
  LET offset == chunk * blk_size
      cols == {c \in Span(offset, blk_size) : c < seg.page}
  IN  {seg.addr + block * seg.stride + c : c \in cols}

Record(op) == was' = mem /\ done' = op /\ ops' = ops + 1 /\ UNCHANGED layout
zero_block_ids(ids) ==
  /\ ops < MaxOps
  /\ LET zeroed == UNION {_zero_kv_blocks_kernel(b, s, c) :
                            b \in ids, s \in KVBlockZeroer, c \in 0..(max_chunks - 1)}
     IN  mem' = [w \in Words |-> IF w \in zeroed THEN 0 ELSE mem[w]]
  /\ Record([kind |-> "zero", ids |-> ids, pairs |-> {}])

\* Copies to the blocks in DOMAIN pairs. A view whose blocks tile the whole
\* allocation copies the tiles, once for all views of it; a view with the
\* address of an earlier one is skipped.
Tiles(v) == layout.size = layout.num_blocks * BlockStride(v)
CopyView(m, v, pairs) ==
  LET stride == BlockStride(v)
      Into(b) == IF Tiles(v) THEN Span(b * stride, stride) ELSE WordsOf(v, b)
      Copied(b) == [w \in Into(b) |-> m[w + (pairs[b] - b) * stride]]
  IN  [w \in Words |-> IF \E b \in DOMAIN pairs : w \in Into(b)
                       THEN Copied(CHOOSE b \in DOMAIN pairs : w \in Into(b))[w] ELSE m[w]]
\* The views in the order of the layers, without those that are skipped.
CopiedViews(order) ==
  LET Skipped(i) == \E k \in 1..(i - 1) :
        \/ order[k].base = order[i].base
        \/ Tiles(order[i]) /\ Tiles(order[k])
  IN  [i \in DOMAIN order |-> IF Skipped(i) THEN <<>> ELSE <<order[i]>>]
copy_kv_cache_blocks_inplace(pairs) ==
  /\ ops < MaxOps
  /\ \E order \in SetToSeqs(Views(layout)) :
       mem' = FoldSeq(LAMBDA v, m : CopyView(m, v, pairs), mem, FlattenSeq(CopiedViews(order)))
  /\ Record([kind |-> "copy", ids |-> DOMAIN pairs, pairs |-> pairs])

Init ==
  /\ layout \in {L \in Layouts : \A g \in DOMAIN L.groups : prepare_kernel_block_sizes(L)[g] # NoSize}
  /\ StridesAgree
  /\ mem = [w \in Words |-> w + 1] /\ was = mem
  /\ done = [kind |-> "none", ids |-> {}, pairs |-> {}] /\ ops = 0
Next ==
  \/ \E ids \in SUBSET Blocks : ids # {} /\ zero_block_ids(ids)
  \/ \E to \in SUBSET Blocks : \E pairs \in [to -> Blocks \ to] :
       to # {} /\ copy_kv_cache_blocks_inplace(pairs)
Spec == Init /\ [][Next]_vars
-----------------------------------------------------------------------------
OwnedBy(ids) == UNION {WordsOf(v, b) : v \in Views(layout), b \in ids}

\* After an operation on some blocks, each word a layer keeps in them is
\* zero, or what the layer keeps at that place of the source block, in every
\* view of it, and every other block is as it was.
BlocksAreExact ==
  /\ \A w \in OwnedBy(Blocks \ done.ids) : done.kind # "none" => mem[w] = was[w]
  /\ done.kind = "zero" => \A w \in OwnedBy(done.ids) : mem[w] = 0
  /\ done.kind = "copy" => \A v \in Views(layout), b \in done.ids : \A w \in WordsOf(v, b) :
       mem[w] = was[w + (done.pairs[b] - b) * BlockStride(v)]

\* The kernel block size is the largest divisor of the manager's size that
\* every backend supports, and there is one unless none is.
LargestCommonSize ==
  \A L \in Layouts : \A g \in DOMAIN L.groups :
    LET size == L.groups[g].block_size
        fitting == {n \in 1..size : size % n = 0 /\ block_size_is_supported(L.groups[g].backends, n)}
    IN  prepare_kernel_block_sizes(L)[g] = IF fitting = {} THEN NoSize ELSE Max(fitting)
=============================================================================
