------------------------------ MODULE Collectives ------------------------------
(* CudaCommunicator's collectives (cuda_communicator.py): every rank issues  *)
(* the same calls, and for each call decides by itself which collectives of  *)
(* the device make it up and through which buffers the data go. The          *)
(* collectives below it are not in the repository: one starts on a rank when *)
(* its stream gets there and ends only if its peers issue the same one.      *)
(* reduce_scatter and reduce_scatterv along a dimension past the second are  *)
(* left out: see README.md.                                                  *)
EXTENDS Integers, Sequences, FiniteSets, SequencesExt, FiniteSetsExt

CONSTANTS
  Setups,    \* [world, symm, aiter, rocm, b12x, batch_invariant, pynccl]
  Programs   \* world |-> sequences of [op, dim, shapes, sizes, symm, hold, root]: shapes of the
             \* tensors of a call, which sizes (if any) replace in the dimension of the call;
             \* hold: the result is still used after the next call

VARIABLES
  setup,   \* one of Setups
  program, \* one of Programs
  pos,     \* rank |-> calls issued
  stream,  \* rank |-> operations of the device not done yet
  mem,     \* rank |-> buffer |-> tensor
  got      \* rank |-> call |-> the tensors its caller used
vars == <<setup, program, pos, stream, mem, got>>

W == setup.world
Ranks == 0..(W - 1)
Times(a, b) == a * b
Product(shape) == FoldLeft(Times, 1, shape)
Plus(a, b) == a + b
Total(sizes) == FoldLeft(Plus, 0, sizes)

\* Tensors, row-major: [shape, data].
movedim(t, dim) ==
  LET n == t.shape[1]
      P == Product(SubSeq(t.shape, 2, dim + 1))
      rest == SubSeq(t.shape, dim + 2, Len(t.shape))
      Q == Product(rest)
  IN  [shape |-> SubSeq(t.shape, 2, dim + 1) \o <<n>> \o rest,
       data  |-> [k \in 0..(n * P * Q - 1) |->
                    t.data[(((k \div Q) % n) * P + (k \div (Q * n))) * Q + (k % Q)]]]
reshape(t, shape) == [t EXCEPT !.shape = shape]
Empty(shape) == [shape |-> shape, data |-> [k \in 0..(Product(shape) - 1) |-> -1]]
At(sizes, r) == sizes[r + 1]
Start(sizes, r) == Total(SubSeq(sizes, 1, r))
Slice(t, dim, first, n) ==
  LET Q == Product(SubSeq(t.shape, dim + 2, Len(t.shape)))
  IN  [shape |-> [t.shape EXCEPT ![dim + 1] = n],
       data  |-> [k \in 0..((Product(t.shape) \div t.shape[dim + 1]) * n - 1) |->
                    t.data[((k \div (Q * n)) * t.shape[dim + 1] + first + ((k \div Q) % n)) * Q + (k % Q)]]]
Concat(ts, dim) ==
  LET sizes == [i \in 1..W |-> ts[i - 1].shape[dim + 1]]
      n == Total(sizes)
      shape == [ts[0].shape EXCEPT ![dim + 1] = n]
      Q == Product(SubSeq(shape, dim + 2, Len(shape)))
  IN  [shape |-> shape,
       data  |-> [k \in 0..(Product(shape) - 1) |->
         LET x == (k \div Q) % n
             r == CHOOSE s \in Ranks : Start(sizes, s) <= x /\ x < Start(sizes, s + 1)
         IN  ts[r].data[((k \div (Q * n)) * At(sizes, r) + x - Start(sizes, r)) * Q + (k % Q)]]]
SumOf(ts) == [ts[0] EXCEPT !.data = [k \in DOMAIN @ |-> FoldLeft(Plus, 0, [i \in 1..W |-> ts[i - 1].data[k]])]]

\* A rank's own tensor of a call; no two elements of a program are alike.
Gathers(c) == c.op \in {"all_gather", "all_gatherv"}
Input(r, k, j) ==
  LET c == program[k]
      shape == IF Gathers(c) /\ c.sizes # <<>>
               THEN [c.shapes[j] EXCEPT ![c.dim + 1] = At(c.sizes, r)] ELSE c.shapes[j]
  IN  [shape |-> shape,
       data  |-> [i \in 0..(Product(shape) - 1) |-> (128 ^ r) * (1 + i + 40 * (k - 1) + 20 * (j - 1))]]
-----------------------------------------------------------------------------
(* What a call makes of itself: the operations for the device, and the       *)
(* buffers and the view of them that it returns.                             *)
In(k, j) == <<"in", <<k, j>>>>
Out(k, j) == <<"out", <<k, j>>>>
Reduced(k) == <<"reduced", <<k>>>>
Device(kind, members, what, ins, outs) ==
  [do |-> kind, members |-> members, what |-> what, ins |-> ins, outs |-> outs]
Local(kind, r, ins, outs) == Device(kind, {r}, <<>>, ins, outs)
Register(key) == Device("register", Ranks, <<>>, <<>>, <<key>>)
Answer(ops, outs) == [ops |-> ops, outs |-> outs]

\* sizes that are all alike are dropped.
Uniform(sizes) == \A i \in DOMAIN sizes : sizes[i] = sizes[1]
SizesOf(c) == IF Uniform(c.sizes) THEN <<>> ELSE c.sizes
_can_use_aiter_ag_rs(sizes) == setup.aiter /\ sizes = <<>>
should_nccl_symm_mem_ag_rs == setup.symm

\* A scratch buffer: registered by all ranks together when it is first used.
ScratchByShape(role, shape) == <<"scratch", shape>>
Scratch(role, shape) == <<role, shape>>
_get_symm_scratch(r, role, shape) ==
  IF Scratch(role, shape) \in DOMAIN mem[r] THEN <<>> ELSE <<Register(Scratch(role, shape))>>

Whole(shape) == [shape EXCEPT ![1] = @ * W]
_all_gather_symm_mem(r, k, shape) ==
  LET out == Scratch("ag_out", Whole(shape))
  IN  Answer(_get_symm_scratch(r, "ag_out", Whole(shape))
             \o <<Device("all_gather", Ranks, <<shape>>, <<In(k, 1)>>, <<out>>)>>, <<out>>)
_all_gather_batched_symm_mem(k, shapes) ==
  LET out == [j \in DOMAIN shapes |-> Out(k, j)]
  IN  Answer([j \in DOMAIN shapes |-> Register(Out(k, j))]
             \o <<Device("all_gather", Ranks, shapes, [j \in DOMAIN shapes |-> In(k, j)], out)>>, out)
all_gather(r, k, c) ==
  LET shape == c.shapes[1]
  IN  IF setup.b12x THEN Answer(<<Device("gather_dim", Ranks, <<shape, c.dim>>, <<In(k, 1)>>, <<Out(k, 1)>>)>>, <<Out(k, 1)>>)
      ELSE IF c.dim = 0 /\ should_nccl_symm_mem_ag_rs THEN _all_gather_symm_mem(r, k, shape)
      ELSE IF ~setup.pynccl \/ setup.rocm  \* the base class: the same through torch.distributed
           THEN Answer(<<Device("gather_dim", Ranks, <<shape, c.dim>>, <<In(k, 1)>>, <<Out(k, 1)>>)>>, <<Out(k, 1)>>)
      ELSE Answer(<<Device("all_gather", Ranks, <<shape>>, <<In(k, 1)>>, <<Out(k, 1)>>)>>, <<Out(k, 1)>>)
all_gatherv(r, k, c) ==
  LET sizes == SizesOf(c)
      ins == [j \in DOMAIN c.shapes |-> In(k, j)]
      outs == [j \in DOMAIN c.shapes |-> Out(k, j)]
  IN  IF _can_use_aiter_ag_rs(sizes)
      THEN Answer([j \in DOMAIN ins |-> Device("gather_dim", Ranks, <<Input(r, k, j).shape, 0>>, <<ins[j]>>, <<outs[j]>>)], outs)
      ELSE IF sizes = <<>> /\ should_nccl_symm_mem_ag_rs
      THEN LET shapes == [j \in DOMAIN ins |-> Input(r, k, j).shape]
           IN  IF Len(ins) = 1 THEN _all_gather_symm_mem(r, k, shapes[1])
                               ELSE _all_gather_batched_symm_mem(k, shapes)
      ELSE LET what == IF sizes # <<>> THEN <<sizes>> ELSE [j \in DOMAIN ins |-> Input(r, k, j).shape]
           IN  Answer(<<Device("all_gather", Ranks, what, ins, outs)>>, outs)

\* The part of the moved input that each rank keeps.
Shares(t, sizes) == IF sizes # <<>> THEN sizes ELSE [i \in 1..W |-> t.shape[1] \div W]
_reduce_scatter_symm_mem(r, k, t, symmetric) ==
  LET share == [t.shape EXCEPT ![1] = @ \div W]
      out == Scratch("rs_out", share)
      in  == IF symmetric THEN In(k, 1) ELSE Scratch("rs_in", t.shape)
  IN  Answer(_get_symm_scratch(r, "rs_out", share)
             \o (IF symmetric THEN <<>>
                 ELSE _get_symm_scratch(r, "rs_in", t.shape) \o <<Local("copy", r, <<In(k, 1)>>, <<in>>)>>)
             \o <<Device("reduce_scatter", Ranks, Shares(t, <<>>), <<in>>, <<out>>)>>, <<out>>)
reduce_scatter(r, k, c, t) ==
  IF should_nccl_symm_mem_ag_rs THEN _reduce_scatter_symm_mem(r, k, t, c.symm)
  ELSE Answer(<<Device("reduce_scatter", Ranks, Shares(t, <<>>), <<In(k, 1)>>, <<Out(k, 1)>>)>>, <<Out(k, 1)>>)
reduce_scatterv(r, k, c, t) ==
  LET sizes == SizesOf(c)
  IN  IF ~_can_use_aiter_ag_rs(sizes) /\ sizes = <<>> /\ should_nccl_symm_mem_ag_rs
      THEN _reduce_scatter_symm_mem(r, k, t, c.symm)
      ELSE IF ~_can_use_aiter_ag_rs(sizes) /\ setup.batch_invariant /\ W > 2
      THEN Answer(<<Device("reduce", Ranks, <<0, t.shape>>, <<In(k, 1)>>, <<Reduced(k)>>),
                    Device("scatter", Ranks, <<0, Shares(t, sizes)>>, <<Reduced(k)>>, <<Out(k, 1)>>)>>, <<Out(k, 1)>>)
      ELSE Answer(<<Device("reduce_scatter", Ranks, Shares(t, sizes), <<In(k, 1)>>, <<Out(k, 1)>>)>>, <<Out(k, 1)>>)

\* One stage of a pipeline hands a tensor to the next; both name only themselves.
send(r, k) == Answer(<<Device("transfer", {r, (r + 1) % W}, <<r, (r + 1) % W>>, <<In(k, 1)>>, <<>>)>>, <<>>)
recv(r, k) == Answer(<<Device("transfer", {r, (r - 1) % W}, <<(r - 1) % W, r>>, <<>>, <<Out(k, 1)>>)>>, <<Out(k, 1)>>)
broadcast(k, c) == Answer(<<Device("broadcast", Ranks, <<c.root>>, <<In(k, 1)>>, <<In(k, 1)>>)>>, <<In(k, 1)>>)

Answered(r, k) ==
  LET c == program[k]
      t == movedim(Input(r, k, 1), c.dim)
  IN  CASE c.op = "all_gather" -> all_gather(r, k, c)
        [] c.op = "all_gatherv" -> all_gatherv(r, k, c)
        [] c.op = "reduce_scatter" -> reduce_scatter(r, k, c, t)
        [] c.op = "reduce_scatterv" -> reduce_scatterv(r, k, c, t)
        [] c.op = "broadcast" -> broadcast(k, c)
        [] c.op = "pass" /\ r = c.root -> send(r, k)
        [] c.op = "pass" /\ r = (c.root + 1) % W -> recv(r, k)
        [] OTHER -> Answer(<<>>, <<>>)
Prepared(r, k, j) ==
  LET c == program[k]
  IN  IF c.op \in {"reduce_scatter", "reduce_scatterv"} THEN movedim(Input(r, k, j), c.dim) ELSE Input(r, k, j)
\* The view the call returns of a buffer.
ByHand == setup.pynccl /\ ~setup.rocm /\ ~setup.b12x
Returned(k, t) ==
  LET c == program[k]
      shape == c.shapes[1]
  IN  IF c.op \in {"reduce_scatter", "reduce_scatterv"} THEN movedim(t, c.dim)
      ELSE IF c.op = "all_gather" /\ t.shape = Whole(shape) /\ ByHand
      THEN reshape(movedim(reshape(t, <<W>> \o shape), c.dim), [shape EXCEPT ![c.dim + 1] = @ * W])
      ELSE t
-----------------------------------------------------------------------------
Use(r, k) == [do |-> "use", members |-> {r}, what |-> <<k>>, ins |-> Answered(r, k).outs, outs |-> <<>>]
Due(k) == (IF k > 1 /\ program[k - 1].hold THEN <<k - 1>> ELSE <<>>)
          \o (IF program[k].hold /\ k < Len(program) THEN <<>> ELSE <<k>>)
Put(f, ps) == [b \in DOMAIN f \cup {p[1] : p \in ps} |->
                 IF \E p \in ps : p[1] = b THEN (CHOOSE p \in ps : p[1] = b)[2] ELSE f[b]]

Init ==
  /\ setup \in Setups /\ program \in Programs[setup.world]
  /\ \A k \in DOMAIN program : setup.pynccl \/ program[k].op \in {"all_gather", "pass"}
  /\ pos = [r \in Ranks |-> 0]
  /\ stream = [r \in Ranks |-> <<>>]
  /\ mem = [r \in Ranks |-> [b \in {} |-> 0]]
  /\ got = [r \in Ranks |-> [k \in {} |-> 0]]

\* The host issues its next call.
Issue(r) ==
  LET k == pos[r] + 1
  IN  /\ stream[r] = <<>> /\ k <= Len(program)
      /\ pos' = [pos EXCEPT ![r] = k]
      /\ mem' = [mem EXCEPT ![r] = Put(@, {<<In(k, j), Prepared(r, k, j)>> : j \in DOMAIN program[k].shapes})]
      /\ stream' = [stream EXCEPT ![r] = Answered(r, k).ops \o [i \in DOMAIN Due(k) |-> Use(r, Due(k)[i])]]
      /\ UNCHANGED <<setup, program, got>>

Head1(r) == stream[r][1]
Same(o, p) == o.do = p.do /\ o.members = p.members /\ o.what = p.what
Matched(r) ==
  /\ stream[r] # <<>>
  /\ \A s \in Head1(r).members : stream[s] # <<>> /\ Same(Head1(s), Head1(r))
\* What the device leaves in the j-th output of rank r.
Made(op, r, j) ==
  LET in(s, x) == mem[s][Head1(s).ins[x]]
      ts == [s \in Ranks |-> in(s, j)]
  IN  CASE op.do = "register" -> Empty(op.outs[1][2])
        [] op.do = "copy" -> in(r, 1)
        [] op.do = "all_gather" -> Concat(ts, 0)
        [] op.do = "gather_dim" -> Concat(ts, op.what[2])
        [] op.do = "reduce_scatter" -> Slice(SumOf(ts), 0, Start(op.what, r), At(op.what, r))
        [] op.do = "reduce" -> IF r = op.what[1] THEN SumOf(ts) ELSE Empty(op.what[2])
        [] op.do = "scatter" -> Slice(in(op.what[1], 1), 0, Start(op.what[2], r), At(op.what[2], r))
        [] op.do = "broadcast" -> in(op.what[1], 1)
        [] op.do = "transfer" -> in(op.what[1], 1)
Execute(r) ==
  LET op == Head1(r)
  IN  /\ Matched(r) /\ r = Min(op.members) /\ op.do # "use"
      /\ mem' = [s \in Ranks |-> IF s \notin op.members THEN mem[s]
                 ELSE Put(mem[s], {<<Head1(s).outs[j], Made(Head1(s), s, j)>> : j \in DOMAIN Head1(s).outs})]
      /\ stream' = [s \in Ranks |-> IF s \in op.members THEN Tail(stream[s]) ELSE stream[s]]
      /\ UNCHANGED <<setup, program, pos, got>>
\* The caller's kernels read what call k returned.
Read(r) ==
  LET k == Head1(r).what[1]
  IN  /\ stream[r] # <<>> /\ Head1(r).do = "use"
      /\ got' = [got EXCEPT ![r] = Put(@, {<<k, [j \in DOMAIN Head1(r).ins |-> Returned(k, mem[r][Head1(r).ins[j]])]>>})]
      /\ stream' = [stream EXCEPT ![r] = Tail(@)]
      /\ UNCHANGED <<setup, program, pos, mem>>

Next == \E r \in Ranks : Issue(r) \/ Execute(r) \/ Read(r)
Spec == Init /\ [][Next]_vars
-----------------------------------------------------------------------------
Meant(r, k) ==
  LET c == program[k]
      ts(j) == [s \in Ranks |-> Input(s, k, j)]
      n == c.shapes[1][c.dim + 1]
      sizes == IF c.sizes # <<>> THEN c.sizes ELSE [i \in 1..W |-> n \div W]
  IN  CASE Gathers(c) -> [j \in DOMAIN c.shapes |-> Concat(ts(j), c.dim)]
        [] c.op = "broadcast" -> <<ts(1)[c.root]>>
        [] c.op = "pass" -> IF r = (c.root + 1) % W THEN <<ts(1)[c.root]>> ELSE <<>>
        [] OTHER -> <<Slice(SumOf(ts(1)), c.dim, Start(sizes, r), At(sizes, r))>>
\* All ranks break a call down into the same collectives, so none waits for
\* ever for a peer that issued another one, with sizes that differ between
\* ranks as well ("asymmetric pool allocations from variable per-rank sizes
\* cause deadlocks"); and what a caller reads, possibly only after a call of
\* another kind ("a reduce-scatter input copy never clobbers a still-live
\* all-gather output"), is its tensor in its layout.
CollectivesAreExact ==
  /\ \A r \in Ranks : \A k \in DOMAIN got[r] : got[r][k] = Meant(r, k)
  /\ \/ \E r \in Ranks : IF stream[r] = <<>> THEN pos[r] < Len(program) ELSE Matched(r)
     \/ \A r \in Ranks : pos[r] = Len(program) /\ stream[r] = <<>>
=============================================================================
