-------------------------------- MODULE Launch --------------------------------
(* The start of a server (serve-glm53-flash-tp3-kraken.py): the environment  *)
(* becomes the arguments of lil, and with LMCACHE=l1 the launcher claims the *)
(* arena of the host's shared memory first. Containers share that memory,    *)
(* start at any time, and may die without removing what they left. lil is    *)
(* outside of the repository but for its plan (CacheContract), which names   *)
(* the arena; it does not start over an existing one.                        *)
EXTENDS Integers, Sequences, FiniteSets, SequencesExt

CONSTANTS
  Containers,
  Scenarios, \* [env, starts]: an environment, with 0 or "" where a variable is not
             \* set, and (bound) the starts there will be
  Lists      \* the command lists that may be given instead of it

VARIABLES
  env,     \* the environment of all containers
  args,    \* container |-> the list it runs lil with, and what it adds to lil's environment
  pc,      \* container |-> "off", "lock", "look", "unlink", "lil", "up"
  refused, \* container |-> why its last start failed
  lock,    \* the container whose process holds the lock file
  arena,   \* name |-> the container that made the file
  starts   \* left
vars == <<env, args, pc, refused, lock, arena, starts>>

Nobody == "nobody"
None == <<>>
Either(x, default) == IF x = 0 THEN default ELSE x
mode(e) == IF e.mode = "dflash" THEN "dflash2" ELSE IF e.mode = "mtp0" THEN "off" ELSE IF e.mode = "" THEN "dflash2" ELSE e.mode
maximum(e) == Either(e.maximum, IF mode(e) = "dflash2" THEN 64 ELSE 32)
seqs(e) == Either(e.seqs, 8)
batched(e) == Either(e.batched, 4096)

\* The batch sizes graphs are captured for.
UpTo(max) == SelectSeq(<<1, 2, 4, 8, 16, 32, 40, 48, 64, 96, 128, 192, 256>>, LAMBDA n : n <= max)
Below(max) == SelectSeq(<<1, 2, 4, 8, 16, 32, 40, 48, 64, 96, 128, 192, 256>>, LAMBDA n : n < max)
Exact(e) == e.checkpoint = "default" /\ e.dcp = 1 /\ maximum(e) = 32 /\ seqs(e) = 8
Ladder(e) ==
  IF maximum(e) = 64 THEN <<1, 2, 4, 8, 16, 32>>
  ELSE IF Exact(e) /\ mode(e) = "off" THEN <<1, 2, 3, 4, 5, 6, 7, 8, 16>>
  ELSE IF Exact(e) /\ mode(e) = "mtp" THEN <<1, 2, 4, 8, 12, 16, 20, 24, 28>>
  ELSE Below(maximum(e))
capture_sizes(e) == IF e.sizes = None THEN Append(Ladder(e), maximum(e)) ELSE e.sizes
Increasing(s) == \A i \in 1..(Len(s) - 1) : s[i] < s[i + 1]

\* Context ranks a KV budget was measured for, in blocks.
Budgets(e) ==
  IF e.checkpoint = "uncensored"
  THEN IF e.lmcache = "l1" THEN [d \in {} |-> 0] ELSE [d \in {1, 3} |-> IF d = 1 THEN 1721 ELSE 1770]
  ELSE IF e.lmcache = "l1" THEN [d \in {1} |-> 1720] ELSE [d \in {1, 3} |-> IF d = 1 THEN 1779 ELSE 1774]
Tested(e) ==
  /\ mode(e) = "mtp" /\ e.dcp \in DOMAIN Budgets(e) /\ e.moe_tp
  /\ seqs(e) = 8 /\ batched(e) = 4096 /\ maximum(e) = 32 /\ e.sizes = None /\ ~e.custom
Active(e) == e.reclaim = "auto" /\ Tested(e)

\* What build_args refuses.
TP_BACKENDS == {"flashinfer_cutlass", "marlin", "b12x"}
Supported(e) ==
  /\ e.checkpoint \in {"default", "uncensored"} /\ e.dcp \in {1, 3}
  /\ mode(e) \in {"mtp", "dflash2", "off"}
  /\ e.moe_tp => mode(e) = "mtp" /\ e.backend \in {""} \cup TP_BACKENDS
  /\ e.lmcache \in {"off", "l1"} /\ e.reclaim \in {"auto", "0"}
  /\ e.sizes # None => Increasing(e.sizes) /\ Last(e.sizes) = maximum(e)
  /\ e.kv_blocks # 0 => Active(e)
moe_backend(e) ==
  IF e.moe_tp /\ e.backend # "" THEN e.backend
  ELSE IF e.checkpoint = "uncensored" THEN "marlin"
  ELSE IF e.moe_tp THEN "flashinfer_cutlass" ELSE "auto"
\* The list, with "" or 0 where an argument is not in it.
build_args(e) ==
  [port |-> 8000, lmcache |-> e.lmcache = "l1", mode |-> mode(e), dcp |-> e.dcp,
   expert_parallel |-> ~e.moe_tp, moe_backend |-> moe_backend(e), eplb |-> FALSE,
   sizes |-> capture_sizes(e), maximum |-> maximum(e),
   kv_blocks |-> IF Active(e) THEN Either(e.kv_blocks, Budgets(e)[e.dcp]) ELSE 0]

\* What main refuses, of a list that was built and of one that was given.
AnyBackend(a) == (env.moe_tp => env.image /\ ~a.expert_parallel) /\ ~a.eplb
Admitted(a) ==
  /\ env.moe_tp => env.image /\ ~a.expert_parallel /\ a.moe_backend \in TP_BACKENDS
  /\ ~a.eplb
\* What lil gets: the list, the width of the experts' shards, and whether the
\* communicators are shared, which only build_args turns on.
Given(a, active) ==
  [lil |-> a, moe_width |-> IF env.moe_tp THEN 2112 ELSE 0, share_pynccl |-> active]

\* The arena by its instance and port, as the launcher and as lil name it.
LMCACHE_ARENA == <<"glm53-flash", 8000, 18000>>
ArenaOf(c) == <<"glm53-flash", args[c].lil.port, args[c].lil.port + 10000>>
ArenaNames == {LMCACHE_ARENA} \cup {<<"glm53-flash", l.port, l.port + 10000>> : l \in Lists}
-----------------------------------------------------------------------------
Init ==
  /\ \E s \in Scenarios : env = s.env /\ starts = s.starts
  /\ args = [c \in Containers |-> None] /\ pc = [c \in Containers |-> "off"]
  /\ refused = [c \in Containers |-> ""] /\ lock = Nobody
  /\ arena = [n \in ArenaNames |-> Nobody]

Leave(c, why) ==
  /\ pc' = [pc EXCEPT ![c] = "off"] /\ refused' = [refused EXCEPT ![c] = why]
  /\ lock' = IF lock = c THEN Nobody ELSE lock
Go(c, to) == pc' = [pc EXCEPT ![c] = to] /\ refused' = [refused EXCEPT ![c] = ""]
main(c, a, active) ==
  IF Admitted(a)
  THEN /\ args' = [args EXCEPT ![c] = Given(a, active)]
       /\ Go(c, IF a.lmcache THEN "lock" ELSE "lil") /\ UNCHANGED lock
  ELSE Leave(c, "arguments") /\ UNCHANGED args
Start(c) ==
  /\ pc[c] = "off" /\ starts > 0 /\ starts' = starts - 1
  /\ \/ Supported(env) /\ main(c, build_args(env), Active(env))
     \/ ~Supported(env) /\ Leave(c, "arguments") /\ UNCHANGED args
     \/ \E l \in Lists : main(c, l, FALSE)
  /\ UNCHANGED <<env, arena>>

\* _claim_lmcache_arena: the lock is for as long as the container lives.
Claim(c) ==
  /\ pc[c] = "lock"
  /\ IF lock # Nobody THEN Leave(c, "lock") ELSE Go(c, "look") /\ lock' = c
  /\ UNCHANGED <<env, args, arena, starts>>
Look(c) ==
  /\ pc[c] = "look"
  /\ Go(c, IF arena[LMCACHE_ARENA] # Nobody THEN "unlink" ELSE "lil")
  /\ UNCHANGED <<env, args, lock, arena, starts>>
Unlink(c) ==
  /\ pc[c] = "unlink"
  /\ arena' = [arena EXCEPT ![LMCACHE_ARENA] = Nobody]
  /\ Go(c, "lil")
  /\ UNCHANGED <<env, args, lock, starts>>

\* exec: the lock's descriptor is inherited.
LockClosed(c) == IF lock = c THEN Nobody ELSE lock
LockAfterExec(c) == lock
Lil(c) ==
  /\ pc[c] = "lil"
  /\ IF args[c].lil.lmcache /\ arena[ArenaOf(c)] # Nobody THEN Leave(c, "arena") /\ UNCHANGED arena
     ELSE /\ Go(c, "up") /\ lock' = LockAfterExec(c)
          /\ arena' = IF args[c].lil.lmcache THEN [arena EXCEPT ![ArenaOf(c)] = c] ELSE arena
  /\ UNCHANGED <<env, args, starts>>
\* A container dies, and the arena stays.
Die(c) ==
  /\ pc[c] # "off"
  /\ Leave(c, "")
  /\ UNCHANGED <<env, args, arena, starts>>
Next == \E c \in Containers : Start(c) \/ Claim(c) \/ Look(c) \/ Unlink(c) \/ Lil(c) \/ Die(c)
Spec == Init /\ [][Next]_vars
-----------------------------------------------------------------------------
\* Nobody removes or takes over the arena of a server that runs ("whoever gets
\* the lock knows no live server owns the arena"), and a start at the default
\* port never fails because of what a dead server left.
ArenaFollowsLock ==
  \A c \in Containers :
    /\ pc[c] = "up" /\ args[c].lil.lmcache => arena[ArenaOf(c)] = c /\ lock = c
    /\ refused[c] = "arena" => ArenaOf(c) # LMCACHE_ARENA
\* What lil runs with hangs together, whoever wrote the list: experts are
\* padded to the width the tensor ranks cut only without expert parallelism and
\* on a backend that computes such shards; communicators are shared only with
\* an explicit KV budget. main never refuses what build_args made for an image
\* that has the experts; its capture sizes grow up to the graph maximum, and its
\* budget comes with the shared communicators and in the measured setting alone.
ArgumentsHangTogether ==
  /\ Supported(env) /\ env.image => Admitted(build_args(env))
  /\ \A c \in Containers : args[c] # None =>
       LET a == args[c].lil IN
       /\ args[c].moe_width # 0 => ~a.expert_parallel /\ a.moe_backend \in TP_BACKENDS /\ ~a.eplb
       /\ args[c].share_pynccl => a.kv_blocks # 0
       /\ a \notin Lists =>
            /\ Increasing(a.sizes) /\ Last(a.sizes) = a.maximum
            /\ a.kv_blocks # 0 => args[c].share_pynccl /\ args[c].moe_width # 0 /\ a.mode = "mtp"
            /\ a.kv_blocks # 0 /\ a.lmcache => a.dcp = 1
=============================================================================
