------------------------------ MODULE TiledCopy ------------------------------
(* The two byte copies under the recurrent states (mamba_utils.py): one     *)
(* copy shared by several thread blocks, as 8-byte words where source and   *)
(* destination are aligned alike, and one whose lanes may copy a region     *)
(* onto an overlapping lower one. Thread blocks run in any order; so do the *)
(* lanes of one, but for a barrier.                                         *)
EXTENDS Integers, FiniteSets

CONSTANTS Jobs   \* [kernel: "tiled" or "lanes", src, dst, size, tiles, width]

VARIABLES
  job,
  mem,     \* address |-> the address its byte came from
  loaded,  \* lanes that have loaded, and what: set of <<address, byte>>
  todo     \* "tiled": tiles left; "lanes": <<chunk, lanes of it left>>
vars == <<job, mem, loaded, todo>>

cdiv(a, b) == (a + b - 1) \div b
Smaller(a, b) == IF a < b THEN a ELSE b
Copied(region) == [a \in DOMAIN mem |-> IF a - job.dst \in region THEN mem[a - job.dst + job.src] ELSE mem[a]]

\* Offsets tile t of a run of "count" units copies.
TileOf(t, count) ==
  LET per_tile == cdiv(cdiv(count, job.tiles), job.width) * job.width
      tile_start == t * per_tile
  IN  tile_start..(Smaller(tile_start + per_tile, count) - 1)

\* Tile 0 also copies the bytes before the first and behind the last word.
_memcpy_u64_tiled(t) ==
  IF (job.src - job.dst) % 8 = 0
  THEN LET head_bytes == Smaller((-job.dst) % 8, job.size)
           body_u64 == (job.size - head_bytes) \div 8
           tail_start == head_bytes + body_u64 * 8
       IN  {head_bytes + 8 * w + b : w \in TileOf(t, body_u64), b \in 0..7}
           \cup (IF t = 0 THEN 0..(head_bytes - 1) \cup tail_start..(job.size - 1) ELSE {})
  ELSE TileOf(t, job.size)

NeverOverlapping == FALSE

is_left_overlap == job.dst < job.src /\ job.dst + job.size > job.src

RunTile(t) ==
  /\ job.kernel = "tiled" /\ t \in todo
  /\ mem' = Copied(_memcpy_u64_tiled(t)) /\ todo' = todo \ {t}
  /\ UNCHANGED <<job, loaded>>

\* A lane loads its byte; with a barrier it stores when all have loaded.
Load(lane) ==
  /\ job.kernel = "lanes" /\ lane \in todo[2] /\ \A l \in loaded : l[1] # lane
  /\ loaded' = loaded \cup {<<lane, mem[job.src + lane]>>}
  /\ UNCHANGED <<job, mem, todo>>
Store(lane) ==
  /\ job.kernel = "lanes"
  /\ \E l \in loaded : l[1] = lane /\ mem' = [mem EXCEPT ![job.dst + lane] = l[2]]
  /\ lane \in todo[2]
  /\ is_left_overlap => \A other \in todo[2] : \E l \in loaded : l[1] = other
  /\ LET left == todo[2] \ {lane}
         next == todo[1] + job.width
     IN  IF left # {} \/ next >= job.size
         THEN todo' = <<todo[1], left>> /\ UNCHANGED loaded
         ELSE /\ todo' = <<next, next..(Smaller(next + job.width, job.size) - 1)>>
              /\ loaded' = {}
  /\ UNCHANGED job

Init ==
  /\ job \in Jobs
  /\ mem = [a \in 0..(job.src + job.dst + job.size) |-> a] /\ loaded = {}
  /\ todo = IF job.kernel = "tiled" THEN 0..(job.tiles - 1)
            ELSE <<0, 0..(Smaller(job.width, job.size) - 1)>>
Next ==
  \/ \E t \in 0..(job.tiles - 1) : RunTile(t)
  \/ \E lane \in 0..(job.size - 1) : Load(lane) \/ Store(lane)
Spec == Init /\ [][Next]_vars
-----------------------------------------------------------------------------
Done == IF job.kernel = "tiled" THEN todo = {} ELSE todo[2] = {}

\* In the end the destination holds the source as it was, and nothing outside
\* of it has changed, whatever the alignment, the tiles and the order.
CopyIsExact ==
  Done => \A a \in DOMAIN mem :
            mem[a] = IF a - job.dst \in 0..(job.size - 1) THEN a - job.dst + job.src ELSE a
=============================================================================
