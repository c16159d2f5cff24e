----------------------------- MODULE BlockReuse -----------------------------
(***************************************************************************)
(* What the block pool promises to an asynchronous KV load.                *)
(*                                                                         *)
(* The device works through a queue of steps, each touching some blocks;   *)
(* next to it, and not ordered with it, a connector fills blocks.  However *)
(* blocks are owned, shared, parked or released, filling starts only on    *)
(* blocks that nobody holds and no queued step touches, a block being      *)
(* filled stays held, and a step that touches it is never queued.          *)
(***************************************************************************)
EXTENDS Naturals, Sequences

CONSTANT Block

VARIABLES
  held,      \* blocks that are not in the pool
  landing,   \* blocks being filled
  device     \* queue of the block sets touched by the steps in flight

vars == <<held, landing, device>>

Touched == UNION {device[i] : i \in DOMAIN device}

Init ==
  /\ held = {}
  /\ landing = {}
  /\ device = <<>>

(* Allocation, sharing, release: any change of ownership that keeps what   *)
(* is being filled.                                                        *)
Own ==
  /\ held' \in SUBSET Block
  /\ landing \subseteq held'
  /\ UNCHANGED <<landing, device>>

Submit(T) ==
  /\ T \cap landing = {}
  /\ device' = Append(device, T)
  /\ held' \in SUBSET Block
  /\ landing \subseteq held'
  /\ UNCHANGED landing

(* The oldest step is complete, and blocks that waited for it come back. *)
Complete ==
  /\ device # <<>>
  /\ device' = Tail(device)
  /\ held' \in SUBSET held
  /\ landing \subseteq held'
  /\ UNCHANGED landing

StartFill(B) ==
  /\ B \cap held = {}
  /\ B \cap Touched = {}
  /\ landing' = landing \cup B
  /\ held' \in SUBSET Block
  /\ held \cup B \subseteq held'
  /\ UNCHANGED device

EndFill(B) ==
  /\ B \subseteq landing
  /\ landing' = landing \ B
  /\ held' \in SUBSET held
  /\ landing' \subseteq held'
  /\ UNCHANGED device

Next ==
  \/ Own
  \/ Complete
  \/ \E B \in SUBSET Block : Submit(B) \/ StartFill(B) \/ EndFill(B)

Spec == Init /\ [][Next]_vars
=============================================================================
