------------------------ MODULE VmmAllocationProofs ------------------------
(***************************************************************************)
(* Proofs about VmmAllocation for every set of layouts the constructor     *)
(* makes, any number of failing driver calls and of leaked handles, with   *)
(* and without the host's copies being kept.                               *)
(*                                                                         *)
(* While the allocation is in use, Backed says which handle is behind an   *)
(* address and what it holds, AtHome and Moved where the weights of a      *)
(* region are when its address has no mapping, and Underway what the       *)
(* operation at hand has reached.  Reachable and Unharmed say what one     *)
(* failing call, and none, leave.                                          *)
(***************************************************************************)
EXTENDS VmmAllocation, InductionProofs

(* A prefix of hot regions and one cold rest, or chunks and nothing hot.   *)
LayoutsFit ==
  \A l \in Layouts :
    /\ l \in [regions : Nat \ {0}, hot : Nat, chunked : BOOLEAN]
    /\ IF l.chunked THEN l.hot = 0 ELSE l.hot \in {l.regions - 1, l.regions}

Making == {"create", "reserve", "map", "access", "fill", "raised"}
Freeing == {"f_unmap", "f_release", "f_failed"}
Promoting == {"p_sync", "p_create", "p_reserve", "p_temp", "p_temp_access", "p_copy", "p_copied",
              "p_unmap", "p_map", "p_access", "p_done", "p_fallback", "p_back", "p_back_access",
              "p_finally", "p_va", "p_unused"}
Chunking == {"c_sync", "c_create", "c_reserve", "c_temp", "c_temp_access", "c_copy", "c_copied",
             "c_temp_unmap", "c_unmap", "c_map", "c_access", "c_va", "c_release", "c_done",
             "c_raised", "c_raised_va"}
Evicting == {"e_sync", "e_unmap", "e_map", "e_access", "e_fallback", "e_back", "e_back_access",
             "e_done", "e_release"}
Later == Promoting \cup Chunking \cup Evicting \cup {"rest"}
InUse == pc \in Later /\ ~own.freed

Maps == UNION {[S -> Nat] : S \in SUBSET Nat}
IsDriver(d) ==
  /\ d \in [live : SUBSET Nat, map : Maps, access : SUBSET Nat, va : SUBSET Nat,
            data : Maps, device : SUBSET Nat]
  /\ IsFiniteSet(d.live) /\ IsFiniteSet(d.va) /\ IsFiniteSet(DOMAIN d.map)
  /\ DOMAIN d.data = d.live
IsOwner(o) == o \in [handles : SUBSET Nat, mappings : Maps, promoted : Nat, chunk : Nat,
                     hot : Int, freed : BOOLEAN]
Locals == [region : Nat \ {0}, hot : Nat, temp : Nat]
Typed ==
  /\ layout \in Layouts /\ IsDriver(drv) /\ IsOwner(own)
  /\ pc \in Making \cup Freeing \cup Later
  /\ reg \in Locals /\ failures \in Nat

(* What the object records of the driver, and what free() has undone.      *)
Recorded ==
  /\ own.mappings = drv.map
  /\ pc \notin Making => own.handles = drv.live
  /\ pc = "f_release" => drv.map = <<>>
  /\ own.freed => pc = "rest" /\ drv.live = {} /\ drv.map = <<>> /\ 0 \notin drv.va

(* The loops of the constructor up to the region at hand.                  *)
Made ==
  /\ pc \in Making => ~own.freed /\ own.promoted = NoHandle /\ own.chunk = 0 /\ own.hot = layout.hot
  /\ pc \in {"create", "map"} => reg.region \in Regions
  /\ pc = "create" => drv.live = 1..(reg.region - 1) /\ drv.device = {h \in drv.live : h <= layout.hot}
  /\ pc \in {"create", "reserve"} => DOMAIN drv.map = {} /\ own.handles = {}
  /\ pc = "reserve" => reg.region = 1
  /\ pc \in {"reserve", "map", "access", "fill"} =>
       drv.live = Regions /\ drv.device = {h \in Regions : h <= layout.hot}
  /\ pc = "map" => /\ DOMAIN drv.map = 1..(reg.region - 1) /\ \A i \in DOMAIN drv.map : drv.map[i] = i
                   /\ own.handles = 1..(reg.region - 1)
  /\ pc \in {"access", "fill"} => DOMAIN drv.map = Regions /\ \A i \in Regions : drv.map[i] = i
  /\ pc \in {"access", "fill"} => own.handles = Regions
  /\ pc = "fill" => Regions \subseteq drv.access

Backed ==
  \A i \in Regions \cap DOMAIN drv.map :
    /\ drv.map[i] \in drv.live /\ drv.data[drv.map[i]] = i
    /\ drv.map[i] = i \/ drv.map[i] > layout.regions
    /\ ~layout.chunked /\ i # Cold => drv.map[i] = i
(* The handle a region was made with still holds its weights.              *)
AtHome ==
  \A i \in Regions :
    ~layout.chunked \/ KeepHost \/ i > own.chunk + (IF pc = "c_done" THEN 1 ELSE 0) =>
      i \in drv.live /\ drv.data[i] = i
Moved ==
  layout.chunked => \A i \in 1..own.chunk : i \in DOMAIN drv.map /\ drv.map[i] > layout.regions
OnDevice == \A h \in drv.live : h \in drv.device <=> h > layout.regions \/ h <= layout.hot
Counted ==
  /\ own.promoted # NoHandle => /\ ~layout.chunked /\ layout.hot < Cold
                                /\ own.promoted > layout.regions
                                /\ own.promoted \in drv.live /\ drv.data[own.promoted] = Cold
  /\ own.chunk <= layout.regions /\ (layout.chunked \/ own.chunk = 0)
  /\ own.hot = layout.hot + own.chunk + (IF own.promoted # NoHandle THEN 1 ELSE 0)

(* The region at hand and its new handle.                                  *)
MapsTo(i, h) == i \in DOMAIN drv.map /\ drv.map[i] = h
Underway ==
  /\ pc \in Promoting => ~layout.chunked /\ layout.hot < Cold /\ reg.region = Cold
  /\ pc \in Evicting => ~layout.chunked /\ layout.hot < Cold /\ reg.region = Cold
  /\ pc \in Chunking => layout.chunked /\ reg.region = own.chunk + 1 /\ reg.region \in Regions
  /\ pc \in Promoting \cup Chunking => reg.temp > layout.regions
  /\ pc \in Promoting \cup Chunking \cup Evicting =>
       reg.hot > layout.regions /\ (reg.hot \in drv.live <=> pc \notin {"p_sync", "p_create", "c_sync", "c_create"})
  /\ pc \in {"p_sync", "p_create", "p_reserve", "p_temp", "p_temp_access", "p_copy",
             "c_sync", "c_create", "c_reserve", "c_temp", "c_temp_access", "c_copy"} =>
       \A i \in Regions : ~MapsTo(i, reg.hot)
  /\ pc \in {"p_temp_access", "p_copy", "c_temp_access", "c_copy"} => MapsTo(reg.temp, reg.hot)
  /\ pc \in {"p_copied", "p_unmap", "p_map", "p_access", "p_done",
             "c_copied", "c_temp_unmap", "c_unmap", "c_map"} => drv.data[reg.hot] = reg.region
  /\ pc \in {"p_map", "p_back", "c_map", "e_map", "e_back"} => reg.region \notin DOMAIN drv.map
  /\ pc \in {"p_access", "p_done", "c_access", "c_va", "c_release", "c_done"} => MapsTo(reg.region, reg.hot)
  /\ pc \in {"e_access", "e_done", "e_release", "p_back_access"} => MapsTo(reg.region, reg.region)
  /\ pc = "e_back_access" => MapsTo(reg.region, reg.hot)
  /\ pc = "c_release" => ~KeepHost
  /\ pc \in Promoting \ {"p_finally", "p_va", "p_unused"} => own.promoted = NoHandle
  /\ pc \in {"p_finally", "p_va", "p_unused"} =>
       own.promoted = NoHandle \/ (own.promoted = reg.hot /\ MapsTo(Cold, reg.hot))
  /\ pc \in Evicting => own.promoted = (IF pc = "e_release" THEN NoHandle ELSE reg.hot)

Restoring == {"p_fallback", "p_back", "p_back_access", "e_fallback", "e_back", "e_back_access"}
Remapping == {"p_map", "p_access", "c_map", "c_access", "e_map", "e_access"}
(* One failing call costs no mapping, but that of the chunk at hand.       *)
Reachable ==
  /\ pc \in Restoring => failures >= 1
  /\ failures <= 1 => \A i \in Regions :
       \/ Readable(i)
       \/ ~layout.chunked /\ i = Cold /\ pc \in Restoring \cup Remapping
       \/ layout.chunked /\ i = own.chunk + 1 /\ (failures = 1 \/ pc \in Remapping)
  /\ pc \in {"c_va", "c_release", "c_done", "p_done", "e_done"} => Readable(reg.region)
(* Without failures the handles behind the addresses are the recorded ones.*)
Unharmed ==
  failures = 0 =>
    /\ ~layout.chunked /\ Cold \in DOMAIN drv.map /\ pc \notin {"p_access", "p_done", "e_access", "e_done"} =>
         (drv.map[Cold] = Cold <=> own.promoted = NoHandle)
    /\ layout.chunked => \A i \in Regions \cap DOMAIN drv.map :
         i > own.chunk => drv.map[i] = i \/ (pc \in {"c_access", "c_va", "c_release", "c_done"} /\ i = reg.region)

Kept == Backed /\ AtHome /\ Moved /\ OnDevice /\ Counted /\ Underway /\ Reachable /\ Unharmed
VmmInv == Typed /\ Recorded /\ Made /\ (InUse => Kept)

-----------------------------------------------------------------------------
(* The numbers of new handles and temporary addresses.                     *)
LEMMA FreshIsUnused ==
  ASSUME NEW used, IsFiniteSet(used), NEW above \in Nat
  PROVE  /\ FreshFor(used, above) \in Nat
         /\ FreshFor(used, above) > above
         /\ FreshFor(used, above) \notin used
<1>. DEFINE C == Cardinality(used)
            Least(n) == n \notin used /\ \A k \in (above + 1)..(n - 1) : k \in used
            T == {m \in Nat : m <= C + 1 => \A k \in (above + 1)..(above + m) : k \in used}
<1>1. C \in Nat
  BY FS_CardinalityType
<1>2. SUFFICES \E n \in (above + 1)..(above + C + 1) : Least(n)
  BY <1>1 DEF FreshFor
<1>3. SUFFICES ASSUME \A n \in (above + 1)..(above + C + 1) : ~Least(n) PROVE FALSE
  OBVIOUS
<1>4. 0 \in T
  OBVIOUS
<1>5. ASSUME NEW m \in Nat, m \in T PROVE m + 1 \in T
  <2>1. SUFFICES ASSUME m + 1 <= C + 1 PROVE \A k \in (above + 1)..(above + m + 1) : k \in used
    OBVIOUS
  <2>2. \A k \in (above + 1)..(above + m) : k \in used
    BY <1>1, <1>5, <2>1
  <2>3. ~Least(above + m + 1)
    BY <1>1, <1>3, <2>1
  <2>4. (above + m + 1) - 1 = above + m
    OBVIOUS
  <2>5. above + m + 1 \in used
    BY <2>2, <2>3, <2>4
  <2> QED BY <2>2, <2>5
<1>. HIDE DEF T
<1>6. Nat \subseteq T
  BY <1>4, <1>5, InductiveSet
<1>7. C + 1 \in T
  BY <1>1, <1>6
<1>8. (above + 1)..(above + (C + 1)) \subseteq used
  BY <1>1, <1>7 DEF T
<1>9. Cardinality((above + 1)..(above + (C + 1))) = C + 1
  <2>1. above + 1 \in Int /\ above + (C + 1) \in Int /\ ~(above + 1 > above + (C + 1))
    BY <1>1
  <2>2. Cardinality((above + 1)..(above + (C + 1))) = (above + (C + 1)) - (above + 1) + 1
    BY <2>1, FS_Interval, Zenon
  <2> QED BY <1>1, <2>2
<1>10. Cardinality((above + 1)..(above + (C + 1))) <= C
  BY <1>8, FS_Subset
<1>11. QED
  BY <1>1, <1>9, <1>10


(* Functions of numbers: one entry more, one less, one changed.            *)
LEMMA IsMap ==
  ASSUME NEW f, f = [x \in DOMAIN f |-> f[x]], DOMAIN f \subseteq Nat, \A x \in DOMAIN f : f[x] \in Nat
  PROVE  f \in Maps
  BY DEF Maps

LEMMA MapKnown ==
  ASSUME NEW f \in Maps
  PROVE  f = [x \in DOMAIN f |-> f[x]] /\ DOMAIN f \subseteq Nat /\ \A x \in DOMAIN f : f[x] \in Nat
  BY DEF Maps

LEMMA Prepended ==
  ASSUME NEW f \in Maps, NEW a \in Nat, NEW h \in Nat
  PROVE  /\ With(f, a, h) \in Maps /\ DOMAIN With(f, a, h) = DOMAIN f \cup {a}
         /\ With(f, a, h)[a] = h
         /\ \A b \in DOMAIN f : b # a => With(f, a, h)[b] = f[b]
<1>. DEFINE g == With(f, a, h)
<1>1. g = [b \in DOMAIN f \cup {a} |-> IF b = a THEN h ELSE f[b]]
  BY DEF With
<1>. HIDE DEF g
<1>2. g \in Maps /\ DOMAIN g = DOMAIN f \cup {a} /\ g[a] = h /\ \A b \in DOMAIN f : b # a => g[b] = f[b]
  BY <1>1, MapKnown, IsMap
<1>3. QED
  BY <1>2 DEF g

LEMMA Dropped ==
  ASSUME NEW f \in Maps, NEW a
  PROVE  /\ Restrict(f, DOMAIN f \ {a}) \in Maps /\ DOMAIN Restrict(f, DOMAIN f \ {a}) = DOMAIN f \ {a}
         /\ \A b \in DOMAIN f : b # a => Restrict(f, DOMAIN f \ {a})[b] = f[b]
<1>. DEFINE g == Restrict(f, DOMAIN f \ {a})
<1>1. g = [x \in DOMAIN f \ {a} |-> f[x]]
  BY DEF Restrict
<1>. HIDE DEF g
<1>2. g \in Maps /\ DOMAIN g = DOMAIN f \ {a} /\ \A b \in DOMAIN f : b # a => g[b] = f[b]
  BY <1>1, MapKnown, IsMap
<1>3. QED
  BY <1>2 DEF g

LEMMA Changed ==
  ASSUME NEW f \in Maps, NEW a \in DOMAIN f, NEW h \in Nat, NEW g, g = [f EXCEPT ![a] = h]
  PROVE  /\ g \in Maps /\ DOMAIN g = DOMAIN f /\ g[a] = h
         /\ \A b \in DOMAIN f : b # a => g[b] = f[b]
<1>1. f = [x \in DOMAIN f |-> f[x]] /\ DOMAIN f \subseteq Nat /\ \A x \in DOMAIN f : f[x] \in Nat
  BY MapKnown
<1>2. g = [x \in DOMAIN f |-> IF x = a THEN h ELSE f[x]]
  BY <1>1
<1>3. QED
  BY <1>1, <1>2, IsMap

-----------------------------------------------------------------------------
(* What the calls of the driver do, piece by piece.                        *)
LEMMA CreateDoes ==
  ASSUME Typed, NEW h \in Nat, NEW where \in {"device", "host"}, NEW d, d = Create(h, where)
  PROVE  /\ IsDriver(d)
         /\ d.live = drv.live \cup {h} /\ d.map = drv.map /\ d.access = drv.access /\ d.va = drv.va
         /\ d.device = IF where = "device" THEN drv.device \cup {h} ELSE drv.device \ {h}
         /\ \A k \in drv.live : k # h => d.data[k] = drv.data[k]
<1>1. /\ d.live = drv.live \cup {h} /\ d.map = drv.map /\ d.access = drv.access /\ d.va = drv.va
      /\ d.device = IF where = "device" THEN drv.device \cup {h} ELSE drv.device \ {h}
      /\ d.data = With(drv.data, h, 0)
  BY DEF Typed, IsDriver, Create
<1>2. /\ d.data \in Maps /\ DOMAIN d.data = DOMAIN drv.data \cup {h}
      /\ \A k \in DOMAIN drv.data : k # h => d.data[k] = drv.data[k]
  <2>1. drv.data \in Maps /\ 0 \in Nat
    BY DEF Typed, IsDriver
  <2>2. /\ With(drv.data, h, 0) \in Maps /\ DOMAIN With(drv.data, h, 0) = DOMAIN drv.data \cup {h}
        /\ With(drv.data, h, 0)[h] = 0
        /\ \A b \in DOMAIN drv.data : b # h => With(drv.data, h, 0)[b] = drv.data[b]
    BY <2>1, Prepended
  <2>3. QED
    BY <1>1, <2>2
<1>3. IsFiniteSet(d.live)
  BY <1>1, FS_AddElement DEF Typed, IsDriver
<1>4. d \in [live : SUBSET Nat, map : Maps, access : SUBSET Nat, va : SUBSET Nat,
             data : Maps, device : SUBSET Nat]
  BY <1>2 DEF Typed, IsDriver, Create
<1>5. QED
  BY <1>1, <1>2, <1>3, <1>4 DEF Typed, IsDriver

LEMMA ReserveDoes ==
  ASSUME Typed, NEW a \in Nat, NEW d, d = Reserve(a)
  PROVE  /\ IsDriver(d)
         /\ d.live = drv.live /\ d.map = drv.map /\ d.access = drv.access
         /\ d.device = drv.device /\ d.data = drv.data
<1>1. /\ d.live = drv.live /\ d.map = drv.map /\ d.access = drv.access /\ d.va = drv.va \cup {a}
      /\ d.device = drv.device /\ d.data = drv.data
  BY DEF Typed, IsDriver, Reserve
<1>2. IsFiniteSet(d.va)
  BY <1>1, FS_AddElement DEF Typed, IsDriver
<1>3. QED
  BY <1>1, <1>2 DEF Typed, IsDriver, Reserve

LEMMA AddressFreeDoes ==
  ASSUME Typed, NEW a \in Nat, NEW d, d = AddressFree(a)
  PROVE  /\ IsDriver(d)
         /\ d.live = drv.live /\ d.map = drv.map /\ d.access = drv.access
         /\ d.device = drv.device /\ d.data = drv.data /\ a \notin d.va
<1>1. /\ d.live = drv.live /\ d.map = drv.map /\ d.access = drv.access /\ d.va = drv.va \ {a}
      /\ d.device = drv.device /\ d.data = drv.data
  BY DEF Typed, IsDriver, AddressFree
<1>2. IsFiniteSet(d.va)
  BY <1>1, FS_RemoveElement DEF Typed, IsDriver
<1>3. QED
  BY <1>1, <1>2 DEF Typed, IsDriver, AddressFree

LEMMA MapAtDoes ==
  ASSUME Typed, NEW a \in Nat, NEW h \in Nat, NEW d, d = MapAt(a, h)
  PROVE  /\ IsDriver(d)
         /\ d.live = drv.live /\ d.access = drv.access /\ d.va = drv.va
         /\ d.device = drv.device /\ d.data = drv.data
         /\ d.map = With(drv.map, a, h) /\ DOMAIN d.map = DOMAIN drv.map \cup {a} /\ d.map[a] = h
         /\ \A b \in DOMAIN drv.map : b # a => d.map[b] = drv.map[b]
<1>1. /\ d.live = drv.live /\ d.access = drv.access /\ d.va = drv.va
      /\ d.device = drv.device /\ d.data = drv.data /\ d.map = With(drv.map, a, h)
  BY DEF Typed, IsDriver, MapAt
<1>2. /\ d.map \in Maps /\ DOMAIN d.map = DOMAIN drv.map \cup {a} /\ d.map[a] = h
      /\ \A b \in DOMAIN drv.map : b # a => d.map[b] = drv.map[b]
  <2>1. drv.map \in Maps
    BY DEF Typed, IsDriver
  <2>2. /\ With(drv.map, a, h) \in Maps /\ DOMAIN With(drv.map, a, h) = DOMAIN drv.map \cup {a}
        /\ With(drv.map, a, h)[a] = h
        /\ \A b \in DOMAIN drv.map : b # a => With(drv.map, a, h)[b] = drv.map[b]
    BY <2>1, Prepended
  <2>3. QED
    BY <1>1, <2>2
<1>3. IsFiniteSet(DOMAIN d.map)
  BY <1>2, FS_AddElement DEF Typed, IsDriver
<1>4. d \in [live : SUBSET Nat, map : Maps, access : SUBSET Nat, va : SUBSET Nat,
             data : Maps, device : SUBSET Nat]
  BY <1>2 DEF Typed, IsDriver, MapAt
<1>5. QED
  BY <1>1, <1>2, <1>3, <1>4 DEF Typed, IsDriver

LEMMA UnmapAtDoes ==
  ASSUME Typed, NEW a \in Nat, NEW d, d = UnmapAt(a)
  PROVE  /\ IsDriver(d)
         /\ d.live = drv.live /\ d.access = drv.access \ {a} /\ d.va = drv.va
         /\ d.device = drv.device /\ d.data = drv.data
         /\ d.map = Restrict(drv.map, DOMAIN drv.map \ {a}) /\ DOMAIN d.map = DOMAIN drv.map \ {a}
         /\ \A b \in DOMAIN drv.map : b # a => d.map[b] = drv.map[b]
<1>1. /\ d.live = drv.live /\ d.access = drv.access \ {a} /\ d.va = drv.va
      /\ d.device = drv.device /\ d.data = drv.data
      /\ d.map = Restrict(drv.map, DOMAIN drv.map \ {a})
  BY DEF Typed, IsDriver, UnmapAt
<1>2. /\ d.map \in Maps /\ DOMAIN d.map = DOMAIN drv.map \ {a}
      /\ \A b \in DOMAIN drv.map : b # a => d.map[b] = drv.map[b]
  <2>1. drv.map \in Maps
    BY DEF Typed, IsDriver
  <2>2. /\ Restrict(drv.map, DOMAIN drv.map \ {a}) \in Maps
        /\ DOMAIN Restrict(drv.map, DOMAIN drv.map \ {a}) = DOMAIN drv.map \ {a}
        /\ \A b \in DOMAIN drv.map : b # a => Restrict(drv.map, DOMAIN drv.map \ {a})[b] = drv.map[b]
    BY <2>1, Dropped
  <2>3. QED
    BY <1>1, <2>2
<1>3. IsFiniteSet(DOMAIN d.map)
  BY <1>2, FS_RemoveElement DEF Typed, IsDriver
<1>4. d \in [live : SUBSET Nat, map : Maps, access : SUBSET Nat, va : SUBSET Nat,
             data : Maps, device : SUBSET Nat]
  BY <1>2 DEF Typed, IsDriver, UnmapAt
<1>5. QED
  BY <1>1, <1>2, <1>3, <1>4 DEF Typed, IsDriver

LEMMA SetAccessDoes ==
  ASSUME Typed, NEW as \in SUBSET Nat, NEW d, d = SetAccess(as)
  PROVE  /\ IsDriver(d)
         /\ d.live = drv.live /\ d.map = drv.map /\ d.access = drv.access \cup as /\ d.va = drv.va
         /\ d.device = drv.device /\ d.data = drv.data
  BY DEF Typed, IsDriver, SetAccess

LEMMA ReleaseDoes ==
  ASSUME Typed, NEW h \in Nat, NEW d, d = Release(h)
  PROVE  /\ IsDriver(d)
         /\ d.live = drv.live \ {h} /\ d.map = drv.map /\ d.access = drv.access /\ d.va = drv.va
         /\ d.device = drv.device \ {h}
         /\ \A k \in drv.live : k # h => d.data[k] = drv.data[k]
<1>1. /\ d.live = drv.live \ {h} /\ d.map = drv.map /\ d.access = drv.access /\ d.va = drv.va
      /\ d.device = drv.device \ {h}
      /\ d.data = Restrict(drv.data, DOMAIN drv.data \ {h})
  BY DEF Typed, IsDriver, Release
<1>2. /\ d.data \in Maps /\ DOMAIN d.data = DOMAIN drv.data \ {h}
      /\ \A k \in DOMAIN drv.data : k # h => d.data[k] = drv.data[k]
  <2>1. drv.data \in Maps
    BY DEF Typed, IsDriver
  <2>2. /\ Restrict(drv.data, DOMAIN drv.data \ {h}) \in Maps
        /\ DOMAIN Restrict(drv.data, DOMAIN drv.data \ {h}) = DOMAIN drv.data \ {h}
        /\ \A b \in DOMAIN drv.data : b # h => Restrict(drv.data, DOMAIN drv.data \ {h})[b] = drv.data[b]
    BY <2>1, Dropped
  <2>3. QED
    BY <1>1, <2>2
<1>3. IsFiniteSet(d.live)
  BY <1>1, FS_RemoveElement DEF Typed, IsDriver
<1>4. d \in [live : SUBSET Nat, map : Maps, access : SUBSET Nat, va : SUBSET Nat,
             data : Maps, device : SUBSET Nat]
  BY <1>2 DEF Typed, IsDriver, Release
<1>5. QED
  BY <1>1, <1>2, <1>3, <1>4 DEF Typed, IsDriver

LEMMA MemcpyDoes ==
  ASSUME Typed, NEW to \in DOMAIN drv.map, NEW from \in DOMAIN drv.map,
         drv.map[to] \in drv.live, drv.map[from] \in drv.live, NEW d, d = Memcpy(to, from)
  PROVE  /\ IsDriver(d)
         /\ d.live = drv.live /\ d.map = drv.map /\ d.access = drv.access /\ d.va = drv.va
         /\ d.device = drv.device /\ d.data[drv.map[to]] = drv.data[drv.map[from]]
         /\ \A k \in drv.live : k # drv.map[to] => d.data[k] = drv.data[k]
<1>1. /\ d.live = drv.live /\ d.map = drv.map /\ d.access = drv.access /\ d.va = drv.va
      /\ d.device = drv.device
      /\ d.data = [drv.data EXCEPT ![drv.map[to]] = drv.data[drv.map[from]]]
  BY DEF Typed, IsDriver, Memcpy
<1>2. drv.data[drv.map[from]] \in Nat
  BY MapKnown DEF Typed, IsDriver
<1>3. /\ d.data \in Maps /\ DOMAIN d.data = DOMAIN drv.data
      /\ d.data[drv.map[to]] = drv.data[drv.map[from]]
      /\ \A k \in DOMAIN drv.data : k # drv.map[to] => d.data[k] = drv.data[k]
  BY <1>1, <1>2, Changed DEF Typed, IsDriver
<1>4. d \in [live : SUBSET Nat, map : Maps, access : SUBSET Nat, va : SUBSET Nat,
             data : Maps, device : SUBSET Nat]
  BY <1>3 DEF Typed, IsDriver, Memcpy
<1>5. QED
  BY <1>1, <1>3, <1>4 DEF Typed, IsDriver

-----------------------------------------------------------------------------
(* What every step of a promotion or an eviction has to show.              *)
LEMMA LayoutKnown ==
  ASSUME LayoutsFit, layout \in Layouts
  PROVE  /\ layout.regions \in Nat \ {0} /\ layout.hot \in Nat /\ layout.chunked \in BOOLEAN
         /\ Regions = 1..layout.regions /\ Cold = layout.regions /\ Cold \in Regions
         /\ IF layout.chunked THEN layout.hot = 0 ELSE layout.hot \in {Cold - 1, Cold}
  BY DEF LayoutsFit, Regions, Cold

LEMMA StepTyped ==
  ASSUME Typed, layout' = layout, pc' \in Later, reg' \in Locals, failures' \in Nat,
         IsDriver(drv'), IsOwner(own'), own'.mappings = drv'.map, own'.handles = drv'.live,
         own'.freed = FALSE
  PROVE  Typed' /\ Recorded' /\ Made' /\ InUse'
<1>1. pc' \notin Making /\ pc' # "f_release"
  BY DEF Later, Promoting, Chunking, Evicting, Making
<1>2. pc' \notin {"create", "map", "reserve", "access", "fill"}
  BY <1>1 DEF Making
<1>3. Typed'
  BY DEF Typed, IsDriver, IsOwner
<1>4. Recorded'
  BY <1>1 DEF Recorded
<1>5. Made'
  BY <1>1, <1>2 DEF Made
<1>6. QED
  BY <1>3, <1>4, <1>5 DEF InUse

(* The handles in H back no region, and the mapping of region r, if any,   *)
(* changes to a handle with its weights.                                   *)
SameBacking(i) ==
  (i \in DOMAIN drv.map <=> i \in DOMAIN drv'.map) /\ (i \in DOMAIN drv.map => drv'.map[i] = drv.map[i])
Aside(H, r) ==
  /\ \A h \in H : h > layout.regions /\ h # own.promoted /\ \A i \in Regions : ~MapsTo(i, h)
  /\ \A k \in drv.live \ H : k \in drv'.live /\ drv'.data[k] = drv.data[k]
  /\ \A i \in Regions \ {r} : SameBacking(i)
  /\ r \in Regions =>
       /\ IF layout.chunked THEN r > own.chunk ELSE r = Cold
       /\ r \in DOMAIN drv'.map => /\ drv'.map[r] \in drv'.live /\ drv'.data[drv'.map[r]] = r
                                   /\ drv'.map[r] = r \/ drv'.map[r] > layout.regions
  /\ \A k \in drv'.live : IF k \in drv.live THEN k \in drv'.device <=> k \in drv.device
                          ELSE k > layout.regions /\ k \in drv'.device
  /\ own'.promoted = own.promoted /\ own'.chunk = own.chunk /\ own'.hot = own.hot

LEMMA KeptBelow ==
  ASSUME LayoutsFit, Typed, Kept, layout' = layout, NEW H, NEW r, Aside(H, r),
         drv'.live \subseteq Nat, pc' = "c_done" => KeepHost, pc # "c_done"
  PROVE  Backed' /\ AtHome' /\ Moved' /\ OnDevice' /\ Counted'
<1>1. /\ layout.regions \in Nat \ {0} /\ layout.hot \in Nat /\ layout.chunked \in BOOLEAN
      /\ Regions = 1..layout.regions /\ Cold = layout.regions /\ layout.hot <= layout.regions
      /\ Regions' = Regions /\ Cold' = Cold
  BY LayoutKnown DEF Typed, Regions, Cold
<1>2. own.chunk \in Nat /\ own.promoted \in Nat
  BY DEF Typed, IsOwner
<1>3. Backed'
  <2>1. SUFFICES ASSUME NEW i \in Regions, i \in DOMAIN drv'.map
                 PROVE  /\ drv'.map[i] \in drv'.live /\ drv'.data[drv'.map[i]] = i
                        /\ drv'.map[i] = i \/ drv'.map[i] > layout.regions
                        /\ ~layout.chunked /\ i # Cold => drv'.map[i] = i
    BY <1>1 DEF Backed
  <2>2. CASE i = r
    BY <1>1, <2>1, <2>2 DEF Aside
  <2>3. CASE i # r
    <3>1. i \in DOMAIN drv.map /\ drv'.map[i] = drv.map[i]
      BY <2>1, <2>3 DEF Aside, SameBacking
    <3>2. drv.map[i] \in drv.live \ H
      BY <2>1, <3>1 DEF Kept, Backed, MapsTo, Aside
    <3>3. QED
      BY <1>1, <2>1, <3>1, <3>2 DEF Kept, Backed, Aside
  <2>4. QED
    BY <2>2, <2>3
<1>4. AtHome'
  <2>1. SUFFICES ASSUME NEW i \in Regions,
                        ~layout.chunked \/ KeepHost \/ i > own.chunk + (IF pc' = "c_done" THEN 1 ELSE 0)
                 PROVE  i \in drv'.live /\ drv'.data[i] = i
    BY <1>1 DEF AtHome, Aside
  <2>2. ~layout.chunked \/ KeepHost \/ i > own.chunk
    BY <1>1, <1>2, <2>1
  <2>3. i \in drv.live /\ drv.data[i] = i
    BY <1>2, <2>2 DEF Kept, AtHome
  <2>4. i \notin H
    BY <1>1 DEF Aside
  <2>5. QED
    BY <2>3, <2>4 DEF Aside
<1>5. Moved'
  <2>1. SUFFICES ASSUME layout.chunked, NEW i \in 1..own.chunk
                 PROVE  i \in DOMAIN drv'.map /\ drv'.map[i] > layout.regions
    BY DEF Moved, Aside
  <2>2. i \in Regions \ {r}
    BY <1>1, <1>2, <2>1 DEF Kept, Counted, Aside
  <2>3. i \in DOMAIN drv.map /\ drv.map[i] > layout.regions
    BY <2>1 DEF Kept, Moved
  <2>4. QED
    BY <2>2, <2>3 DEF Aside, SameBacking
<1>6. OnDevice'
  BY <1>1 DEF Kept, OnDevice, Aside
<1>7. Counted'
  <2>1. own.promoted # NoHandle => own.promoted \in drv.live \ H
    BY DEF Kept, Counted, Aside
  <2>2. QED
    BY <1>1, <2>1 DEF Kept, Counted, Aside
<1>8. QED
  BY <1>3, <1>4, <1>5, <1>6, <1>7

(* Where an error leads, and the steps that leave all but a reservation of *)
(* addresses as it was.                                                    *)
Falls ==
  \/ pc' = "rest" /\ pc \in {"p_sync", "p_create", "p_finally", "p_va", "p_unused",
                             "c_sync", "c_create", "c_reserve", "c_va", "c_raised", "c_raised_va", "c_release",
                             "e_sync", "e_unmap", "e_fallback", "e_back", "e_back_access", "e_release"}
  \/ pc' = "p_finally" /\ pc \in {"p_temp", "p_temp_access", "p_copy", "p_copied", "p_unmap",
                                  "p_fallback", "p_back", "p_back_access"}
  \/ pc' = "p_unused" /\ pc = "p_reserve"
  \/ pc' = "p_fallback" /\ pc \in {"p_map", "p_access"}
  \/ pc' = "c_raised" /\ pc \in {"c_temp", "c_temp_access", "c_copy", "c_copied", "c_temp_unmap",
                                 "c_unmap", "c_map", "c_access"}
  \/ pc' = "e_fallback" /\ pc \in {"e_map", "e_access"}
Passes ==
  \/ pc = "p_sync" /\ pc' = "p_create"
  \/ pc = "p_reserve" /\ pc' = "p_temp"
  \/ pc = "p_copied" /\ pc' = "p_unmap"
  \/ pc = "p_fallback" /\ pc' = "p_back" /\ reg.region \notin DOMAIN drv.map
  \/ pc = "p_finally" /\ pc' = "p_va"
  \/ pc = "p_va" /\ pc' = "p_unused"
  \/ pc = "p_unused" /\ pc' = "rest"
  \/ pc = "c_sync" /\ pc' = "c_create"
  \/ pc = "c_reserve" /\ pc' = "c_temp"
  \/ pc = "c_copied" /\ pc' = "c_temp_unmap"
  \/ pc = "c_va" /\ pc' = (IF KeepHost THEN "c_done" ELSE "c_release")
  \/ pc = "c_raised" /\ pc' = "c_raised_va"
  \/ pc = "c_raised_va" /\ pc' = "rest"
  \/ pc = "e_sync" /\ pc' = "e_unmap"
  \/ pc = "e_fallback" /\ pc' = "e_back" /\ reg.region \notin DOMAIN drv.map

(* Errors whose only cause is a failure of the driver.                     *)
Sound == Remapping \cup Restoring \cup {"c_va", "c_release"}

LEMMA QuietStep ==
  ASSUME LayoutsFit, VmmInv, InUse, layout' = layout, own' = own, IsDriver(drv'),
         drv'.live = drv.live, drv'.map = drv.map, drv'.access = drv.access,
         drv'.data = drv.data, drv'.device = drv.device,
         reg' = IF pc' = "rest" THEN NoLocals ELSE reg,
         \/ Passes /\ failures' = failures
         \/ Falls /\ failures' \in {failures, failures + 1} /\ (pc \in Sound => failures' = failures + 1)
  PROVE  VmmInv'
<1>1. Typed /\ Recorded /\ Kept /\ failures \in Nat
  BY DEF VmmInv, Typed
<1>2. /\ layout.regions \in Nat \ {0} /\ layout.chunked \in BOOLEAN /\ Cold \in Regions
      /\ Regions = 1..layout.regions /\ Cold = layout.regions /\ Regions' = Regions /\ Cold' = Cold
  BY <1>1, LayoutKnown DEF Typed, Regions, Cold
<1>3. pc' \in Later /\ reg' \in Locals /\ failures' \in Nat
  <2>1. pc' \in Later
    BY DEF Passes, Falls, Later, Promoting, Chunking, Evicting
  <2>2. QED
    BY <1>1, <2>1 DEF Typed, Locals, NoLocals, NoHandle
<1>4. Typed' /\ Recorded' /\ Made' /\ InUse'
  <2>1. own.mappings = drv.map /\ own.handles = drv.live /\ own.freed = FALSE /\ IsOwner(own)
    BY <1>1 DEF Typed, IsOwner, Recorded, InUse, Later, Promoting, Chunking, Evicting, Making
  <2>2. QED
    BY <1>1, <1>3, <2>1, StepTyped DEF IsOwner
<1>5. pc # "c_done" /\ (pc' = "c_done" => KeepHost)
  BY DEF Passes, Falls
<1>6. Backed' /\ AtHome' /\ Moved' /\ OnDevice' /\ Counted'
  <2>1. \A k \in drv.live : k \in Nat
    BY <1>1 DEF Typed, IsDriver
  <2>2. 0 \notin Regions
    BY <1>2
  <2>3. Aside({}, 0)
    BY <2>1, <2>2 DEF Aside, SameBacking
  <2>4. QED
    BY <1>1, <1>5, <2>1, <2>3, KeptBelow
<1>7. Underway'
  BY <1>1, <1>2, <1>5 DEF Kept, Underway, MapsTo, Passes, Falls, Promoting, Chunking, Evicting
<1>8. Reachable'
  BY <1>1, <1>2, <1>5 DEF Kept, Underway, Reachable, Readable, MapsTo, Passes, Falls, Promoting, Chunking, Evicting,
     Sound, Remapping, Restoring
<1>9. Unharmed'
  BY <1>1, <1>2, <1>5 DEF Kept, Unharmed, Underway, Reachable, Counted, MapsTo, Passes, Falls, Promoting, Chunking, Evicting,
     Sound, Remapping, Restoring
<1>10. QED
  BY <1>4, <1>6, <1>7, <1>8, <1>9 DEF VmmInv, Kept

-----------------------------------------------------------------------------
(* Steps in use, one lemma for each kind of call.                          *)
InUseOf(owner) ==
  IsOwner(owner) /\ owner.mappings = drv'.map /\ owner.handles = drv'.live /\ owner.freed = FALSE

LEMMA Situation ==
  ASSUME LayoutsFit, VmmInv, InUse
  PROVE  /\ Typed /\ Recorded /\ Kept /\ failures \in Nat /\ IsDriver(drv) /\ IsOwner(own)
         /\ own.mappings = drv.map /\ own.handles = drv.live /\ own.freed = FALSE
         /\ drv.live \subseteq Nat /\ reg \in Locals
         /\ layout.regions \in Nat \ {0} /\ layout.hot \in Nat /\ layout.chunked \in BOOLEAN
         /\ layout.hot <= layout.regions /\ Cold \in Regions
         /\ Regions = 1..layout.regions /\ Cold = layout.regions
         /\ own.chunk \in Nat /\ own.promoted \in Nat
<1>1. Typed /\ Recorded /\ Kept
  BY DEF VmmInv
<1>2. pc \notin Making
  BY DEF InUse, Later, Promoting, Chunking, Evicting, Making
<1>3. IsDriver(drv) /\ IsOwner(own) /\ reg \in Locals /\ failures \in Nat /\ layout \in Layouts
  BY <1>1 DEF Typed
<1>4. own.mappings = drv.map /\ own.handles = drv.live /\ own.freed = FALSE
  BY <1>1, <1>2, <1>3 DEF Recorded, InUse, IsOwner
<1>5. drv.live \subseteq Nat /\ own.chunk \in Nat /\ own.promoted \in Nat
  BY <1>3 DEF IsDriver, IsOwner
<1>6. QED
  BY <1>1, <1>3, <1>4, <1>5, LayoutKnown

Fell ==
  /\ Falls /\ UNCHANGED <<layout, drv, own>>
  /\ reg' = IF pc' = "rest" THEN NoLocals ELSE reg
  /\ failures' \in {failures, failures + 1} /\ (pc \in Sound => failures' = failures + 1)

LEMMA Fallen ==
  ASSUME LayoutsFit, VmmInv, InUse, Fell
  PROVE  VmmInv'
<1>1. IsDriver(drv)
  BY Situation
<1>2. QED
  BY <1>1, QuietStep DEF IsDriver, Fell

(* A call succeeds or raises.                                              *)
Returns(driver, owner, then) ==
  /\ drv' = driver /\ own' = owner /\ pc' = then /\ UNCHANGED <<layout, failures>>
  /\ reg' = IF pc' = "rest" THEN NoLocals ELSE reg
Raises(raised, can) ==
  /\ pc' = raised /\ UNCHANGED <<layout, drv, own>>
  /\ reg' = IF pc' = "rest" THEN NoLocals ELSE reg
  /\ failures' \in {failures, failures + 1} /\ (can => failures' = failures + 1)

LEMMA Outcome ==
  ASSUME NEW here, NEW can \in BOOLEAN, NEW driver, NEW owner, NEW then, NEW raised, failures \in Nat,
         Check(here, can, driver, owner, then, raised)
  PROVE  pc = here /\ ((Returns(driver, owner, then) /\ can) \/ Raises(raised, can))
<1>1. CASE can
  BY <1>1 DEF Check, Returns, Raises
<1>2. CASE ~can
  BY <1>2 DEF Check, Returns, Raises
<1>3. QED
  BY <1>1, <1>2

LEMMA UnmapOutcome ==
  ASSUME NEW here, NEW a, NEW then, NEW raised, failures \in Nat, own.mappings = drv.map,
         _unmap(here, a, then, raised)
  PROVE  /\ pc = here
         /\ \/ Returns(UnmapAt(a), [own EXCEPT !.mappings = Restrict(@, DOMAIN @ \ {a})], then)
            \/ Raises(raised, a \in DOMAIN drv.map)
<1>. DEFINE can == a \in DOMAIN drv.map /\ a \in DOMAIN own.mappings
            owner == [own EXCEPT !.mappings = Restrict(@, DOMAIN @ \ {a})]
<1>1. Check(here, can, UnmapAt(a), owner, then, raised)
  BY DEF _unmap
<1>2. can = (a \in DOMAIN drv.map) /\ can \in BOOLEAN
  OBVIOUS
<1>. HIDE DEF can, owner
<1>3. pc = here /\ ((Returns(UnmapAt(a), owner, then) /\ can) \/ Raises(raised, can))
  BY <1>1, <1>2, Outcome
<1>4. QED
  BY <1>2, <1>3 DEF owner

LEMMA MapOutcome ==
  ASSUME NEW here, NEW a, NEW h, NEW then, NEW raised, failures \in Nat, own.mappings = drv.map,
         _map(here, a, h, then, raised)
  PROVE  /\ pc = here
         /\ \/ Returns(MapAt(a, h), [own EXCEPT !.mappings = With(@, a, h)], then)
            \/ Raises(raised, a \notin DOMAIN drv.map /\ h \in drv.live)
<1>. DEFINE can == a \notin DOMAIN drv.map /\ h \in drv.live
            owner == [own EXCEPT !.mappings = With(@, a, h)]
<1>1. Check(here, can, MapAt(a, h), owner, then, raised)
  BY DEF _map
<1>2. can \in BOOLEAN
  OBVIOUS
<1>. HIDE DEF can, owner
<1>3. pc = here /\ ((Returns(MapAt(a, h), owner, then) /\ can) \/ Raises(raised, can))
  BY <1>1, <1>2, Outcome
<1>4. QED
  BY <1>3 DEF owner, can

LEMMA MapSucceeds ==
  ASSUME Typed, own.mappings = drv.map, own.handles = drv.live, own.freed = FALSE,
         NEW a \in Nat, NEW h \in Nat, drv' = MapAt(a, h),
         own' = [own EXCEPT !.mappings = With(@, a, h)]
  PROVE  /\ IsDriver(drv') /\ InUseOf(own')
         /\ drv'.live = drv.live /\ drv'.access = drv.access
         /\ drv'.device = drv.device /\ drv'.data = drv.data
         /\ DOMAIN drv'.map = DOMAIN drv.map \cup {a} /\ drv'.map[a] = h
         /\ \A b \in DOMAIN drv.map : b # a => drv'.map[b] = drv.map[b]
         /\ own'.promoted = own.promoted /\ own'.chunk = own.chunk /\ own'.hot = own.hot
<1>1. /\ IsDriver(drv')
      /\ drv'.live = drv.live /\ drv'.access = drv.access
      /\ drv'.device = drv.device /\ drv'.data = drv.data /\ drv'.map = With(drv.map, a, h)
      /\ DOMAIN drv'.map = DOMAIN drv.map \cup {a} /\ drv'.map[a] = h
      /\ \A b \in DOMAIN drv.map : b # a => drv'.map[b] = drv.map[b]
  BY MapAtDoes
<1>2. own' = [own EXCEPT !.mappings = drv'.map]
  BY <1>1
<1>3. drv'.map \in Maps
  BY <1>1 DEF IsDriver
<1>4. InUseOf(own') /\ own'.promoted = own.promoted /\ own'.chunk = own.chunk /\ own'.hot = own.hot
  BY <1>1, <1>2, <1>3 DEF Typed, IsOwner, InUseOf
<1>5. QED
  BY <1>1, <1>4

LEMMA UnmapSucceeds ==
  ASSUME Typed, own.mappings = drv.map, own.handles = drv.live, own.freed = FALSE,
         NEW a \in Nat, drv' = UnmapAt(a),
         own' = [own EXCEPT !.mappings = Restrict(@, DOMAIN @ \ {a})]
  PROVE  /\ IsDriver(drv') /\ InUseOf(own')
         /\ drv'.live = drv.live /\ drv'.access = drv.access \ {a}
         /\ drv'.device = drv.device /\ drv'.data = drv.data
         /\ DOMAIN drv'.map = DOMAIN drv.map \ {a}
         /\ \A b \in DOMAIN drv.map : b # a => drv'.map[b] = drv.map[b]
         /\ own'.promoted = own.promoted /\ own'.chunk = own.chunk /\ own'.hot = own.hot
<1>1. /\ IsDriver(drv')
      /\ drv'.live = drv.live /\ drv'.access = drv.access \ {a}
      /\ drv'.device = drv.device /\ drv'.data = drv.data
      /\ drv'.map = Restrict(drv.map, DOMAIN drv.map \ {a})
      /\ DOMAIN drv'.map = DOMAIN drv.map \ {a}
      /\ \A b \in DOMAIN drv.map : b # a => drv'.map[b] = drv.map[b]
  BY UnmapAtDoes
<1>2. own' = [own EXCEPT !.mappings = drv'.map]
  BY <1>1
<1>3. drv'.map \in Maps
  BY <1>1 DEF IsDriver
<1>4. InUseOf(own') /\ own'.promoted = own.promoted /\ own'.chunk = own.chunk /\ own'.hot = own.hot
  BY <1>1, <1>2, <1>3 DEF Typed, IsOwner, InUseOf
<1>5. QED
  BY <1>1, <1>4

(* The region at hand is unmapped, on the way to its other handle.         *)
LEMMA RegionUnmapped ==
  ASSUME LayoutsFit, VmmInv, InUse,
         \/ _unmap("p_unmap", reg.region, "p_map", "p_finally")
         \/ reg.region \in DOMAIN own.mappings /\ _unmap("p_fallback", reg.region, "p_back", "p_finally")
         \/ _unmap("c_unmap", reg.region, "c_map", "c_raised")
         \/ _unmap("e_unmap", Cold, "e_map", "rest")
         \/ Cold \in DOMAIN own.mappings /\ _unmap("e_fallback", Cold, "e_back", "rest")
  PROVE  VmmInv'
<1>1. /\ Typed /\ Recorded /\ Kept /\ failures \in Nat
      /\ own.mappings = drv.map /\ own.handles = drv.live /\ own.freed = FALSE
      /\ drv.live \subseteq Nat /\ reg \in Locals
      /\ Cold \in Regions /\ Regions = 1..layout.regions /\ layout.regions \in Nat
      /\ layout.chunked \in BOOLEAN /\ own.chunk \in Nat
  BY Situation
<1>2. /\ reg.region \in Regions /\ reg.region \in Nat
      /\ IF layout.chunked THEN reg.region > own.chunk ELSE reg.region = Cold
      /\ pc \in {"e_unmap", "e_fallback"} => reg.region = Cold
  BY <1>1 DEF Kept, Underway, Promoting, Chunking, Evicting, _unmap, Check
<1>. DEFINE Done(then) == Returns(UnmapAt(reg.region), [own EXCEPT !.mappings = Restrict(@, DOMAIN @ \ {reg.region})], then)
<1>. HIDE DEF Done
<1>3. \/ Fell
      \/ pc = "p_unmap" /\ Done("p_map")
      \/ pc = "p_fallback" /\ Done("p_back")
      \/ pc = "c_unmap" /\ Done("c_map")
      \/ pc = "e_unmap" /\ Done("e_map")
      \/ pc = "e_fallback" /\ Done("e_back")
  <2>1. CASE _unmap("p_unmap", reg.region, "p_map", "p_finally")
    <3>1. pc = "p_unmap" /\ (Done("p_map") \/ Raises("p_finally", reg.region \in DOMAIN drv.map))
      BY <1>1, <2>1, UnmapOutcome DEF Done
    <3>2. Raises("p_finally", reg.region \in DOMAIN drv.map) => Fell
      BY <3>1 DEF Raises, Fell, Falls, Sound, Remapping, Restoring
    <3>3. QED
      BY <3>1, <3>2
  <2>2. CASE reg.region \in DOMAIN own.mappings /\ _unmap("p_fallback", reg.region, "p_back", "p_finally")
    <3>1. pc = "p_fallback" /\ (Done("p_back") \/ Raises("p_finally", reg.region \in DOMAIN drv.map))
      BY <1>1, <2>2, UnmapOutcome DEF Done
    <3>2. Raises("p_finally", reg.region \in DOMAIN drv.map) => Fell
      BY <1>1, <2>2, <3>1 DEF Raises, Fell, Falls, Sound, Remapping, Restoring
    <3>3. QED
      BY <3>1, <3>2
  <2>3. CASE _unmap("c_unmap", reg.region, "c_map", "c_raised")
    <3>1. pc = "c_unmap" /\ (Done("c_map") \/ Raises("c_raised", reg.region \in DOMAIN drv.map))
      BY <1>1, <2>3, UnmapOutcome DEF Done
    <3>2. Raises("c_raised", reg.region \in DOMAIN drv.map) => Fell
      BY <3>1 DEF Raises, Fell, Falls, Sound, Remapping, Restoring
    <3>3. QED
      BY <3>1, <3>2
  <2>4. CASE _unmap("e_unmap", Cold, "e_map", "rest")
    <3>1. pc = "e_unmap" /\ (Done("e_map") \/ Raises("rest", Cold \in DOMAIN drv.map))
      BY <1>1, <1>2, <2>4, UnmapOutcome DEF Done
    <3>2. Raises("rest", Cold \in DOMAIN drv.map) => Fell
      BY <3>1 DEF Raises, Fell, Falls, Sound, Remapping, Restoring
    <3>3. QED
      BY <3>1, <3>2
  <2>5. CASE Cold \in DOMAIN own.mappings /\ _unmap("e_fallback", Cold, "e_back", "rest")
    <3>1. pc = "e_fallback" /\ (Done("e_back") \/ Raises("rest", Cold \in DOMAIN drv.map))
      BY <1>1, <1>2, <2>5, UnmapOutcome DEF Done
    <3>2. Raises("rest", Cold \in DOMAIN drv.map) => Fell
      BY <1>1, <2>5, <3>1 DEF Raises, Fell, Falls, Sound, Remapping, Restoring
    <3>3. QED
      BY <3>1, <3>2
  <2>6. QED
    BY <2>1, <2>2, <2>3, <2>4, <2>5
<1>4. CASE Fell
  BY <1>4, Fallen
<1>5. CASE \/ pc = "p_unmap" /\ Done("p_map")
           \/ pc = "p_fallback" /\ Done("p_back")
           \/ pc = "c_unmap" /\ Done("c_map")
           \/ pc = "e_unmap" /\ Done("e_map")
           \/ pc = "e_fallback" /\ Done("e_back")
  <2>a. /\ drv' = UnmapAt(reg.region) /\ own' = [own EXCEPT !.mappings = Restrict(@, DOMAIN @ \ {reg.region})]
        /\ UNCHANGED <<layout, reg, failures>>
        /\ \/ pc = "p_unmap" /\ pc' = "p_map"
           \/ pc = "p_fallback" /\ pc' = "p_back"
           \/ pc = "c_unmap" /\ pc' = "c_map"
           \/ pc = "e_unmap" /\ pc' = "e_map"
           \/ pc = "e_fallback" /\ pc' = "e_back"
    BY <1>5 DEF Returns, Done
  <2>1. /\ IsDriver(drv') /\ InUseOf(own')
        /\ drv'.live = drv.live /\ drv'.access = drv.access \ {reg.region}
        /\ drv'.device = drv.device /\ drv'.data = drv.data
        /\ DOMAIN drv'.map = DOMAIN drv.map \ {reg.region}
        /\ \A b \in DOMAIN drv.map : b # reg.region => drv'.map[b] = drv.map[b]
        /\ own'.promoted = own.promoted /\ own'.chunk = own.chunk /\ own'.hot = own.hot
    BY <1>1, <1>2, <2>a, UnmapSucceeds
  <2>2. pc' \in Later
    BY <2>a DEF Later, Promoting, Chunking, Evicting
  <2>3. Typed' /\ Recorded' /\ Made' /\ InUse'
    BY <1>1, <2>a, <2>1, <2>2, StepTyped DEF InUseOf
  <2>4. Aside({}, reg.region)
    BY <1>1, <1>2, <2>1 DEF Aside, SameBacking
  <2>5. Backed' /\ AtHome' /\ Moved' /\ OnDevice' /\ Counted'
    BY <1>1, <2>a, <2>1, <2>4, KeptBelow
  <2>6. Regions' = Regions /\ Cold' = Cold
    BY <2>a DEF Regions, Cold
  <2>7. Underway'
    BY <1>1, <1>2, <2>a, <2>1, <2>6 DEF Kept, Underway, MapsTo, Promoting, Chunking, Evicting
  <2>8. Reachable'
    BY <1>1, <1>2, <2>a, <2>1, <2>6 DEF Kept, Underway, Reachable, Readable, Promoting, Chunking, Evicting, Remapping, Restoring
  <2>9. Unharmed'
    BY <1>1, <1>2, <2>a, <2>1, <2>6 DEF Kept, Unharmed, Underway, Promoting, Chunking, Evicting
  <2>10. QED
    BY <2>3, <2>5, <2>7, <2>8, <2>9 DEF VmmInv, Kept
<1>6. QED
  BY <1>3, <1>4, <1>5

LEMMA AccessSucceeds ==
  ASSUME Typed, own.mappings = drv.map, own.handles = drv.live, own.freed = FALSE,
         NEW a \in Nat, drv' = SetAccess({a}), own' = own
  PROVE  /\ IsDriver(drv') /\ InUseOf(own')
         /\ drv'.live = drv.live /\ drv'.map = drv.map /\ drv'.access = drv.access \cup {a}
         /\ drv'.device = drv.device /\ drv'.data = drv.data
         /\ own'.promoted = own.promoted /\ own'.chunk = own.chunk /\ own'.hot = own.hot
<1>1. {a} \in SUBSET Nat
  OBVIOUS
<1>2. /\ IsDriver(drv')
      /\ drv'.live = drv.live /\ drv'.map = drv.map /\ drv'.access = drv.access \cup {a}
      /\ drv'.device = drv.device /\ drv'.data = drv.data
  BY <1>1, SetAccessDoes
<1>3. QED
  BY <1>2 DEF Typed, InUseOf

LEMMA CreateSucceeds ==
  ASSUME Typed, own.mappings = drv.map, own.handles = drv.live, own.freed = FALSE,
         NEW h \in Nat, drv' = Create(h, "device"), own' = [own EXCEPT !.handles = @ \cup {h}]
  PROVE  /\ IsDriver(drv') /\ InUseOf(own')
         /\ drv'.live = drv.live \cup {h} /\ drv'.map = drv.map /\ drv'.access = drv.access
         /\ drv'.device = drv.device \cup {h}
         /\ \A k \in drv.live : k # h => drv'.data[k] = drv.data[k]
         /\ own'.promoted = own.promoted /\ own'.chunk = own.chunk /\ own'.hot = own.hot
<1>1. /\ IsDriver(drv')
      /\ drv'.live = drv.live \cup {h} /\ drv'.map = drv.map /\ drv'.access = drv.access
      /\ drv'.device = drv.device \cup {h}
      /\ \A k \in drv.live : k # h => drv'.data[k] = drv.data[k]
  BY CreateDoes
<1>2. InUseOf(own') /\ own'.promoted = own.promoted /\ own'.chunk = own.chunk /\ own'.hot = own.hot
  BY <1>1 DEF Typed, IsOwner, InUseOf
<1>3. QED
  BY <1>1, <1>2

LEMMA ReleaseSucceeds ==
  ASSUME Typed, own.mappings = drv.map, own.handles = drv.live, own.freed = FALSE,
         NEW h \in Nat, drv' = Release(h), own' = [own EXCEPT !.handles = @ \ {h}]
  PROVE  /\ IsDriver(drv') /\ InUseOf(own')
         /\ drv'.live = drv.live \ {h} /\ drv'.map = drv.map /\ drv'.access = drv.access
         /\ drv'.device = drv.device \ {h}
         /\ \A k \in drv.live : k # h => drv'.data[k] = drv.data[k]
         /\ own'.promoted = own.promoted /\ own'.chunk = own.chunk /\ own'.hot = own.hot
<1>1. /\ IsDriver(drv')
      /\ drv'.live = drv.live \ {h} /\ drv'.map = drv.map /\ drv'.access = drv.access
      /\ drv'.device = drv.device \ {h}
      /\ \A k \in drv.live : k # h => drv'.data[k] = drv.data[k]
  BY ReleaseDoes
<1>2. InUseOf(own') /\ own'.promoted = own.promoted /\ own'.chunk = own.chunk /\ own'.hot = own.hot
  BY <1>1 DEF Typed, IsOwner, InUseOf
<1>3. QED
  BY <1>1, <1>2

LEMMA MemcpySucceeds ==
  ASSUME Typed, own.mappings = drv.map, own.handles = drv.live, own.freed = FALSE,
         NEW to \in DOMAIN drv.map, NEW from \in DOMAIN drv.map,
         drv.map[to] \in drv.live, drv.map[from] \in drv.live, drv' = Memcpy(to, from), own' = own
  PROVE  /\ IsDriver(drv') /\ InUseOf(own')
         /\ drv'.live = drv.live /\ drv'.map = drv.map /\ drv'.access = drv.access
         /\ drv'.device = drv.device /\ drv'.data[drv.map[to]] = drv.data[drv.map[from]]
         /\ \A k \in drv.live : k # drv.map[to] => drv'.data[k] = drv.data[k]
         /\ own'.promoted = own.promoted /\ own'.chunk = own.chunk /\ own'.hot = own.hot
<1>1. /\ IsDriver(drv')
      /\ drv'.live = drv.live /\ drv'.map = drv.map /\ drv'.access = drv.access
      /\ drv'.device = drv.device /\ drv'.data[drv.map[to]] = drv.data[drv.map[from]]
      /\ \A k \in drv.live : k # drv.map[to] => drv'.data[k] = drv.data[k]
  BY MemcpyDoes
<1>2. QED
  BY <1>1 DEF Typed, InUseOf

LEMMA CopySucceeds ==
  ASSUME Typed, Backed, own.mappings = drv.map, own.handles = drv.live, own.freed = FALSE,
         reg.region \in Regions, Readable(reg.region), reg.temp \in DOMAIN drv.map,
         drv.map[reg.temp] = reg.hot, reg.hot \in drv.live,
         drv' = Memcpy(reg.temp, reg.region), own' = own
  PROVE  /\ IsDriver(drv') /\ InUseOf(own')
         /\ drv'.live = drv.live /\ drv'.map = drv.map /\ drv'.access = drv.access
         /\ drv'.device = drv.device /\ drv'.data[reg.hot] = reg.region
         /\ \A k \in drv.live : k # reg.hot => drv'.data[k] = drv.data[k]
         /\ own'.promoted = own.promoted /\ own'.chunk = own.chunk /\ own'.hot = own.hot
<1>1. reg.region \in DOMAIN drv.map /\ drv.map[reg.region] \in drv.live /\ drv.data[drv.map[reg.region]] = reg.region
  BY DEF Readable, Backed
<1>2. drv.map[reg.temp] \in drv.live
  OBVIOUS
<1>3. /\ IsDriver(drv') /\ InUseOf(own')
      /\ drv'.live = drv.live /\ drv'.map = drv.map /\ drv'.access = drv.access
      /\ drv'.device = drv.device /\ drv'.data[drv.map[reg.temp]] = drv.data[drv.map[reg.region]]
      /\ \A k \in drv.live : k # drv.map[reg.temp] => drv'.data[k] = drv.data[k]
      /\ own'.promoted = own.promoted /\ own'.chunk = own.chunk /\ own'.hot = own.hot
  BY <1>1, <1>2, MemcpySucceeds, Zenon
<1>4. QED
  BY <1>1, <1>3

LEMMA AccessOutcome ==
  ASSUME NEW here, NEW a, NEW then, NEW raised, failures \in Nat, Access(here, a, then, raised)
  PROVE  pc = here /\ (Returns(SetAccess({a}), own, then) \/ Raises(raised, a \in DOMAIN drv.map))
<1>. DEFINE can == a \in DOMAIN drv.map
<1>1. Check(here, can, SetAccess({a}), own, then, raised)
  BY DEF Access
<1>2. can \in BOOLEAN
  OBVIOUS
<1>. HIDE DEF can
<1>3. pc = here /\ ((Returns(SetAccess({a}), own, then) /\ can) \/ Raises(raised, can))
  BY <1>1, <1>2, Outcome
<1>4. QED
  BY <1>3 DEF can

(* Nothing that matters to a region changes.                               *)
LEMMA NothingMoves ==
  ASSUME 0 \notin Regions, drv'.live = drv.live, drv'.data = drv.data, drv'.device = drv.device,
         \A i \in Regions : SameBacking(i),
         own'.promoted = own.promoted, own'.chunk = own.chunk, own'.hot = own.hot
  PROVE  Aside({}, 0)
<1>1. \A k \in drv'.live : IF k \in drv.live THEN k \in drv'.device <=> k \in drv.device
                           ELSE k > layout.regions /\ k \in drv'.device
  OBVIOUS
<1>2. \A k \in drv.live \ {} : k \in drv'.live /\ drv'.data[k] = drv.data[k]
  OBVIOUS
<1>3. \A h \in {} : h > layout.regions /\ h # own.promoted /\ \A i \in Regions : ~MapsTo(i, h)
  OBVIOUS
<1>4. QED
  BY <1>1, <1>2, <1>3 DEF Aside

(* The region at hand gets its next handle, or the one it had.             *)
LEMMA RegionMapped ==
  ASSUME LayoutsFit, VmmInv, InUse,
         \/ _map("p_map", reg.region, reg.hot, "p_access", FallbackToCold)
         \/ _map("p_back", reg.region, reg.region, "p_back_access", "p_finally")
         \/ _map("c_map", reg.region, reg.hot, "c_access", "c_raised")
         \/ _map("e_map", Cold, reg.region, "e_access", "e_fallback")
         \/ _map("e_back", Cold, reg.hot, "e_back_access", "rest")
  PROVE  VmmInv'
<1>1. /\ Typed /\ Recorded /\ Kept /\ failures \in Nat
      /\ own.mappings = drv.map /\ own.handles = drv.live /\ own.freed = FALSE /\ IsOwner(own)
      /\ drv.live \subseteq Nat /\ reg \in Locals
      /\ Cold \in Regions /\ Regions = 1..layout.regions /\ Cold = layout.regions /\ layout.regions \in Nat
      /\ layout.chunked \in BOOLEAN /\ own.chunk \in Nat
  BY Situation
<1>. DEFINE NewHandle == IF pc \in {"p_back", "e_map"} THEN reg.region ELSE reg.hot
<1>2. /\ reg.region \in Regions /\ reg.region \in Nat /\ reg.hot \in Nat
      /\ IF layout.chunked THEN reg.region > own.chunk ELSE reg.region = Cold
      /\ pc \in {"e_map", "e_back"} => reg.region = Cold
      /\ reg.region \notin DOMAIN drv.map
      /\ NewHandle \in Nat /\ NewHandle \in drv.live /\ drv.data[NewHandle] = reg.region
      /\ NewHandle = reg.region \/ NewHandle > layout.regions
      /\ IF pc \in {"p_back", "e_map"} THEN NewHandle = reg.region ELSE NewHandle = reg.hot
  BY <1>1 DEF Kept, Underway, Counted, AtHome, Promoting, Chunking, Evicting, _map, Check, Locals, NoHandle
<1>. DEFINE Done(then) == Returns(MapAt(reg.region, NewHandle), [own EXCEPT !.mappings = With(@, reg.region, NewHandle)], then)
<1>. HIDE DEF Done, NewHandle
<1>3. \/ Fell
      \/ pc = "p_map" /\ Done("p_access")
      \/ pc = "p_back" /\ Done("p_back_access")
      \/ pc = "c_map" /\ Done("c_access")
      \/ pc = "e_map" /\ Done("e_access")
      \/ pc = "e_back" /\ Done("e_back_access")
  <2>1. CASE _map("p_map", reg.region, reg.hot, "p_access", FallbackToCold)
    <3>1. pc = "p_map" /\ NewHandle = reg.hot
      BY <1>2, <2>1 DEF _map, Check
    <3>2. pc = "p_map" /\ (Done("p_access") \/ Raises("p_fallback", reg.region \notin DOMAIN drv.map /\ reg.hot \in drv.live))
      BY <1>1, <1>2, <2>1, <3>1, MapOutcome DEF Done, FallbackToCold
    <3>3. Raises("p_fallback", reg.region \notin DOMAIN drv.map /\ reg.hot \in drv.live) => Fell
      BY <1>1, <1>2, <2>1, <3>2 DEF Raises, Fell, Falls, Sound, Remapping, Restoring
    <3>4. QED
      BY <3>2, <3>3
  <2>2. CASE _map("p_back", reg.region, reg.region, "p_back_access", "p_finally")
    <3>1. pc = "p_back" /\ NewHandle = reg.region
      BY <1>2, <2>2 DEF _map, Check
    <3>2. pc = "p_back" /\ (Done("p_back_access") \/ Raises("p_finally", reg.region \notin DOMAIN drv.map /\ reg.region \in drv.live))
      BY <1>1, <1>2, <2>2, <3>1, MapOutcome DEF Done, FallbackToCold
    <3>3. Raises("p_finally", reg.region \notin DOMAIN drv.map /\ reg.region \in drv.live) => Fell
      BY <1>1, <1>2, <2>2, <3>2 DEF Raises, Fell, Falls, Sound, Remapping, Restoring
    <3>4. QED
      BY <3>2, <3>3
  <2>3. CASE _map("c_map", reg.region, reg.hot, "c_access", "c_raised")
    <3>1. pc = "c_map" /\ NewHandle = reg.hot
      BY <1>2, <2>3 DEF _map, Check
    <3>2. pc = "c_map" /\ (Done("c_access") \/ Raises("c_raised", reg.region \notin DOMAIN drv.map /\ reg.hot \in drv.live))
      BY <1>1, <1>2, <2>3, <3>1, MapOutcome DEF Done, FallbackToCold
    <3>3. Raises("c_raised", reg.region \notin DOMAIN drv.map /\ reg.hot \in drv.live) => Fell
      BY <1>1, <1>2, <2>3, <3>2 DEF Raises, Fell, Falls, Sound, Remapping, Restoring
    <3>4. QED
      BY <3>2, <3>3
  <2>4. CASE _map("e_map", Cold, reg.region, "e_access", "e_fallback")
    <3>1. pc = "e_map" /\ NewHandle = reg.region
      BY <1>2, <2>4 DEF _map, Check
    <3>2. pc = "e_map" /\ (Done("e_access") \/ Raises("e_fallback", reg.region \notin DOMAIN drv.map /\ reg.region \in drv.live))
      BY <1>1, <1>2, <2>4, <3>1, MapOutcome DEF Done, FallbackToCold
    <3>3. Raises("e_fallback", reg.region \notin DOMAIN drv.map /\ reg.region \in drv.live) => Fell
      BY <1>1, <1>2, <2>4, <3>2 DEF Raises, Fell, Falls, Sound, Remapping, Restoring
    <3>4. QED
      BY <3>2, <3>3
  <2>5. CASE _map("e_back", Cold, reg.hot, "e_back_access", "rest")
    <3>1. pc = "e_back" /\ NewHandle = reg.hot
      BY <1>2, <2>5 DEF _map, Check
    <3>2. pc = "e_back" /\ (Done("e_back_access") \/ Raises("rest", reg.region \notin DOMAIN drv.map /\ reg.hot \in drv.live))
      BY <1>1, <1>2, <2>5, <3>1, MapOutcome DEF Done, FallbackToCold
    <3>3. Raises("rest", reg.region \notin DOMAIN drv.map /\ reg.hot \in drv.live) => Fell
      BY <1>1, <1>2, <2>5, <3>2 DEF Raises, Fell, Falls, Sound, Remapping, Restoring
    <3>4. QED
      BY <3>2, <3>3
  <2>6. QED
    BY <2>1, <2>2, <2>3, <2>4, <2>5
<1>4. CASE Fell
  BY <1>4, Fallen
<1>5. CASE \/ pc = "p_map" /\ Done("p_access")
           \/ pc = "p_back" /\ Done("p_back_access")
           \/ pc = "c_map" /\ Done("c_access")
           \/ pc = "e_map" /\ Done("e_access")
           \/ pc = "e_back" /\ Done("e_back_access")
  <2>1. /\ drv' = MapAt(reg.region, NewHandle)
        /\ own' = [own EXCEPT !.mappings = With(@, reg.region, NewHandle)]
        /\ UNCHANGED <<layout, failures>> /\ reg' = (IF pc' = "rest" THEN NoLocals ELSE reg)
        /\ \/ pc = "p_map" /\ pc' = "p_access"
           \/ pc = "p_back" /\ pc' = "p_back_access"
           \/ pc = "c_map" /\ pc' = "c_access"
           \/ pc = "e_map" /\ pc' = "e_access"
           \/ pc = "e_back" /\ pc' = "e_back_access"
    BY <1>5 DEF Returns, Done
  <2>2. /\ IsDriver(drv') /\ InUseOf(own')
        /\ drv'.live = drv.live /\ drv'.access = drv.access
        /\ drv'.device = drv.device /\ drv'.data = drv.data
        /\ DOMAIN drv'.map = DOMAIN drv.map \cup {reg.region} /\ drv'.map[reg.region] = NewHandle
        /\ \A b \in DOMAIN drv.map : b # reg.region => drv'.map[b] = drv.map[b]
        /\ own'.promoted = own.promoted /\ own'.chunk = own.chunk /\ own'.hot = own.hot
    BY <1>1, <1>2, <2>1, MapSucceeds
  <2>3. pc' \in Later /\ reg' \in Locals
    BY <1>1, <2>1 DEF Later, Promoting, Chunking, Evicting, Locals, NoLocals, NoHandle
  <2>4. Typed' /\ Recorded' /\ Made' /\ InUse'
    BY <1>1, <2>1, <2>2, <2>3, StepTyped DEF InUseOf
  <2>5. Aside({}, reg.region)
    BY <1>1, <1>2, <2>1, <2>2 DEF Aside, SameBacking
  <2>6. Backed' /\ AtHome' /\ Moved' /\ OnDevice' /\ Counted'
    BY <1>1, <2>1, <2>2, <2>5, KeptBelow DEF IsDriver
  <2>7. Regions' = Regions /\ Cold' = Cold
    BY <2>1 DEF Regions, Cold
  <2>8. Underway'
    BY <1>1, <1>2, <2>1, <2>2, <2>7 DEF Kept, Underway, Counted, MapsTo, Promoting, Chunking, Evicting
  <2>9. Reachable'
    BY <1>1, <1>2, <2>1, <2>2, <2>7 DEF Kept, Underway, Reachable, Readable, MapsTo, Promoting, Chunking, Evicting, Remapping, Restoring
  <2>10. Unharmed'
    BY <1>1, <1>2, <2>1, <2>2, <2>7 DEF Kept, Unharmed, Underway, Reachable, Counted, MapsTo, Promoting, Chunking, Evicting, Restoring
  <2>11. QED
    BY <2>4, <2>6, <2>8, <2>9, <2>10 DEF VmmInv, Kept
<1>6. QED
  BY <1>3, <1>4, <1>5

(* The region at hand can be read through its new mapping.                 *)
LEMMA RegionAccessed ==
  ASSUME LayoutsFit, VmmInv, InUse,
         \/ Access("p_access", reg.region, "p_done", FallbackToCold)
         \/ Access("p_back_access", reg.region, "p_finally", "p_finally")
         \/ Access("c_access", reg.region, "c_va", "c_raised")
         \/ Access("e_access", Cold, "e_done", "e_fallback")
         \/ Access("e_back_access", Cold, "rest", "rest")
  PROVE  VmmInv'
<1>1. /\ Typed /\ Recorded /\ Kept /\ failures \in Nat
      /\ own.mappings = drv.map /\ own.handles = drv.live /\ own.freed = FALSE /\ IsOwner(own)
      /\ drv.live \subseteq Nat /\ reg \in Locals
      /\ Cold \in Regions /\ Regions = 1..layout.regions /\ Cold = layout.regions /\ layout.regions \in Nat
      /\ layout.chunked \in BOOLEAN /\ own.chunk \in Nat
  BY Situation
<1>2. /\ reg.region \in Regions /\ reg.region \in Nat
      /\ reg.region \in DOMAIN drv.map
      /\ pc \in {"e_access", "e_back_access"} => reg.region = Cold
  BY <1>1 DEF Kept, Underway, MapsTo, Promoting, Chunking, Evicting, Access, Check, Locals
<1>. DEFINE Done(then) == Returns(SetAccess({reg.region}), own, then)
<1>. HIDE DEF Done
<1>3. \/ Fell
      \/ pc = "p_access" /\ Done("p_done")
      \/ pc = "p_back_access" /\ Done("p_finally")
      \/ pc = "c_access" /\ Done("c_va")
      \/ pc = "e_access" /\ Done("e_done")
      \/ pc = "e_back_access" /\ Done("rest")
  <2>1. CASE Access("p_access", reg.region, "p_done", FallbackToCold)
    <3>1. pc = "p_access" /\ (Done("p_done") \/ Raises("p_fallback", reg.region \in DOMAIN drv.map))
      BY <1>1, <1>2, <2>1, AccessOutcome DEF Done, FallbackToCold
    <3>2. Raises("p_fallback", reg.region \in DOMAIN drv.map) => Fell
      BY <1>1, <1>2, <2>1, <3>1 DEF Raises, Fell, Falls, Sound, Remapping, Restoring
    <3>3. QED
      BY <3>1, <3>2
  <2>2. CASE Access("p_back_access", reg.region, "p_finally", "p_finally")
    <3>1. pc = "p_back_access" /\ (Done("p_finally") \/ Raises("p_finally", reg.region \in DOMAIN drv.map))
      BY <1>1, <1>2, <2>2, AccessOutcome DEF Done, FallbackToCold
    <3>2. Raises("p_finally", reg.region \in DOMAIN drv.map) => Fell
      BY <1>1, <1>2, <2>2, <3>1 DEF Raises, Fell, Falls, Sound, Remapping, Restoring
    <3>3. QED
      BY <3>1, <3>2
  <2>3. CASE Access("c_access", reg.region, "c_va", "c_raised")
    <3>1. pc = "c_access" /\ (Done("c_va") \/ Raises("c_raised", reg.region \in DOMAIN drv.map))
      BY <1>1, <1>2, <2>3, AccessOutcome DEF Done, FallbackToCold
    <3>2. Raises("c_raised", reg.region \in DOMAIN drv.map) => Fell
      BY <1>1, <1>2, <2>3, <3>1 DEF Raises, Fell, Falls, Sound, Remapping, Restoring
    <3>3. QED
      BY <3>1, <3>2
  <2>4. CASE Access("e_access", Cold, "e_done", "e_fallback")
    <3>1. pc = "e_access" /\ (Done("e_done") \/ Raises("e_fallback", reg.region \in DOMAIN drv.map))
      BY <1>1, <1>2, <2>4, AccessOutcome DEF Done, FallbackToCold
    <3>2. Raises("e_fallback", reg.region \in DOMAIN drv.map) => Fell
      BY <1>1, <1>2, <2>4, <3>1 DEF Raises, Fell, Falls, Sound, Remapping, Restoring
    <3>3. QED
      BY <3>1, <3>2
  <2>5. CASE Access("e_back_access", Cold, "rest", "rest")
    <3>1. pc = "e_back_access" /\ (Done("rest") \/ Raises("rest", reg.region \in DOMAIN drv.map))
      BY <1>1, <1>2, <2>5, AccessOutcome DEF Done, FallbackToCold
    <3>2. Raises("rest", reg.region \in DOMAIN drv.map) => Fell
      BY <1>1, <1>2, <2>5, <3>1 DEF Raises, Fell, Falls, Sound, Remapping, Restoring
    <3>3. QED
      BY <3>1, <3>2
  <2>6. QED
    BY <2>1, <2>2, <2>3, <2>4, <2>5
<1>4. CASE Fell
  BY <1>4, Fallen
<1>5. CASE \/ pc = "p_access" /\ Done("p_done")
           \/ pc = "p_back_access" /\ Done("p_finally")
           \/ pc = "c_access" /\ Done("c_va")
           \/ pc = "e_access" /\ Done("e_done")
           \/ pc = "e_back_access" /\ Done("rest")
  <2>1. /\ drv' = SetAccess({reg.region})
        /\ own' = own
        /\ UNCHANGED <<layout, failures>> /\ reg' = (IF pc' = "rest" THEN NoLocals ELSE reg)
        /\ \/ pc = "p_access" /\ pc' = "p_done"
           \/ pc = "p_back_access" /\ pc' = "p_finally"
           \/ pc = "c_access" /\ pc' = "c_va"
           \/ pc = "e_access" /\ pc' = "e_done"
           \/ pc = "e_back_access" /\ pc' = "rest"
    BY <1>5 DEF Returns, Done
  <2>2. /\ IsDriver(drv') /\ InUseOf(own')
        /\ drv'.live = drv.live /\ drv'.map = drv.map /\ drv'.access = drv.access \cup {reg.region}
        /\ drv'.device = drv.device /\ drv'.data = drv.data
        /\ own'.promoted = own.promoted /\ own'.chunk = own.chunk /\ own'.hot = own.hot
    BY <1>1, <1>2, <2>1, AccessSucceeds
  <2>3. pc' \in Later /\ reg' \in Locals
    BY <1>1, <2>1 DEF Later, Promoting, Chunking, Evicting, Locals, NoLocals, NoHandle
  <2>4. Typed' /\ Recorded' /\ Made' /\ InUse'
    BY <1>1, <2>1, <2>2, <2>3, StepTyped DEF InUseOf
  <2>5. Aside({}, 0)
    <3>1. 0 \notin Regions /\ \A i \in Regions : SameBacking(i)
      BY <1>1, <2>2 DEF SameBacking
    <3>2. QED
      BY <2>2, <3>1, NothingMoves
  <2>6. Backed' /\ AtHome' /\ Moved' /\ OnDevice' /\ Counted'
    BY <1>1, <2>1, <2>2, <2>5, KeptBelow DEF IsDriver
  <2>7. Regions' = Regions /\ Cold' = Cold
    BY <2>1 DEF Regions, Cold
  <2>8. Underway'
    BY <1>1, <1>2, <2>1, <2>2, <2>7 DEF Kept, Underway, Counted, MapsTo, Promoting, Chunking, Evicting
  <2>9. Reachable'
    BY <1>1, <1>2, <2>1, <2>2, <2>7 DEF Kept, Underway, Reachable, Readable, MapsTo, Promoting, Chunking, Evicting, Remapping, Restoring
  <2>10. Unharmed'
    BY <1>1, <1>2, <2>1, <2>2, <2>7 DEF Kept, Unharmed, Underway, Reachable, Counted, MapsTo, Promoting, Chunking, Evicting, Restoring
  <2>11. QED
    BY <2>4, <2>6, <2>8, <2>9, <2>10 DEF VmmInv, Kept
<1>6. QED
  BY <1>3, <1>4, <1>5

(* The new handle under its temporary address.                             *)
LEMMA TempMapped ==
  ASSUME LayoutsFit, VmmInv, InUse,
         \/ _map("p_temp", reg.temp, reg.hot, "p_temp_access", "p_finally")
         \/ _map("c_temp", reg.temp, reg.hot, "c_temp_access", "c_raised")
  PROVE  VmmInv'
<1>1. /\ Typed /\ Recorded /\ Kept /\ failures \in Nat
      /\ own.mappings = drv.map /\ own.handles = drv.live /\ own.freed = FALSE /\ IsOwner(own)
      /\ drv.live \subseteq Nat /\ reg \in Locals
      /\ Cold \in Regions /\ Regions = 1..layout.regions /\ Cold = layout.regions /\ layout.regions \in Nat
      /\ layout.chunked \in BOOLEAN /\ own.chunk \in Nat
  BY Situation
<1>2. /\ reg.hot \in Nat /\ reg.temp \in Nat /\ reg.temp > layout.regions
  BY <1>1 DEF Kept, Underway, Promoting, Chunking, Evicting, _map, Check, Locals
<1>. DEFINE Done(then) == Returns(MapAt(reg.temp, reg.hot), [own EXCEPT !.mappings = With(@, reg.temp, reg.hot)], then)
<1>. HIDE DEF Done
<1>3. \/ Fell
      \/ pc = "p_temp" /\ Done("p_temp_access")
      \/ pc = "c_temp" /\ Done("c_temp_access")
  <2>1. CASE _map("p_temp", reg.temp, reg.hot, "p_temp_access", "p_finally")
    <3>1. pc = "p_temp" /\ (Done("p_temp_access") \/ Raises("p_finally", reg.temp \notin DOMAIN drv.map /\ reg.hot \in drv.live))
      BY <1>1, <1>2, <2>1, MapOutcome DEF Done
    <3>2. Raises("p_finally", reg.temp \notin DOMAIN drv.map /\ reg.hot \in drv.live) => Fell
      BY <1>1, <1>2, <2>1, <3>1 DEF Raises, Fell, Falls, Sound, Remapping, Restoring
    <3>3. QED
      BY <3>1, <3>2
  <2>2. CASE _map("c_temp", reg.temp, reg.hot, "c_temp_access", "c_raised")
    <3>1. pc = "c_temp" /\ (Done("c_temp_access") \/ Raises("c_raised", reg.temp \notin DOMAIN drv.map /\ reg.hot \in drv.live))
      BY <1>1, <1>2, <2>2, MapOutcome DEF Done
    <3>2. Raises("c_raised", reg.temp \notin DOMAIN drv.map /\ reg.hot \in drv.live) => Fell
      BY <1>1, <1>2, <2>2, <3>1 DEF Raises, Fell, Falls, Sound, Remapping, Restoring
    <3>3. QED
      BY <3>1, <3>2
  <2>3. QED
    BY <2>1, <2>2
<1>4. CASE Fell
  BY <1>4, Fallen
<1>5. CASE \/ pc = "p_temp" /\ Done("p_temp_access")
           \/ pc = "c_temp" /\ Done("c_temp_access")
  <2>1. /\ drv' = MapAt(reg.temp, reg.hot)
        /\ own' = [own EXCEPT !.mappings = With(@, reg.temp, reg.hot)]
        /\ UNCHANGED <<layout, failures>> /\ reg' = (IF pc' = "rest" THEN NoLocals ELSE reg)
        /\ \/ pc = "p_temp" /\ pc' = "p_temp_access"
           \/ pc = "c_temp" /\ pc' = "c_temp_access"
    BY <1>5 DEF Returns, Done
  <2>2. /\ IsDriver(drv') /\ InUseOf(own')
        /\ drv'.live = drv.live /\ drv'.access = drv.access
        /\ drv'.device = drv.device /\ drv'.data = drv.data
        /\ DOMAIN drv'.map = DOMAIN drv.map \cup {reg.temp} /\ drv'.map[reg.temp] = reg.hot
        /\ \A b \in DOMAIN drv.map : b # reg.temp => drv'.map[b] = drv.map[b]
        /\ own'.promoted = own.promoted /\ own'.chunk = own.chunk /\ own'.hot = own.hot
    BY <1>1, <1>2, <2>1, MapSucceeds
  <2>3. pc' \in Later /\ reg' \in Locals
    BY <1>1, <2>1 DEF Later, Promoting, Chunking, Evicting, Locals, NoLocals, NoHandle
  <2>4. Typed' /\ Recorded' /\ Made' /\ InUse'
    BY <1>1, <2>1, <2>2, <2>3, StepTyped DEF InUseOf
  <2>5. Aside({}, 0)
    BY <1>1, <1>2, <2>1, <2>2 DEF Aside, SameBacking
  <2>6. Backed' /\ AtHome' /\ Moved' /\ OnDevice' /\ Counted'
    BY <1>1, <2>1, <2>2, <2>5, KeptBelow DEF IsDriver
  <2>7. Regions' = Regions /\ Cold' = Cold
    BY <2>1 DEF Regions, Cold
  <2>8. Underway'
    BY <1>1, <1>2, <2>1, <2>2, <2>7 DEF Kept, Underway, Counted, MapsTo, Promoting, Chunking, Evicting
  <2>9. Reachable'
    BY <1>1, <1>2, <2>1, <2>2, <2>7 DEF Kept, Underway, Reachable, Readable, MapsTo, Promoting, Chunking, Evicting, Remapping, Restoring
  <2>10. Unharmed'
    BY <1>1, <1>2, <2>1, <2>2, <2>7 DEF Kept, Unharmed, Underway, Reachable, Counted, MapsTo, Promoting, Chunking, Evicting, Restoring
  <2>11. QED
    BY <2>4, <2>6, <2>8, <2>9, <2>10 DEF VmmInv, Kept
<1>6. QED
  BY <1>3, <1>4, <1>5

(* The temporary address can be written through.                           *)
LEMMA TempAccessed ==
  ASSUME LayoutsFit, VmmInv, InUse,
         \/ Access("p_temp_access", reg.temp, "p_copy", "p_finally")
         \/ Access("c_temp_access", reg.temp, "c_copy", "c_raised")
  PROVE  VmmInv'
<1>1. /\ Typed /\ Recorded /\ Kept /\ failures \in Nat
      /\ own.mappings = drv.map /\ own.handles = drv.live /\ own.freed = FALSE /\ IsOwner(own)
      /\ drv.live \subseteq Nat /\ reg \in Locals
      /\ Cold \in Regions /\ Regions = 1..layout.regions /\ Cold = layout.regions /\ layout.regions \in Nat
      /\ layout.chunked \in BOOLEAN /\ own.chunk \in Nat
  BY Situation
<1>2. /\ reg.temp \in Nat /\ reg.temp > layout.regions
  BY <1>1 DEF Kept, Underway, Promoting, Chunking, Evicting, Access, Check, Locals
<1>. DEFINE Done(then) == Returns(SetAccess({reg.temp}), own, then)
<1>. HIDE DEF Done
<1>3. \/ Fell
      \/ pc = "p_temp_access" /\ Done("p_copy")
      \/ pc = "c_temp_access" /\ Done("c_copy")
  <2>1. CASE Access("p_temp_access", reg.temp, "p_copy", "p_finally")
    <3>1. pc = "p_temp_access" /\ (Done("p_copy") \/ Raises("p_finally", reg.temp \in DOMAIN drv.map))
      BY <1>1, <1>2, <2>1, AccessOutcome DEF Done
    <3>2. Raises("p_finally", reg.temp \in DOMAIN drv.map) => Fell
      BY <1>1, <1>2, <2>1, <3>1 DEF Raises, Fell, Falls, Sound, Remapping, Restoring
    <3>3. QED
      BY <3>1, <3>2
  <2>2. CASE Access("c_temp_access", reg.temp, "c_copy", "c_raised")
    <3>1. pc = "c_temp_access" /\ (Done("c_copy") \/ Raises("c_raised", reg.temp \in DOMAIN drv.map))
      BY <1>1, <1>2, <2>2, AccessOutcome DEF Done
    <3>2. Raises("c_raised", reg.temp \in DOMAIN drv.map) => Fell
      BY <1>1, <1>2, <2>2, <3>1 DEF Raises, Fell, Falls, Sound, Remapping, Restoring
    <3>3. QED
      BY <3>1, <3>2
  <2>3. QED
    BY <2>1, <2>2
<1>4. CASE Fell
  BY <1>4, Fallen
<1>5. CASE \/ pc = "p_temp_access" /\ Done("p_copy")
           \/ pc = "c_temp_access" /\ Done("c_copy")
  <2>1. /\ drv' = SetAccess({reg.temp})
        /\ own' = own
        /\ UNCHANGED <<layout, failures>> /\ reg' = (IF pc' = "rest" THEN NoLocals ELSE reg)
        /\ \/ pc = "p_temp_access" /\ pc' = "p_copy"
           \/ pc = "c_temp_access" /\ pc' = "c_copy"
    BY <1>5 DEF Returns, Done
  <2>2. /\ IsDriver(drv') /\ InUseOf(own')
        /\ drv'.live = drv.live /\ drv'.map = drv.map /\ drv'.access = drv.access \cup {reg.temp}
        /\ drv'.device = drv.device /\ drv'.data = drv.data
        /\ own'.promoted = own.promoted /\ own'.chunk = own.chunk /\ own'.hot = own.hot
    BY <1>1, <1>2, <2>1, AccessSucceeds
  <2>3. pc' \in Later /\ reg' \in Locals
    BY <1>1, <2>1 DEF Later, Promoting, Chunking, Evicting, Locals, NoLocals, NoHandle
  <2>4. Typed' /\ Recorded' /\ Made' /\ InUse'
    BY <1>1, <2>1, <2>2, <2>3, StepTyped DEF InUseOf
  <2>5. Aside({}, 0)
    <3>1. 0 \notin Regions /\ \A i \in Regions : SameBacking(i)
      BY <1>1, <2>2 DEF SameBacking
    <3>2. QED
      BY <2>2, <3>1, NothingMoves
  <2>6. Backed' /\ AtHome' /\ Moved' /\ OnDevice' /\ Counted'
    BY <1>1, <2>1, <2>2, <2>5, KeptBelow DEF IsDriver
  <2>7. Regions' = Regions /\ Cold' = Cold
    BY <2>1 DEF Regions, Cold
  <2>8. Underway'
    BY <1>1, <1>2, <2>1, <2>2, <2>7 DEF Kept, Underway, Counted, MapsTo, Promoting, Chunking, Evicting
  <2>9. Reachable'
    BY <1>1, <1>2, <2>1, <2>2, <2>7 DEF Kept, Underway, Reachable, Readable, MapsTo, Promoting, Chunking, Evicting, Remapping, Restoring
  <2>10. Unharmed'
    BY <1>1, <1>2, <2>1, <2>2, <2>7 DEF Kept, Unharmed, Underway, Reachable, Counted, MapsTo, Promoting, Chunking, Evicting, Restoring
  <2>11. QED
    BY <2>4, <2>6, <2>8, <2>9, <2>10 DEF VmmInv, Kept
<1>6. QED
  BY <1>3, <1>4, <1>5

(* The weights are copied into the new handle, which backs no region yet.  *)
LEMMA Copied ==
  ASSUME LayoutsFit, VmmInv, InUse,
         \/ Copy("p_copy", "p_copied", "p_finally")
         \/ Copy("c_copy", "c_copied", "c_raised")
  PROVE  VmmInv'
<1>1. /\ Typed /\ Recorded /\ Kept /\ failures \in Nat
      /\ own.mappings = drv.map /\ own.handles = drv.live /\ own.freed = FALSE /\ IsOwner(own)
      /\ drv.live \subseteq Nat /\ reg \in Locals
      /\ Cold \in Regions /\ Regions = 1..layout.regions /\ Cold = layout.regions /\ layout.regions \in Nat
      /\ layout.chunked \in BOOLEAN /\ own.chunk \in Nat
  BY Situation
<1>2. /\ reg.region \in Regions /\ reg.temp \in DOMAIN drv.map /\ drv.map[reg.temp] = reg.hot
      /\ reg.hot \in drv.live /\ reg.hot > layout.regions /\ own.promoted = NoHandle /\ reg.hot # NoHandle
      /\ \A i \in Regions : ~MapsTo(i, reg.hot)
  BY <1>1 DEF Kept, Underway, Counted, MapsTo, Promoting, Chunking, Evicting, Copy, Check, Locals, NoHandle
<1>. DEFINE Done(then) == Returns(Memcpy(reg.temp, reg.region), own, then) /\ Readable(reg.region)
<1>. HIDE DEF Done
<1>3. \/ Fell
      \/ pc = "p_copy" /\ Done("p_copied")
      \/ pc = "c_copy" /\ Done("c_copied")
  <2>1. CASE Copy("p_copy", "p_copied", "p_finally")
    <3>1. pc = "p_copy" /\ (Done("p_copied") \/ Raises("p_finally", Readable(reg.temp) /\ Readable(reg.region)))
      BY <1>1, <1>2, <2>1, Outcome DEF Done, Copy
    <3>2. Raises("p_finally", Readable(reg.temp) /\ Readable(reg.region)) => Fell
      BY <1>1, <1>2, <2>1, <3>1 DEF Raises, Fell, Falls, Sound, Remapping, Restoring
    <3>3. QED
      BY <3>1, <3>2
  <2>2. CASE Copy("c_copy", "c_copied", "c_raised")
    <3>1. pc = "c_copy" /\ (Done("c_copied") \/ Raises("c_raised", Readable(reg.temp) /\ Readable(reg.region)))
      BY <1>1, <1>2, <2>2, Outcome DEF Done, Copy
    <3>2. Raises("c_raised", Readable(reg.temp) /\ Readable(reg.region)) => Fell
      BY <1>1, <1>2, <2>2, <3>1 DEF Raises, Fell, Falls, Sound, Remapping, Restoring
    <3>3. QED
      BY <3>1, <3>2
  <2>3. QED
    BY <2>1, <2>2
<1>4. CASE Fell
  BY <1>4, Fallen
<1>5. CASE \/ pc = "p_copy" /\ Done("p_copied")
           \/ pc = "c_copy" /\ Done("c_copied")
  <2>1. /\ drv' = Memcpy(reg.temp, reg.region) /\ Readable(reg.region)
        /\ own' = own
        /\ UNCHANGED <<layout, failures>> /\ reg' = (IF pc' = "rest" THEN NoLocals ELSE reg)
        /\ \/ pc = "p_copy" /\ pc' = "p_copied"
           \/ pc = "c_copy" /\ pc' = "c_copied"
    BY <1>5 DEF Returns, Done
  <2>2. /\ IsDriver(drv') /\ InUseOf(own')
        /\ drv'.live = drv.live /\ drv'.map = drv.map /\ drv'.access = drv.access
        /\ drv'.device = drv.device /\ drv'.data[reg.hot] = reg.region
        /\ \A k \in drv.live : k # reg.hot => drv'.data[k] = drv.data[k]
        /\ own'.promoted = own.promoted /\ own'.chunk = own.chunk /\ own'.hot = own.hot
    BY <1>1, <1>2, <2>1, CopySucceeds DEF Kept
  <2>3. pc' \in Later /\ reg' \in Locals
    BY <1>1, <2>1 DEF Later, Promoting, Chunking, Evicting, Locals, NoLocals, NoHandle
  <2>4. Typed' /\ Recorded' /\ Made' /\ InUse'
    BY <1>1, <2>1, <2>2, <2>3, StepTyped DEF InUseOf
  <2>5. Aside({reg.hot}, 0)
    BY <1>1, <1>2, <2>1, <2>2 DEF Aside, SameBacking
  <2>6. Backed' /\ AtHome' /\ Moved' /\ OnDevice' /\ Counted'
    BY <1>1, <2>1, <2>2, <2>5, KeptBelow DEF IsDriver
  <2>7. Regions' = Regions /\ Cold' = Cold
    BY <2>1 DEF Regions, Cold
  <2>8. Underway'
    BY <1>1, <1>2, <2>1, <2>2, <2>7 DEF Kept, Underway, Counted, MapsTo, Promoting, Chunking, Evicting
  <2>9. Reachable'
    BY <1>1, <1>2, <2>1, <2>2, <2>7 DEF Kept, Underway, Reachable, Readable, MapsTo, Promoting, Chunking, Evicting, Remapping, Restoring
  <2>10. Unharmed'
    BY <1>1, <1>2, <2>1, <2>2, <2>7 DEF Kept, Unharmed, Underway, Reachable, Counted, MapsTo, Promoting, Chunking, Evicting, Restoring
  <2>11. QED
    BY <2>4, <2>6, <2>8, <2>9, <2>10 DEF VmmInv, Kept
<1>6. QED
  BY <1>3, <1>4, <1>5

(* The temporary mapping goes; no region is at its address.                *)
LEMMA TempUnmapped ==
  ASSUME LayoutsFit, VmmInv, InUse,
         \/ reg.temp \in DOMAIN own.mappings /\ _unmap("p_finally", reg.temp, "p_va", "rest")
         \/ _unmap("c_temp_unmap", reg.temp, "c_unmap", "c_raised")
         \/ reg.temp \in DOMAIN own.mappings /\ _unmap("c_raised", reg.temp, "c_raised_va", "rest")
  PROVE  VmmInv'
<1>1. /\ Typed /\ Recorded /\ Kept /\ failures \in Nat
      /\ own.mappings = drv.map /\ own.handles = drv.live /\ own.freed = FALSE /\ IsOwner(own)
      /\ drv.live \subseteq Nat /\ reg \in Locals
      /\ Cold \in Regions /\ Regions = 1..layout.regions /\ Cold = layout.regions /\ layout.regions \in Nat
      /\ layout.chunked \in BOOLEAN /\ own.chunk \in Nat
  BY Situation
<1>2. /\ reg.temp \in Nat /\ reg.temp > layout.regions
  BY <1>1 DEF Kept, Underway, Promoting, Chunking, Evicting, _unmap, Check, Locals
<1>. DEFINE Done(then) == Returns(UnmapAt(reg.temp), [own EXCEPT !.mappings = Restrict(@, DOMAIN @ \ {reg.temp})], then)
<1>. HIDE DEF Done
<1>3. \/ Fell
      \/ pc = "p_finally" /\ Done("p_va")
      \/ pc = "c_temp_unmap" /\ Done("c_unmap")
      \/ pc = "c_raised" /\ Done("c_raised_va")
  <2>1. CASE reg.temp \in DOMAIN own.mappings /\ _unmap("p_finally", reg.temp, "p_va", "rest")
    <3>1. pc = "p_finally" /\ (Done("p_va") \/ Raises("rest", reg.temp \in DOMAIN drv.map))
      BY <1>1, <1>2, <2>1, UnmapOutcome DEF Done
    <3>2. Raises("rest", reg.temp \in DOMAIN drv.map) => Fell
      BY <1>1, <1>2, <2>1, <3>1 DEF Raises, Fell, Falls, Sound, Remapping, Restoring
    <3>3. QED
      BY <3>1, <3>2
  <2>2. CASE _unmap("c_temp_unmap", reg.temp, "c_unmap", "c_raised")
    <3>1. pc = "c_temp_unmap" /\ (Done("c_unmap") \/ Raises("c_raised", reg.temp \in DOMAIN drv.map))
      BY <1>1, <1>2, <2>2, UnmapOutcome DEF Done
    <3>2. Raises("c_raised", reg.temp \in DOMAIN drv.map) => Fell
      BY <1>1, <1>2, <2>2, <3>1 DEF Raises, Fell, Falls, Sound, Remapping, Restoring
    <3>3. QED
      BY <3>1, <3>2
  <2>3. CASE reg.temp \in DOMAIN own.mappings /\ _unmap("c_raised", reg.temp, "c_raised_va", "rest")
    <3>1. pc = "c_raised" /\ (Done("c_raised_va") \/ Raises("rest", reg.temp \in DOMAIN drv.map))
      BY <1>1, <1>2, <2>3, UnmapOutcome DEF Done
    <3>2. Raises("rest", reg.temp \in DOMAIN drv.map) => Fell
      BY <1>1, <1>2, <2>3, <3>1 DEF Raises, Fell, Falls, Sound, Remapping, Restoring
    <3>3. QED
      BY <3>1, <3>2
  <2>4. QED
    BY <2>1, <2>2, <2>3
<1>4. CASE Fell
  BY <1>4, Fallen
<1>5. CASE \/ pc = "p_finally" /\ Done("p_va")
           \/ pc = "c_temp_unmap" /\ Done("c_unmap")
           \/ pc = "c_raised" /\ Done("c_raised_va")
  <2>1. /\ drv' = UnmapAt(reg.temp)
        /\ own' = [own EXCEPT !.mappings = Restrict(@, DOMAIN @ \ {reg.temp})]
        /\ UNCHANGED <<layout, failures>> /\ reg' = (IF pc' = "rest" THEN NoLocals ELSE reg)
        /\ \/ pc = "p_finally" /\ pc' = "p_va"
           \/ pc = "c_temp_unmap" /\ pc' = "c_unmap"
           \/ pc = "c_raised" /\ pc' = "c_raised_va"
    BY <1>5 DEF Returns, Done
  <2>2. /\ IsDriver(drv') /\ InUseOf(own')
        /\ drv'.live = drv.live /\ drv'.access = drv.access \ {reg.temp}
        /\ drv'.device = drv.device /\ drv'.data = drv.data
        /\ DOMAIN drv'.map = DOMAIN drv.map \ {reg.temp}
        /\ \A b \in DOMAIN drv.map : b # reg.temp => drv'.map[b] = drv.map[b]
        /\ own'.promoted = own.promoted /\ own'.chunk = own.chunk /\ own'.hot = own.hot
    BY <1>1, <1>2, <2>1, UnmapSucceeds
  <2>3. pc' \in Later /\ reg' \in Locals
    BY <1>1, <2>1 DEF Later, Promoting, Chunking, Evicting, Locals, NoLocals, NoHandle
  <2>4. Typed' /\ Recorded' /\ Made' /\ InUse'
    BY <1>1, <2>1, <2>2, <2>3, StepTyped DEF InUseOf
  <2>5. Aside({}, 0)
    BY <1>1, <1>2, <2>1, <2>2 DEF Aside, SameBacking
  <2>6. Backed' /\ AtHome' /\ Moved' /\ OnDevice' /\ Counted'
    BY <1>1, <2>1, <2>2, <2>5, KeptBelow DEF IsDriver
  <2>7. Regions' = Regions /\ Cold' = Cold
    BY <2>1 DEF Regions, Cold
  <2>8. Underway'
    BY <1>1, <1>2, <2>1, <2>2, <2>7 DEF Kept, Underway, Counted, MapsTo, Promoting, Chunking, Evicting
  <2>9. Reachable'
    BY <1>1, <1>2, <2>1, <2>2, <2>7 DEF Kept, Underway, Reachable, Readable, MapsTo, Promoting, Chunking, Evicting, Remapping, Restoring
  <2>10. Unharmed'
    BY <1>1, <1>2, <2>1, <2>2, <2>7 DEF Kept, Unharmed, Underway, Reachable, Counted, MapsTo, Promoting, Chunking, Evicting, Restoring
  <2>11. QED
    BY <2>4, <2>6, <2>8, <2>9, <2>10 DEF VmmInv, Kept
<1>6. QED
  BY <1>3, <1>4, <1>5

(* A new handle, of a number no live handle has.                           *)
LEMMA HotCreated ==
  ASSUME LayoutsFit, VmmInv, InUse,
         \/ CreateHot("p_create", "p_reserve")
         \/ CreateHot("c_create", "c_reserve")
  PROVE  VmmInv'
<1>1. /\ Typed /\ Recorded /\ Kept /\ failures \in Nat
      /\ own.mappings = drv.map /\ own.handles = drv.live /\ own.freed = FALSE /\ IsOwner(own)
      /\ drv.live \subseteq Nat /\ reg \in Locals
      /\ Cold \in Regions /\ Regions = 1..layout.regions /\ Cold = layout.regions /\ layout.regions \in Nat
      /\ layout.chunked \in BOOLEAN /\ own.chunk \in Nat
  BY Situation
<1>2. /\ reg.hot \in Nat /\ reg.hot > layout.regions /\ reg.hot \notin drv.live
  BY <1>1 DEF Kept, Underway, Promoting, Chunking, Evicting, CreateHot, Check, Locals
<1>. DEFINE Done(then) == Returns(Create(reg.hot, "device"), [own EXCEPT !.handles = @ \cup {reg.hot}], then)
<1>. HIDE DEF Done
<1>3. \/ Fell
      \/ pc = "p_create" /\ Done("p_reserve")
      \/ pc = "c_create" /\ Done("c_reserve")
  <2>1. CASE CreateHot("p_create", "p_reserve")
    <3>1. pc = "p_create" /\ (Done("p_reserve") \/ Raises("rest", TRUE))
      BY <1>1, <1>2, <2>1, Outcome DEF Done, CreateHot
    <3>2. Raises("rest", TRUE) => Fell
      BY <1>1, <1>2, <2>1, <3>1 DEF Raises, Fell, Falls, Sound, Remapping, Restoring
    <3>3. QED
      BY <3>1, <3>2
  <2>2. CASE CreateHot("c_create", "c_reserve")
    <3>1. pc = "c_create" /\ (Done("c_reserve") \/ Raises("rest", TRUE))
      BY <1>1, <1>2, <2>2, Outcome DEF Done, CreateHot
    <3>2. Raises("rest", TRUE) => Fell
      BY <1>1, <1>2, <2>2, <3>1 DEF Raises, Fell, Falls, Sound, Remapping, Restoring
    <3>3. QED
      BY <3>1, <3>2
  <2>3. QED
    BY <2>1, <2>2
<1>4. CASE Fell
  BY <1>4, Fallen
<1>5. CASE \/ pc = "p_create" /\ Done("p_reserve")
           \/ pc = "c_create" /\ Done("c_reserve")
  <2>1. /\ drv' = Create(reg.hot, "device")
        /\ own' = [own EXCEPT !.handles = @ \cup {reg.hot}]
        /\ UNCHANGED <<layout, failures>> /\ reg' = (IF pc' = "rest" THEN NoLocals ELSE reg)
        /\ \/ pc = "p_create" /\ pc' = "p_reserve"
           \/ pc = "c_create" /\ pc' = "c_reserve"
    BY <1>5 DEF Returns, Done
  <2>2. /\ IsDriver(drv') /\ InUseOf(own')
        /\ drv'.live = drv.live \cup {reg.hot} /\ drv'.map = drv.map /\ drv'.access = drv.access
        /\ drv'.device = drv.device \cup {reg.hot}
        /\ \A k \in drv.live : k # reg.hot => drv'.data[k] = drv.data[k]
        /\ own'.promoted = own.promoted /\ own'.chunk = own.chunk /\ own'.hot = own.hot
    BY <1>1, <1>2, <2>1, CreateSucceeds
  <2>3. pc' \in Later /\ reg' \in Locals
    BY <1>1, <2>1 DEF Later, Promoting, Chunking, Evicting, Locals, NoLocals, NoHandle
  <2>4. Typed' /\ Recorded' /\ Made' /\ InUse'
    BY <1>1, <2>1, <2>2, <2>3, StepTyped DEF InUseOf
  <2>5. Aside({}, 0)
    BY <1>1, <1>2, <2>1, <2>2 DEF Aside, SameBacking
  <2>6. Backed' /\ AtHome' /\ Moved' /\ OnDevice' /\ Counted'
    BY <1>1, <2>1, <2>2, <2>5, KeptBelow DEF IsDriver
  <2>7. Regions' = Regions /\ Cold' = Cold
    BY <2>1 DEF Regions, Cold
  <2>8. Underway'
    BY <1>1, <1>2, <2>1, <2>2, <2>7 DEF Kept, Underway, Counted, MapsTo, Promoting, Chunking, Evicting
  <2>9. Reachable'
    BY <1>1, <1>2, <2>1, <2>2, <2>7 DEF Kept, Underway, Reachable, Readable, MapsTo, Promoting, Chunking, Evicting, Remapping, Restoring
  <2>10. Unharmed'
    BY <1>1, <1>2, <2>1, <2>2, <2>7 DEF Kept, Unharmed, Underway, Reachable, Counted, MapsTo, Promoting, Chunking, Evicting, Restoring
  <2>11. QED
    BY <2>4, <2>6, <2>8, <2>9, <2>10 DEF VmmInv, Kept
<1>6. QED
  BY <1>3, <1>4, <1>5

(* A handle that backs no region is released.                              *)
LEMMA HotReleased ==
  ASSUME LayoutsFit, VmmInv, InUse,
         \/ /\ reg.hot \notin Range(own.mappings)
            /\ Check("p_unused", TRUE, Release(reg.hot), [own EXCEPT !.handles = @ \ {reg.hot}], "rest", "rest")
         \/ Check("e_release", TRUE, Release(reg.hot), [own EXCEPT !.handles = @ \ {reg.hot}], "rest", "rest")
  PROVE  VmmInv'
<1>1. /\ Typed /\ Recorded /\ Kept /\ failures \in Nat
      /\ own.mappings = drv.map /\ own.handles = drv.live /\ own.freed = FALSE /\ IsOwner(own)
      /\ drv.live \subseteq Nat /\ reg \in Locals
      /\ Cold \in Regions /\ Regions = 1..layout.regions /\ Cold = layout.regions /\ layout.regions \in Nat
      /\ layout.chunked \in BOOLEAN /\ own.chunk \in Nat
  BY Situation
<1>2. /\ reg.hot \in Nat /\ reg.hot > layout.regions /\ reg.hot # own.promoted
      /\ \A i \in Regions : ~MapsTo(i, reg.hot)
  BY <1>1 DEF Kept, Underway, Backed, MapsTo, Promoting, Chunking, Evicting, Range, Check, Locals, NoHandle
<1>. DEFINE Done(then) == Returns(Release(reg.hot), [own EXCEPT !.handles = @ \ {reg.hot}], then)
<1>. HIDE DEF Done
<1>3. \/ Fell
      \/ pc = "p_unused" /\ Done("rest")
      \/ pc = "e_release" /\ Done("rest")
  <2>1. CASE /\ reg.hot \notin Range(own.mappings)
            /\ Check("p_unused", TRUE, Release(reg.hot), [own EXCEPT !.handles = @ \ {reg.hot}], "rest", "rest")
    <3>1. pc = "p_unused" /\ (Done("rest") \/ Raises("rest", TRUE))
      BY <1>1, <1>2, <2>1, Outcome DEF Done
    <3>2. Raises("rest", TRUE) => Fell
      BY <1>1, <1>2, <2>1, <3>1 DEF Raises, Fell, Falls, Sound, Remapping, Restoring
    <3>3. QED
      BY <3>1, <3>2
  <2>2. CASE Check("e_release", TRUE, Release(reg.hot), [own EXCEPT !.handles = @ \ {reg.hot}], "rest", "rest")
    <3>1. pc = "e_release" /\ (Done("rest") \/ Raises("rest", TRUE))
      BY <1>1, <1>2, <2>2, Outcome DEF Done
    <3>2. Raises("rest", TRUE) => Fell
      BY <1>1, <1>2, <2>2, <3>1 DEF Raises, Fell, Falls, Sound, Remapping, Restoring
    <3>3. QED
      BY <3>1, <3>2
  <2>3. QED
    BY <2>1, <2>2
<1>4. CASE Fell
  BY <1>4, Fallen
<1>5. CASE \/ pc = "p_unused" /\ Done("rest")
           \/ pc = "e_release" /\ Done("rest")
  <2>1. /\ drv' = Release(reg.hot)
        /\ own' = [own EXCEPT !.handles = @ \ {reg.hot}]
        /\ UNCHANGED <<layout, failures>> /\ reg' = (IF pc' = "rest" THEN NoLocals ELSE reg)
        /\ \/ pc = "p_unused" /\ pc' = "rest"
           \/ pc = "e_release" /\ pc' = "rest"
    BY <1>5 DEF Returns, Done
  <2>2. /\ IsDriver(drv') /\ InUseOf(own')
        /\ drv'.live = drv.live \ {reg.hot} /\ drv'.map = drv.map /\ drv'.access = drv.access
        /\ drv'.device = drv.device \ {reg.hot}
        /\ \A k \in drv.live : k # reg.hot => drv'.data[k] = drv.data[k]
        /\ own'.promoted = own.promoted /\ own'.chunk = own.chunk /\ own'.hot = own.hot
    BY <1>1, <1>2, <2>1, ReleaseSucceeds
  <2>3. pc' \in Later /\ reg' \in Locals
    BY <1>1, <2>1 DEF Later, Promoting, Chunking, Evicting, Locals, NoLocals, NoHandle
  <2>4. Typed' /\ Recorded' /\ Made' /\ InUse'
    BY <1>1, <2>1, <2>2, <2>3, StepTyped DEF InUseOf
  <2>5. Aside({reg.hot}, 0)
    BY <1>1, <1>2, <2>1, <2>2 DEF Aside, SameBacking
  <2>6. Backed' /\ AtHome' /\ Moved' /\ OnDevice' /\ Counted'
    BY <1>1, <2>1, <2>2, <2>5, KeptBelow DEF IsDriver
  <2>7. Regions' = Regions /\ Cold' = Cold
    BY <2>1 DEF Regions, Cold
  <2>8. Underway'
    BY <1>1, <1>2, <2>1, <2>2, <2>7 DEF Kept, Underway, Counted, MapsTo, Promoting, Chunking, Evicting
  <2>9. Reachable'
    BY <1>1, <1>2, <2>1, <2>2, <2>7 DEF Kept, Underway, Reachable, Readable, MapsTo, Promoting, Chunking, Evicting, Remapping, Restoring
  <2>10. Unharmed'
    BY <1>1, <1>2, <2>1, <2>2, <2>7 DEF Kept, Unharmed, Underway, Reachable, Counted, MapsTo, Promoting, Chunking, Evicting, Restoring
  <2>11. QED
    BY <2>4, <2>6, <2>8, <2>9, <2>10 DEF VmmInv, Kept
<1>6. QED
  BY <1>3, <1>4, <1>5

(* promote_chunk lets go of the host's handle that the chunk was made with.*)
LEMMA HomeReleased ==
  ASSUME LayoutsFit, VmmInv, InUse,
         Check("c_release", reg.region \in drv.live, Release(reg.region),
               [own EXCEPT !.handles = @ \ {reg.region}], "c_done", "rest")
  PROVE  VmmInv'
<1>1. /\ Typed /\ Recorded /\ Kept /\ failures \in Nat
      /\ own.mappings = drv.map /\ own.handles = drv.live /\ own.freed = FALSE /\ IsOwner(own)
      /\ drv.live \subseteq Nat /\ reg \in Locals
      /\ Cold \in Regions /\ Regions = 1..layout.regions /\ Cold = layout.regions /\ layout.regions \in Nat
      /\ layout.chunked \in BOOLEAN /\ own.chunk \in Nat /\ layout.hot \in Nat
  BY Situation
<1>2. pc = "c_release"
  BY DEF Check
<1>3. /\ reg.region \in Regions /\ reg.region \in Nat /\ layout.chunked /\ reg.region = own.chunk + 1
      /\ reg.hot > layout.regions /\ MapsTo(reg.region, reg.hot) /\ reg.hot \in drv.live
      /\ own.promoted = NoHandle /\ ~KeepHost /\ Readable(reg.region) /\ reg.region \in drv.live
      /\ reg.hot \in Nat
  BY <1>1, <1>2 DEF Kept, Underway, Counted, Reachable, AtHome, Promoting, Chunking, Evicting, Locals
<1>. DEFINE Done == Returns(Release(reg.region), [own EXCEPT !.handles = @ \ {reg.region}], "c_done")
<1>. HIDE DEF Done
<1>4. Done \/ (Raises("rest", reg.region \in drv.live) /\ reg.region \in drv.live)
  BY <1>1, <1>3 DEF Check, Done, Returns, Raises
<1>5. CASE Raises("rest", reg.region \in drv.live)
  <2>1. Fell
    BY <1>2, <1>3, <1>5 DEF Raises, Fell, Falls, Sound, Remapping, Restoring
  <2>2. QED
    BY <2>1, Fallen
<1>6. CASE Done
  <2>1. /\ drv' = Release(reg.region) /\ own' = [own EXCEPT !.handles = @ \ {reg.region}]
        /\ UNCHANGED <<layout, failures, reg>> /\ pc' = "c_done"
    BY <1>6 DEF Done, Returns
  <2>2. /\ IsDriver(drv') /\ InUseOf(own')
        /\ drv'.live = drv.live \ {reg.region} /\ drv'.map = drv.map /\ drv'.access = drv.access
        /\ drv'.device = drv.device \ {reg.region}
        /\ \A k \in drv.live : k # reg.region => drv'.data[k] = drv.data[k]
        /\ own'.promoted = own.promoted /\ own'.chunk = own.chunk /\ own'.hot = own.hot
    BY <1>1, <1>3, <2>1, ReleaseSucceeds
  <2>3. Typed' /\ Recorded' /\ Made' /\ InUse'
    BY <1>1, <2>1, <2>2, StepTyped DEF InUseOf, Later, Promoting, Chunking, Evicting
  <2>4. Regions' = Regions /\ Cold' = Cold
    BY <2>1 DEF Regions, Cold
  <2>5. Backed'
    <3>1. \A i \in Regions \cap DOMAIN drv.map : drv.map[i] # reg.region
      BY <1>1, <1>3 DEF Kept, Backed, MapsTo
    <3>2. QED
      BY <1>1, <2>1, <2>2, <2>4, <3>1 DEF Kept, Backed
  <2>6. AtHome'
    BY <1>1, <1>2, <1>3, <2>1, <2>2, <2>4 DEF Kept, AtHome
  <2>7. Moved' /\ OnDevice' /\ Counted'
    BY <1>1, <1>3, <2>1, <2>2, <2>4 DEF Kept, Moved, OnDevice, Counted
  <2>8. Underway'
    BY <1>1, <1>2, <1>3, <2>1, <2>2, <2>4 DEF Kept, Underway, MapsTo, Promoting, Chunking, Evicting
  <2>9. Reachable'
    BY <1>1, <1>2, <1>3, <2>1, <2>2, <2>4 DEF Kept, Reachable, Readable, Remapping, Restoring
  <2>10. Unharmed'
    BY <1>1, <1>2, <2>1, <2>2, <2>4 DEF Kept, Unharmed
  <2>11. QED
    BY <2>3, <2>5, <2>6, <2>7, <2>8, <2>9, <2>10 DEF VmmInv, Kept
<1>7. QED
  BY <1>4, <1>5, <1>6

(* An operation begins.                                                    *)
LEMMA Begun ==
  ASSUME LayoutsFit, VmmInv, InUse,
         \/ /\ ~layout.chunked /\ layout.hot < Cold /\ own.promoted = NoHandle
            /\ StartPromotion(Cold, "p_sync")
         \/ layout.chunked /\ own.chunk < layout.regions /\ StartPromotion(own.chunk + 1, "c_sync")
         \/ /\ pc = "rest" /\ ~own.freed /\ own.promoted # NoHandle /\ pc' = "e_sync"
            /\ reg' = [region |-> Cold, hot |-> own.promoted, temp |-> 0]
            /\ UNCHANGED <<layout, drv, own, failures>>
  PROVE  VmmInv'
<1>1. /\ Typed /\ Recorded /\ Kept /\ failures \in Nat
      /\ own.mappings = drv.map /\ own.handles = drv.live /\ own.freed = FALSE /\ IsOwner(own)
      /\ drv.live \subseteq Nat /\ IsDriver(drv)
      /\ Cold \in Regions /\ Regions = 1..layout.regions /\ Cold = layout.regions
      /\ layout.regions \in Nat \ {0}
      /\ layout.chunked \in BOOLEAN /\ own.chunk \in Nat /\ own.promoted \in Nat
  BY Situation
<1>2. /\ pc = "rest" /\ UNCHANGED <<layout, drv, own, failures>>
      /\ pc' \in {"p_sync", "c_sync", "e_sync"}
  BY DEF StartPromotion
<1>. DEFINE h == FreshFor(drv.live, layout.regions)
            t == FreshFor(drv.va \cup DOMAIN drv.map, layout.regions)
<1>3. h \in Nat /\ h > layout.regions /\ h \notin drv.live
  BY <1>1, FreshIsUnused DEF IsDriver
<1>4. t \in Nat /\ t > layout.regions
  <2>1. IsFiniteSet(drv.va \cup DOMAIN drv.map)
    BY <1>1, FS_Union DEF IsDriver
  <2>2. QED
    BY <1>1, <2>1, FreshIsUnused
<1>5. \/ /\ ~layout.chunked /\ layout.hot < Cold /\ own.promoted = NoHandle /\ pc' = "p_sync"
         /\ reg' = [region |-> Cold, hot |-> h, temp |-> t]
      \/ /\ layout.chunked /\ own.chunk < layout.regions /\ pc' = "c_sync"
         /\ reg' = [region |-> own.chunk + 1, hot |-> h, temp |-> t]
      \/ /\ own.promoted # NoHandle /\ pc' = "e_sync"
         /\ reg' = [region |-> Cold, hot |-> own.promoted, temp |-> 0]
  BY DEF StartPromotion
<1>. HIDE DEF h, t
<1>6. reg' \in Locals /\ pc' \in Later
  BY <1>1, <1>3, <1>4, <1>5 DEF Locals, Later, Promoting, Chunking, Evicting
<1>7. Typed' /\ Recorded' /\ Made' /\ InUse'
  BY <1>1, <1>2, <1>6, StepTyped
<1>8. Aside({}, 0)
  <2>1. 0 \notin Regions /\ \A i \in Regions : SameBacking(i)
    BY <1>1, <1>2 DEF SameBacking
  <2>2. QED
    BY <1>2, <2>1, NothingMoves
<1>9. Backed' /\ AtHome' /\ Moved' /\ OnDevice' /\ Counted'
  BY <1>1, <1>2, <1>8, KeptBelow
<1>10. Regions' = Regions /\ Cold' = Cold
  BY <1>2 DEF Regions, Cold
<1>11. Underway'
  <2>1. \A i \in Regions : ~MapsTo(i, h)
    BY <1>1, <1>3 DEF Kept, Backed, MapsTo
  <2>2. CASE pc' = "p_sync"
    BY <1>1, <1>2, <1>3, <1>4, <1>5, <1>10, <2>1, <2>2 DEF Underway, MapsTo, Promoting, Chunking, Evicting
  <2>3. CASE pc' = "c_sync"
    BY <1>1, <1>2, <1>3, <1>4, <1>5, <1>10, <2>1, <2>3 DEF Underway, MapsTo, Promoting, Chunking, Evicting
  <2>4. CASE pc' = "e_sync"
    BY <1>1, <1>2, <1>5, <1>10, <2>4 DEF Kept, Counted, Underway, MapsTo, Promoting, Chunking, Evicting
  <2>5. QED
    BY <1>2, <2>2, <2>3, <2>4
<1>12. Reachable'
  BY <1>1, <1>2, <1>10 DEF Kept, Reachable, Readable, Remapping, Restoring
<1>13. Unharmed'
  BY <1>1, <1>2, <1>10 DEF Kept, Unharmed
<1>14. QED
  BY <1>7, <1>9, <1>11, <1>12, <1>13 DEF VmmInv, Kept

LEMMA OwnerChanged ==
  ASSUME IsOwner(own), NEW p \in Nat, NEW c \in Nat, NEW h \in Int,
         own' = [handles |-> own.handles, mappings |-> own.mappings, promoted |-> p, chunk |-> c,
                 hot |-> h, freed |-> own.freed]
  PROVE  /\ IsOwner(own') /\ own'.mappings = own.mappings /\ own'.handles = own.handles
         /\ own'.freed = own.freed /\ own'.promoted = p /\ own'.chunk = c /\ own'.hot = h
  BY DEF IsOwner

(* An operation has done what it was for, and its bookkeeping follows.     *)
LEMMA Booked ==
  ASSUME LayoutsFit, VmmInv, InUse,
         \/ /\ pc = "p_done" /\ pc' = "p_finally"
            /\ own' = [own EXCEPT !.promoted = reg.hot, !.hot = @ + 1]
            /\ UNCHANGED <<layout, drv, reg, failures>>
         \/ /\ pc = "c_done" /\ pc' = "rest" /\ own' = [own EXCEPT !.chunk = @ + 1, !.hot = @ + 1]
            /\ reg' = NoLocals /\ UNCHANGED <<layout, drv, failures>>
         \/ /\ pc = "e_done" /\ pc' = "e_release" /\ own' = [own EXCEPT !.promoted = NoHandle, !.hot = @ - 1]
            /\ UNCHANGED <<layout, drv, reg, failures>>
  PROVE  VmmInv'
<1>1. /\ Typed /\ Recorded /\ Kept /\ failures \in Nat
      /\ own.mappings = drv.map /\ own.handles = drv.live /\ own.freed = FALSE /\ IsOwner(own)
      /\ drv.live \subseteq Nat /\ IsDriver(drv) /\ reg \in Locals
      /\ Cold \in Regions /\ Regions = 1..layout.regions /\ Cold = layout.regions
      /\ layout.regions \in Nat \ {0} /\ layout.hot \in Nat
      /\ layout.chunked \in BOOLEAN /\ own.chunk \in Nat /\ own.promoted \in Nat
  BY Situation
<1>2. /\ UNCHANGED <<layout, drv, failures>> /\ reg' \in Locals /\ pc' \in Later
      /\ Regions' = Regions /\ Cold' = Cold
  BY <1>1 DEF Regions, Cold, Locals, NoLocals, NoHandle, Later, Promoting, Chunking, Evicting
<1>3. /\ IsOwner(own') /\ own'.mappings = drv.map /\ own'.handles = drv.live /\ own'.freed = FALSE
      /\ \/ /\ pc = "p_done" /\ pc' = "p_finally" /\ UNCHANGED reg
            /\ own'.promoted = reg.hot /\ own'.hot = own.hot + 1 /\ own'.chunk = own.chunk
         \/ /\ pc = "c_done" /\ pc' = "rest"
            /\ own'.promoted = own.promoted /\ own'.hot = own.hot + 1 /\ own'.chunk = own.chunk + 1
         \/ /\ pc = "e_done" /\ pc' = "e_release" /\ UNCHANGED reg
            /\ own'.promoted = NoHandle /\ own'.hot = own.hot - 1 /\ own'.chunk = own.chunk
  <2>1. CASE /\ pc = "p_done" /\ pc' = "p_finally" /\ own' = [own EXCEPT !.promoted = reg.hot, !.hot = @ + 1]
             /\ UNCHANGED <<layout, drv, reg, failures>>
    <3>1. own' = [handles |-> own.handles, mappings |-> own.mappings, promoted |-> reg.hot, chunk |-> own.chunk,
                     hot |-> own.hot + 1, freed |-> own.freed]
      BY <1>1, <2>1 DEF IsOwner, Locals
    <3>2. reg.hot \in Nat /\ own.chunk \in Nat /\ own.hot + 1 \in Int
      BY <1>1 DEF IsOwner, Locals, NoHandle
    <3>3. QED
      BY <1>1, <2>1, <3>1, <3>2, OwnerChanged
  <2>2. CASE /\ pc = "c_done" /\ pc' = "rest" /\ own' = [own EXCEPT !.chunk = @ + 1, !.hot = @ + 1]
             /\ reg' = NoLocals /\ UNCHANGED <<layout, drv, failures>>
    <3>1. own' = [handles |-> own.handles, mappings |-> own.mappings, promoted |-> own.promoted, chunk |-> own.chunk + 1,
                     hot |-> own.hot + 1, freed |-> own.freed]
      BY <1>1, <2>2 DEF IsOwner, Locals
    <3>2. own.promoted \in Nat /\ own.chunk + 1 \in Nat /\ own.hot + 1 \in Int
      BY <1>1 DEF IsOwner, Locals, NoHandle
    <3>3. QED
      BY <1>1, <2>2, <3>1, <3>2, OwnerChanged
  <2>3. CASE /\ pc = "e_done" /\ pc' = "e_release" /\ own' = [own EXCEPT !.promoted = NoHandle, !.hot = @ - 1]
             /\ UNCHANGED <<layout, drv, reg, failures>>
    <3>1. own' = [handles |-> own.handles, mappings |-> own.mappings, promoted |-> NoHandle, chunk |-> own.chunk,
                     hot |-> own.hot - 1, freed |-> own.freed]
      BY <1>1, <2>3 DEF IsOwner, Locals
    <3>2. NoHandle \in Nat /\ own.chunk \in Nat /\ own.hot - 1 \in Int
      BY <1>1 DEF IsOwner, Locals, NoHandle
    <3>3. QED
      BY <1>1, <2>3, <3>1, <3>2, OwnerChanged
  <2>4. QED
    BY <2>1, <2>2, <2>3
<1>4. Typed' /\ Recorded' /\ Made' /\ InUse'
  BY <1>1, <1>2, <1>3, StepTyped
<1>5. Backed' /\ OnDevice'
  BY <1>1, <1>2 DEF Kept, Backed, OnDevice
<1>6. CASE pc = "p_done"
  <2>1. AtHome' /\ Moved' /\ Counted'
    BY <1>1, <1>2, <1>3, <1>6 DEF Kept, AtHome, Moved, Counted, Underway, MapsTo, Promoting, NoHandle, Locals, IsOwner
  <2>2. Underway'
    BY <1>1, <1>2, <1>3, <1>6 DEF Kept, Underway, MapsTo, Promoting, Chunking, Evicting
  <2>3. Reachable' /\ Unharmed'
    BY <1>1, <1>2, <1>3, <1>6 DEF Kept, Underway, MapsTo, Reachable, Unharmed, Readable, Promoting, Remapping, Restoring, NoHandle
  <2>4. QED
    BY <1>4, <1>5, <2>1, <2>2, <2>3 DEF VmmInv, Kept
<1>7. CASE pc = "c_done"
  <2>a. /\ layout.chunked /\ reg.region = own.chunk + 1 /\ reg.region \in Regions
        /\ reg.hot > layout.regions /\ MapsTo(reg.region, reg.hot) /\ own.promoted = NoHandle
    BY <1>1, <1>7 DEF Kept, Underway, Counted, Chunking
  <2>b. /\ own'.promoted = own.promoted /\ own'.hot = own.hot + 1 /\ own'.chunk = own.chunk + 1 /\ pc' = "rest"
    BY <1>3, <1>7
  <2>c. AtHome'
    BY <1>1, <1>2, <1>7, <2>a, <2>b DEF Kept, AtHome
  <2>d. Moved'
    BY <1>1, <1>2, <2>a, <2>b DEF Kept, Moved, MapsTo
  <2>e. Counted'
    BY <1>1, <1>2, <2>a, <2>b DEF Kept, Counted, IsOwner
  <2>1. AtHome' /\ Moved' /\ Counted'
    BY <2>c, <2>d, <2>e
  <2>2. Underway'
    BY <1>1, <1>2, <1>3, <1>7 DEF Kept, Underway, MapsTo, Promoting, Chunking, Evicting
  <2>3. Reachable' /\ Unharmed'
    BY <1>1, <1>2, <1>3, <1>7 DEF Kept, Underway, MapsTo, Reachable, Unharmed, Readable, Chunking, Remapping, Restoring, NoHandle
  <2>4. QED
    BY <1>4, <1>5, <2>1, <2>2, <2>3 DEF VmmInv, Kept
<1>8. CASE pc = "e_done"
  <2>1. AtHome' /\ Moved' /\ Counted'
    BY <1>1, <1>2, <1>3, <1>8 DEF Kept, AtHome, Moved, Counted, Underway, MapsTo, Evicting, NoHandle, Locals, IsOwner
  <2>2. Underway'
    BY <1>1, <1>2, <1>3, <1>8 DEF Kept, Underway, MapsTo, Promoting, Chunking, Evicting
  <2>3. Reachable' /\ Unharmed'
    BY <1>1, <1>2, <1>3, <1>8 DEF Kept, Underway, MapsTo, Reachable, Unharmed, Readable, Evicting, Remapping, Restoring, NoHandle
  <2>4. QED
    BY <1>4, <1>5, <2>1, <2>2, <2>3 DEF VmmInv, Kept
<1>9. QED
  BY <1>3, <1>6, <1>7, <1>8

(* The steps that only pass on, one lemma for calls that can always work   *)
(* and one for those without a call.                                       *)
LEMMA PassedOn ==
  ASSUME LayoutsFit, VmmInv, InUse, NEW here, NEW then, NEW raised, NEW driver,
         Check(here, TRUE, driver, own, then, raised),
         IsDriver(driver), driver.live = drv.live, driver.map = drv.map, driver.access = drv.access,
         driver.data = drv.data, driver.device = drv.device,
         pc' = then => Passes, pc' = raised => Falls
  PROVE  VmmInv'
<1>1. failures \in Nat /\ IsDriver(drv)
  BY Situation
<1>2. pc = here /\ (Returns(driver, own, then) \/ Raises(raised, TRUE))
  BY <1>1, Outcome
<1>3. CASE Returns(driver, own, then)
  <2>1. /\ layout' = layout /\ own' = own /\ IsDriver(drv') /\ drv'.live = drv.live /\ drv'.map = drv.map
        /\ drv'.access = drv.access /\ drv'.data = drv.data /\ drv'.device = drv.device
        /\ reg' = (IF pc' = "rest" THEN NoLocals ELSE reg) /\ failures' = failures /\ Passes
    BY <1>3 DEF Returns
  <2>2. QED
    BY <2>1, QuietStep
<1>4. CASE Raises(raised, TRUE)
  <2>1. Fell
    BY <1>4 DEF Raises, Fell
  <2>2. QED
    BY <2>1, Fallen
<1>5. QED
  BY <1>2, <1>3, <1>4

LEMMA WentOn ==
  ASSUME LayoutsFit, VmmInv, InUse, NEW here, NEW cond, NEW then, Go(here, cond, then), Passes
  PROVE  VmmInv'
<1>1. IsDriver(drv)
  BY Situation
<1>2. /\ layout' = layout /\ own' = own /\ drv' = drv /\ failures' = failures
      /\ reg' = (IF pc' = "rest" THEN NoLocals ELSE reg)
  BY DEF Go
<1>3. QED
  BY <1>1, <1>2, QuietStep

LEMMA ReservationIsQuiet ==
  ASSUME Typed, NEW a \in Nat, NEW d, d = Reserve(a) \/ d = AddressFree(a)
  PROVE  /\ IsDriver(d) /\ d.live = drv.live /\ d.map = drv.map /\ d.access = drv.access
         /\ d.data = drv.data /\ d.device = drv.device
<1>1. CASE d = Reserve(a)
  BY <1>1, ReserveDoes
<1>2. CASE d = AddressFree(a)
  BY <1>2, AddressFreeDoes
<1>3. QED
  BY <1>1, <1>2

LEMMA PromotionStep ==
  ASSUME LayoutsFit, VmmInv, InUse, promote_up_to
  PROVE  VmmInv'
<1>1. /\ Typed /\ IsDriver(drv) /\ own.mappings = drv.map /\ reg.temp \in Nat
  BY Situation DEF Locals
<1>2. CASE ~layout.chunked /\ layout.hot < Cold /\ own.promoted = NoHandle /\ StartPromotion(Cold, "p_sync")
  BY <1>2, Begun
<1>3. CASE Quiesce("p_sync", "p_create", "rest")
  <2>1. Check("p_sync", TRUE, drv, own, "p_create", "rest")
    BY <1>3 DEF Quiesce
  <2>2. (pc' = "p_create" => Passes) /\ (pc' = "rest" => Falls)
    BY <2>1 DEF Check, Passes, Falls
  <2>3. QED
    BY <1>1, <2>1, <2>2, PassedOn
<1>4. CASE CreateHot("p_create", "p_reserve")
  BY <1>4, HotCreated
<1>5. CASE Check("p_reserve", TRUE, Reserve(reg.temp), own, "p_temp", "p_unused")
  <2>1. (pc' = "p_temp" => Passes) /\ (pc' = "p_unused" => Falls)
    BY <1>5 DEF Check, Passes, Falls
  <2>2. QED
    BY <1>1, <1>5, <2>1, PassedOn, ReservationIsQuiet
<1>6. CASE _map("p_temp", reg.temp, reg.hot, "p_temp_access", "p_finally")
  BY <1>6, TempMapped
<1>7. CASE Access("p_temp_access", reg.temp, "p_copy", "p_finally")
  BY <1>7, TempAccessed
<1>8. CASE Copy("p_copy", "p_copied", "p_finally")
  BY <1>8, Copied
<1>9. CASE Quiesce("p_copied", "p_unmap", "p_finally")
  <2>1. Check("p_copied", TRUE, drv, own, "p_unmap", "p_finally")
    BY <1>9 DEF Quiesce
  <2>2. (pc' = "p_unmap" => Passes) /\ (pc' = "p_finally" => Falls)
    BY <2>1 DEF Check, Passes, Falls
  <2>3. QED
    BY <1>1, <2>1, <2>2, PassedOn
<1>10. CASE _unmap("p_unmap", reg.region, "p_map", "p_finally")
  BY <1>10, RegionUnmapped
<1>11. CASE _map("p_map", reg.region, reg.hot, "p_access", FallbackToCold)
  BY <1>11, RegionMapped
<1>12. CASE Access("p_access", reg.region, "p_done", FallbackToCold)
  BY <1>12, RegionAccessed
<1>13. CASE /\ pc = "p_done" /\ pc' = "p_finally"
            /\ own' = [own EXCEPT !.promoted = reg.hot, !.hot = @ + 1]
            /\ UNCHANGED <<layout, drv, reg, failures>>
  BY <1>13, Booked
<1>14. CASE Go("p_fallback", reg.region \notin DOMAIN own.mappings, "p_back")
  <2>1. Passes
    BY <1>1, <1>14 DEF Go, Passes
  <2>2. QED
    BY <1>14, <2>1, WentOn
<1>15. CASE reg.region \in DOMAIN own.mappings /\ _unmap("p_fallback", reg.region, "p_back", "p_finally")
  BY <1>15, RegionUnmapped
<1>16. CASE _map("p_back", reg.region, reg.region, "p_back_access", "p_finally")
  BY <1>16, RegionMapped
<1>17. CASE Access("p_back_access", reg.region, "p_finally", "p_finally")
  BY <1>17, RegionAccessed
<1>18. CASE Go("p_finally", reg.temp \notin DOMAIN own.mappings, "p_va")
  <2>1. Passes
    BY <1>18 DEF Go, Passes
  <2>2. QED
    BY <1>18, <2>1, WentOn
<1>19. CASE reg.temp \in DOMAIN own.mappings /\ _unmap("p_finally", reg.temp, "p_va", "rest")
  BY <1>19, TempUnmapped
<1>20. CASE Check("p_va", TRUE, AddressFree(reg.temp), own, "p_unused", "rest")
  <2>1. (pc' = "p_unused" => Passes) /\ (pc' = "rest" => Falls)
    BY <1>20 DEF Check, Passes, Falls
  <2>2. QED
    BY <1>1, <1>20, <2>1, PassedOn, ReservationIsQuiet
<1>21. CASE Go("p_unused", reg.hot \in Range(own.mappings), "rest")
  <2>1. Passes
    BY <1>21 DEF Go, Passes
  <2>2. QED
    BY <1>21, <2>1, WentOn
<1>22. CASE /\ reg.hot \notin Range(own.mappings)
            /\ Check("p_unused", TRUE, Release(reg.hot), [own EXCEPT !.handles = @ \ {reg.hot}], "rest", "rest")
  BY <1>22, HotReleased
<1>23. QED
  BY <1>2, <1>3, <1>4, <1>5, <1>6, <1>7, <1>8, <1>9, <1>10, <1>11, <1>12, <1>13, <1>14, <1>15,
     <1>16, <1>17, <1>18, <1>19, <1>20, <1>21, <1>22 DEF promote_up_to, StayUnmapped

LEMMA ChunkStep ==
  ASSUME LayoutsFit, VmmInv, InUse, promote_chunk
  PROVE  VmmInv'
<1>1. /\ Typed /\ IsDriver(drv) /\ own.mappings = drv.map /\ reg.temp \in Nat
  BY Situation DEF Locals
<1>2. CASE layout.chunked /\ own.chunk < layout.regions /\ StartPromotion(own.chunk + 1, "c_sync")
  BY <1>2, Begun
<1>3. CASE Quiesce("c_sync", "c_create", "rest")
  <2>1. Check("c_sync", TRUE, drv, own, "c_create", "rest")
    BY <1>3 DEF Quiesce
  <2>2. (pc' = "c_create" => Passes) /\ (pc' = "rest" => Falls)
    BY <2>1 DEF Check, Passes, Falls
  <2>3. QED
    BY <1>1, <2>1, <2>2, PassedOn
<1>4. CASE CreateHot("c_create", "c_reserve")
  BY <1>4, HotCreated
<1>5. CASE Check("c_reserve", TRUE, Reserve(reg.temp), own, "c_temp", "rest")
  <2>1. (pc' = "c_temp" => Passes) /\ (pc' = "rest" => Falls)
    BY <1>5 DEF Check, Passes, Falls
  <2>2. QED
    BY <1>1, <1>5, <2>1, PassedOn, ReservationIsQuiet
<1>6. CASE _map("c_temp", reg.temp, reg.hot, "c_temp_access", "c_raised")
  BY <1>6, TempMapped
<1>7. CASE Access("c_temp_access", reg.temp, "c_copy", "c_raised")
  BY <1>7, TempAccessed
<1>8. CASE Copy("c_copy", "c_copied", "c_raised")
  BY <1>8, Copied
<1>9. CASE Quiesce("c_copied", "c_temp_unmap", "c_raised")
  <2>1. Check("c_copied", TRUE, drv, own, "c_temp_unmap", "c_raised")
    BY <1>9 DEF Quiesce
  <2>2. (pc' = "c_temp_unmap" => Passes) /\ (pc' = "c_raised" => Falls)
    BY <2>1 DEF Check, Passes, Falls
  <2>3. QED
    BY <1>1, <2>1, <2>2, PassedOn
<1>10. CASE _unmap("c_temp_unmap", reg.temp, "c_unmap", "c_raised")
  BY <1>10, TempUnmapped
<1>11. CASE _unmap("c_unmap", reg.region, "c_map", "c_raised")
  BY <1>11, RegionUnmapped
<1>12. CASE _map("c_map", reg.region, reg.hot, "c_access", "c_raised")
  BY <1>12, RegionMapped
<1>13. CASE Access("c_access", reg.region, "c_va", "c_raised")
  BY <1>13, RegionAccessed
<1>14. CASE Check("c_va", TRUE, AddressFree(reg.temp), own, IF KeepHost THEN "c_done" ELSE "c_release", "rest")
  <2>1. /\ pc' = (IF KeepHost THEN "c_done" ELSE "c_release") => Passes
        /\ pc' = "rest" => Falls
    BY <1>14 DEF Check, Passes, Falls
  <2>2. QED
    BY <1>1, <1>14, <2>1, PassedOn, ReservationIsQuiet
<1>15. CASE Go("c_raised", reg.temp \notin DOMAIN own.mappings, "c_raised_va")
  <2>1. Passes
    BY <1>15 DEF Go, Passes
  <2>2. QED
    BY <1>15, <2>1, WentOn
<1>16. CASE reg.temp \in DOMAIN own.mappings /\ _unmap("c_raised", reg.temp, "c_raised_va", "rest")
  BY <1>16, TempUnmapped
<1>17. CASE Check("c_raised_va", TRUE, AddressFree(reg.temp), own, "rest", "rest")
  <2>1. pc' = "rest" => Passes /\ Falls
    BY <1>17 DEF Check, Passes, Falls
  <2>2. QED
    BY <1>1, <1>17, <2>1, PassedOn, ReservationIsQuiet
<1>18. CASE Check("c_release", reg.region \in drv.live, Release(reg.region),
                  [own EXCEPT !.handles = @ \ {reg.region}], "c_done", "rest")
  BY <1>18, HomeReleased
<1>19. CASE /\ pc = "c_done" /\ pc' = "rest" /\ own' = [own EXCEPT !.chunk = @ + 1, !.hot = @ + 1]
            /\ reg' = NoLocals /\ UNCHANGED <<layout, drv, failures>>
  BY <1>19, Booked
<1>20. QED
  BY <1>2, <1>3, <1>4, <1>5, <1>6, <1>7, <1>8, <1>9, <1>10, <1>11, <1>12, <1>13, <1>14, <1>15,
     <1>16, <1>17, <1>18, <1>19 DEF promote_chunk

LEMMA EvictionStep ==
  ASSUME LayoutsFit, VmmInv, InUse, evict_promoted
  PROVE  VmmInv'
<1>1. /\ Typed /\ Kept /\ IsDriver(drv) /\ own.mappings = drv.map
  BY Situation
<1>2. CASE /\ pc = "rest" /\ ~own.freed /\ own.promoted # NoHandle /\ pc' = "e_sync"
           /\ reg' = [region |-> Cold, hot |-> own.promoted, temp |-> 0]
           /\ UNCHANGED <<layout, drv, own, failures>>
  BY <1>2, Begun
<1>3. CASE Quiesce("e_sync", "e_unmap", "rest")
  <2>1. Check("e_sync", TRUE, drv, own, "e_unmap", "rest")
    BY <1>3 DEF Quiesce
  <2>2. (pc' = "e_unmap" => Passes) /\ (pc' = "rest" => Falls)
    BY <2>1 DEF Check, Passes, Falls
  <2>3. QED
    BY <1>1, <2>1, <2>2, PassedOn
<1>4. CASE _unmap("e_unmap", Cold, "e_map", "rest")
  BY <1>4, RegionUnmapped
<1>5. CASE _map("e_map", Cold, reg.region, "e_access", "e_fallback")
  BY <1>5, RegionMapped
<1>6. CASE Access("e_access", Cold, "e_done", "e_fallback")
  BY <1>6, RegionAccessed
<1>7. CASE Go("e_fallback", Cold \notin DOMAIN own.mappings, "e_back")
  <2>1. pc = "e_fallback" => reg.region = Cold
    BY <1>1 DEF Kept, Underway, Evicting
  <2>2. Passes
    BY <1>1, <1>7, <2>1 DEF Go, Passes
  <2>3. QED
    BY <1>7, <2>2, WentOn
<1>8. CASE Cold \in DOMAIN own.mappings /\ _unmap("e_fallback", Cold, "e_back", "rest")
  BY <1>8, RegionUnmapped
<1>9. CASE _map("e_back", Cold, reg.hot, "e_back_access", "rest")
  BY <1>9, RegionMapped
<1>10. CASE Access("e_back_access", Cold, "rest", "rest")
  BY <1>10, RegionAccessed
<1>11. CASE /\ pc = "e_done" /\ pc' = "e_release" /\ own' = [own EXCEPT !.promoted = NoHandle, !.hot = @ - 1]
            /\ UNCHANGED <<layout, drv, reg, failures>>
  BY <1>11, Booked
<1>12. CASE Check("e_release", TRUE, Release(reg.hot), [own EXCEPT !.handles = @ \ {reg.hot}], "rest", "rest")
  BY <1>12, HotReleased
<1>13. QED
  BY <1>2, <1>3, <1>4, <1>5, <1>6, <1>7, <1>8, <1>9, <1>10, <1>11, <1>12 DEF evict_promoted

-----------------------------------------------------------------------------
(* The constructor.                                                        *)
LEMMA VmmInit ==
  ASSUME LayoutsFit, Init
  PROVE  VmmInv
<1>1. drv = [live |-> {}, map |-> [a \in {} |-> 0], access |-> {}, va |-> {},
             data |-> [h \in {} |-> 0], device |-> {}]
  BY DEF Init, NewDriver
<1>2. [a \in {} |-> 0] \in Maps
  BY DEF Maps
<1>3. IsDriver(drv)
  BY <1>1, <1>2, FS_EmptySet DEF IsDriver
<1>4. own = [handles |-> {}, mappings |-> [a \in {} |-> 0], promoted |-> 0,
             chunk |-> 0, hot |-> layout.hot, freed |-> FALSE]
  BY DEF Init, NewOwner, NoHandle
<1>5. layout.regions \in Nat \ {0} /\ layout.hot \in Nat /\ Regions = 1..layout.regions
  BY LayoutKnown DEF Init
<1>6. Typed
  <2>1. IsOwner(own)
    BY <1>2, <1>4, <1>5 DEF IsOwner
  <2>2. reg \in Locals
    BY DEF Init, Locals, NoLocals, NoHandle
  <2>3. QED
    BY <1>3, <2>1, <2>2 DEF Init, Typed, Making
<1>7. Recorded
  BY <1>1, <1>4 DEF Init, Recorded, Making
<1>8. Made
  BY <1>1, <1>4, <1>5 DEF Init, Made, Making, NoLocals, NoHandle
<1>9. ~InUse
  BY DEF Init, InUse, Later, Promoting, Chunking, Evicting
<1>10. QED
  BY <1>6, <1>7, <1>8, <1>9 DEF VmmInv

LEMMA MakingKnown ==
  ASSUME LayoutsFit, VmmInv, pc \in Making
  PROVE  /\ Typed /\ Recorded /\ Made /\ IsDriver(drv) /\ IsOwner(own)
         /\ layout \in Layouts /\ reg \in Locals /\ failures \in Nat
         /\ drv.live \subseteq Nat /\ own.mappings = drv.map /\ own.freed = FALSE
         /\ own.promoted = NoHandle /\ own.chunk = 0 /\ own.hot = layout.hot
         /\ layout.regions \in Nat \ {0} /\ layout.hot \in Nat /\ layout.chunked \in BOOLEAN
         /\ Regions = 1..layout.regions /\ Regions \subseteq Nat
  BY LayoutKnown DEF VmmInv, Typed, IsDriver, IsOwner, Recorded, Made

(* A step inside the constructor.                                          *)
LEMMA StillMaking ==
  ASSUME LayoutsFit, VmmInv, pc \in Making, pc' \in Making, layout' = layout, reg' \in Locals,
         failures' \in Nat, IsDriver(drv'), IsOwner(own'), own'.mappings = drv'.map,
         own'.freed = own.freed, Made'
  PROVE  VmmInv'
<1>1. Typed'
  BY MakingKnown DEF Typed
<1>2. Recorded'
  BY MakingKnown DEF Recorded, Making
<1>3. ~InUse'
  BY DEF InUse, Making, Later, Promoting, Chunking, Evicting
<1>4. QED
  BY <1>1, <1>2, <1>3 DEF VmmInv

(* An error leaves what was created to nobody.                             *)
LEMMA ConstructionRaises ==
  ASSUME LayoutsFit, VmmInv, pc \in Making, pc' = "raised", layout' = layout, reg' = reg,
         failures' \in {failures, failures + 1}, drv' = drv, own' = own
  PROVE  VmmInv'
<1>1. Made'
  BY MakingKnown DEF Made, Making, Regions
<1>2. IsDriver(drv) /\ IsOwner(own) /\ own.mappings = drv.map /\ reg \in Locals /\ failures \in Nat
  BY MakingKnown
<1>3. IsDriver(drv') /\ IsOwner(own') /\ own'.mappings = drv'.map /\ own'.freed = own.freed
  BY <1>2
<1>4. reg' \in Locals /\ failures' \in Nat /\ pc' \in Making
  BY <1>2 DEF Making
<1>5. QED
  BY <1>1, <1>3, <1>4, StillMaking

LEMMA LoopOutcome ==
  ASSUME NEW here, NEW can \in BOOLEAN, NEW driver, NEW owner, NEW then,
         failures \in Nat, Loop(here, can, driver, owner, then)
  PROVE  /\ pc = here /\ layout' = layout
         /\ \/ /\ can /\ drv' = driver /\ own' = owner /\ failures' = failures
               /\ IF reg.region < layout.regions
                  THEN pc' = here /\ reg' = [reg EXCEPT !.region = @ + 1]
                  ELSE pc' = then /\ reg' = [reg EXCEPT !.region = 1]
            \/ /\ pc' = "raised" /\ failures' \in {failures, failures + 1}
               /\ drv' = drv /\ own' = own /\ reg' = reg
  BY DEF Loop

(* The counter of a loop that goes on, and of one that ends.               *)
LEMMA Counter ==
  ASSUME reg \in Locals, NEW N \in Nat, reg.region \in 1..N
  PROVE  /\ reg.region < N => /\ [reg EXCEPT !.region = @ + 1] \in Locals
                              /\ [reg EXCEPT !.region = @ + 1].region = reg.region + 1
                              /\ reg.region + 1 \in 1..N
         /\ [reg EXCEPT !.region = 1] \in Locals /\ [reg EXCEPT !.region = 1].region = 1
         /\ ~(reg.region < N) => reg.region = N
         /\ 1..(reg.region - 1) \cup {reg.region} = 1..reg.region
  BY DEF Locals

LEMMA HandleCreated ==
  ASSUME LayoutsFit, VmmInv,
         Loop("create", TRUE,
              Create(reg.region, IF reg.region <= layout.hot THEN "device" ELSE "host"), own, "reserve")
  PROVE  VmmInv'
<1>. DEFINE r == reg.region
            driver == Create(r, IF r <= layout.hot THEN "device" ELSE "host")
<1>1. failures \in Nat
  BY DEF VmmInv, Typed
<1>2. /\ pc = "create" /\ layout' = layout
      /\ \/ /\ drv' = driver /\ own' = own /\ failures' = failures
            /\ IF reg.region < layout.regions
               THEN pc' = "create" /\ reg' = [reg EXCEPT !.region = @ + 1]
               ELSE pc' = "reserve" /\ reg' = [reg EXCEPT !.region = 1]
         \/ /\ pc' = "raised" /\ failures' \in {failures, failures + 1}
            /\ drv' = drv /\ own' = own /\ reg' = reg
  <2>. HIDE DEF driver
  <2>1. Loop("create", TRUE, driver, own, "reserve")
    BY DEF driver
  <2>2. QED
    BY <1>1, <2>1, LoopOutcome
<1>3. pc \in Making
  BY <1>2 DEF Making
<1>4. CASE pc' = "raised"
  BY <1>2, <1>3, <1>4, ConstructionRaises
<1>5. ASSUME drv' = driver, own' = own, failures' = failures,
             IF reg.region < layout.regions
             THEN pc' = "create" /\ reg' = [reg EXCEPT !.region = @ + 1]
             ELSE pc' = "reserve" /\ reg' = [reg EXCEPT !.region = 1]
      PROVE  VmmInv'
  <2>1. /\ Typed /\ Made /\ reg \in Locals /\ own.mappings = drv.map /\ layout.hot \in Nat
        /\ layout.regions \in Nat /\ Regions = 1..layout.regions /\ IsOwner(own)
        /\ Regions' = Regions
    BY <1>2, <1>3, MakingKnown DEF Regions
  <2>2. /\ r \in Regions /\ drv.live = 1..(r - 1) /\ drv.device = {h \in drv.live : h <= layout.hot}
        /\ DOMAIN drv.map = {} /\ own.handles = {}
    BY <1>2, <2>1 DEF Made
  <2>3. /\ IsDriver(drv') /\ drv'.live = drv.live \cup {r} /\ drv'.map = drv.map
        /\ drv'.device = IF r <= layout.hot THEN drv.device \cup {r} ELSE drv.device \ {r}
    <3>1. r \in Nat
      BY <2>1, <2>2
    <3>2. CASE r <= layout.hot
      BY <1>5, <2>1, <3>1, <3>2, CreateDoes
    <3>3. CASE ~(r <= layout.hot)
      BY <1>5, <2>1, <3>1, <3>3, CreateDoes
    <3>4. QED
      BY <3>2, <3>3
  <2>4. drv'.live = 1..r
    BY <2>1, <2>2, <2>3, Counter
  <2>5. drv'.device = {h \in drv'.live : h <= layout.hot}
    BY <2>2, <2>3
  <2>6. /\ reg' \in Locals
        /\ pc' = "create" => reg'.region \in Regions /\ drv'.live = 1..(reg'.region - 1)
        /\ pc' = "reserve" => drv'.live = Regions /\ reg'.region = 1
    <3>1. CASE r < layout.regions
      <4>1. /\ [reg EXCEPT !.region = @ + 1] \in Locals /\ [reg EXCEPT !.region = @ + 1].region = r + 1
            /\ r + 1 \in 1..layout.regions
        BY <2>1, <2>2, <3>1, Counter
      <4>2. QED
        <5>1. reg' = [reg EXCEPT !.region = @ + 1] /\ pc' = "create"
          BY <1>5, <3>1
        <5>2. reg' \in Locals /\ reg'.region = r + 1
          BY <4>1, <5>1, Zenon
        <5>3. (r + 1) - 1 = r
          BY <2>1, <2>2
        <5>4. QED
          BY <2>1, <2>4, <4>1, <5>1, <5>2, <5>3
    <3>2. CASE ~(r < layout.regions)
      <4>1. [reg EXCEPT !.region = 1] \in Locals /\ [reg EXCEPT !.region = 1].region = 1 /\ r = layout.regions
        BY <2>1, <2>2, <3>2, Counter
      <4>2. reg' = [reg EXCEPT !.region = 1] /\ pc' = "reserve"
        BY <1>5, <3>2
      <4>3. reg' \in Locals /\ reg'.region = 1
        BY <4>1, <4>2, Zenon
      <4>4. QED
        BY <2>1, <2>4, <4>1, <4>2, <4>3
    <3>3. QED
      BY <3>1, <3>2
  <2>7. pc' \in {"create", "reserve"}
    BY <1>5
  <2>8. Made'
    BY <1>2, <1>3, <1>5, <2>1, <2>2, <2>3, <2>5, <2>6, <2>7 DEF Made
  <2>9. QED
    BY <1>2, <1>3, <1>1, <1>5, <2>1, <2>3, <2>6, <2>7, <2>8, StillMaking DEF Making
<1>6. QED
  BY <1>2, <1>4, <1>5

LEMMA RangeReserved ==
  ASSUME LayoutsFit, VmmInv, Check("reserve", TRUE, Reserve(0), own, "map", "raised")
  PROVE  VmmInv'
<1>. DEFINE driver == Reserve(0)
<1>1. failures \in Nat
  BY DEF VmmInv, Typed
<1>2. /\ pc = "reserve"
      /\ (Returns(driver, own, "map") \/ Raises("raised", TRUE))
  <2>. HIDE DEF driver
  <2>1. Check("reserve", TRUE, driver, own, "map", "raised")
    BY DEF driver
  <2>2. QED
    BY <1>1, <2>1, Outcome
<1>3. pc \in Making
  BY <1>2 DEF Making
<1>4. CASE Raises("raised", TRUE)
  BY <1>1, <1>3, <1>4, ConstructionRaises DEF Raises
<1>5. CASE Returns(driver, own, "map")
  <2>1. pc' = "map" /\ drv' = driver /\ own' = own /\ reg' = reg /\ failures' = failures /\ layout' = layout
    BY <1>5 DEF Returns
  <2>2. /\ Typed /\ Made /\ reg \in Locals /\ own.mappings = drv.map /\ IsOwner(own) /\ failures \in Nat
        /\ layout.regions \in Nat \ {0} /\ Regions = 1..layout.regions /\ Regions' = Regions
    BY <1>3, <2>1, MakingKnown DEF Regions
  <2>3. /\ IsDriver(drv') /\ drv'.live = drv.live /\ drv'.map = drv.map /\ drv'.device = drv.device
    BY <2>1, <2>2, ReserveDoes
  <2>4. reg.region = 1 /\ own.handles = {}
    BY <1>2, <2>2 DEF Made
  <2>5. Made'
    BY <1>2, <1>3, <2>1, <2>2, <2>3, <2>4 DEF Made
  <2>6. QED
    BY <1>3, <2>1, <2>2, <2>3, <2>5, StillMaking DEF Making
<1>6. QED
  BY <1>2, <1>4, <1>5

LEMMA RegionMade ==
  ASSUME LayoutsFit, VmmInv,
         Loop("map", TRUE, MapAt(reg.region, reg.region),
              [own EXCEPT !.handles = @ \cup {reg.region}, !.mappings = With(@, reg.region, reg.region)], "access")
  PROVE  VmmInv'
<1>. DEFINE r == reg.region
            driver == MapAt(r, r)
            owner == [own EXCEPT !.handles = @ \cup {r}, !.mappings = With(@, r, r)]
<1>1. failures \in Nat
  BY DEF VmmInv, Typed
<1>2. /\ pc = "map" /\ layout' = layout
      /\ \/ /\ drv' = driver /\ own' = owner /\ failures' = failures
            /\ IF reg.region < layout.regions
               THEN pc' = "map" /\ reg' = [reg EXCEPT !.region = @ + 1]
               ELSE pc' = "access" /\ reg' = [reg EXCEPT !.region = 1]
         \/ /\ pc' = "raised" /\ failures' \in {failures, failures + 1}
            /\ drv' = drv /\ own' = own /\ reg' = reg
  <2>. HIDE DEF driver, owner
  <2>1. Loop("map", TRUE, driver, owner, "access")
    BY DEF driver, owner
  <2>2. QED
    BY <1>1, <2>1, LoopOutcome
<1>3. pc \in Making
  BY <1>2 DEF Making
<1>4. CASE pc' = "raised"
  BY <1>2, <1>3, <1>4, ConstructionRaises
<1>5. ASSUME drv' = driver, own' = owner, failures' = failures,
             IF reg.region < layout.regions
             THEN pc' = "map" /\ reg' = [reg EXCEPT !.region = @ + 1]
             ELSE pc' = "access" /\ reg' = [reg EXCEPT !.region = 1]
      PROVE  VmmInv'
  <2>1. /\ Typed /\ Made /\ reg \in Locals /\ own.mappings = drv.map /\ layout.hot \in Nat
        /\ layout.regions \in Nat /\ Regions = 1..layout.regions /\ IsOwner(own)
        /\ Regions' = Regions /\ own.freed = FALSE
        /\ own.promoted = NoHandle /\ own.chunk = 0 /\ own.hot = layout.hot
    BY <1>2, <1>3, MakingKnown DEF Regions
  <2>2. /\ r \in Regions /\ r \in Nat /\ drv.live = Regions
        /\ drv.device = {h \in Regions : h <= layout.hot}
        /\ DOMAIN drv.map = 1..(r - 1) /\ \A i \in DOMAIN drv.map : drv.map[i] = i
        /\ own.handles = 1..(r - 1)
    BY <1>2, <2>1 DEF Made
  <2>3. /\ IsDriver(drv') /\ drv'.live = drv.live /\ drv'.device = drv.device
        /\ drv'.map = With(drv.map, r, r) /\ DOMAIN drv'.map = DOMAIN drv.map \cup {r} /\ drv'.map[r] = r
        /\ \A b \in DOMAIN drv.map : b # r => drv'.map[b] = drv.map[b]
    <3>. HIDE DEF r
    <3>1. drv' = MapAt(r, r)
      BY <1>5
    <3>2. QED
      BY <2>1, <2>2, <3>1, MapAtDoes
  <2>4. 1..(r - 1) \cup {r} = 1..r
    BY <2>1, <2>2, Counter
  <2>5. DOMAIN drv'.map = 1..r /\ \A i \in DOMAIN drv'.map : drv'.map[i] = i
    BY <2>2, <2>3, <2>4
  <2>6. own' = [handles |-> own.handles \cup {r}, mappings |-> With(own.mappings, r, r),
                promoted |-> own.promoted, chunk |-> own.chunk, hot |-> own.hot, freed |-> own.freed]
    <3>. HIDE DEF r
    <3>1. own' = [own EXCEPT !.handles = @ \cup {r}, !.mappings = With(@, r, r)]
      BY <1>5
    <3>2. QED
      BY <2>1, <3>1 DEF IsOwner
  <2>7. own'.mappings = drv'.map /\ own'.handles = 1..r /\ own'.promoted = NoHandle /\ own'.chunk = 0
        /\ own'.hot = layout.hot /\ own'.freed = FALSE
    BY <2>1, <2>2, <2>3, <2>4, <2>6
  <2>8. IsOwner(own')
    <3>1. drv'.map \in Maps /\ 1..r \in SUBSET Nat
      BY <2>2, <2>3 DEF IsDriver
    <3>2. own' = [handles |-> 1..r, mappings |-> drv'.map,
                  promoted |-> own.promoted, chunk |-> own.chunk, hot |-> own.hot, freed |-> own.freed]
      BY <2>6, <2>7
    <3>3. QED
      BY <2>1, <3>1, <3>2 DEF IsOwner
  <2>9. /\ reg' \in Locals
        /\ pc' = "map" => reg'.region \in Regions /\ 1..r = 1..(reg'.region - 1)
        /\ pc' = "access" => 1..r = Regions
    <3>1. CASE r < layout.regions
      <4>1. /\ [reg EXCEPT !.region = @ + 1] \in Locals /\ [reg EXCEPT !.region = @ + 1].region = r + 1
            /\ r + 1 \in 1..layout.regions
        BY <2>1, <2>2, <3>1, Counter
      <4>2. QED
        <5>1. reg' = [reg EXCEPT !.region = @ + 1] /\ pc' = "map"
          BY <1>5, <3>1
        <5>2. reg' \in Locals /\ reg'.region = r + 1
          BY <4>1, <5>1, Zenon
        <5>3. (r + 1) - 1 = r
          BY <2>1, <2>2
        <5>4. QED
          BY <2>1, <4>1, <5>1, <5>2, <5>3
    <3>2. CASE ~(r < layout.regions)
      <4>1. reg' \in Locals /\ r = layout.regions
        BY <1>5, <2>1, <2>2, <3>2, Counter
      <4>2. QED
        BY <1>5, <2>1, <3>2, <4>1
    <3>3. QED
      BY <3>1, <3>2
  <2>10. pc' \in {"map", "access"}
    BY <1>5
  <2>11. Made'
    BY <1>2, <2>1, <2>2, <2>3, <2>5, <2>7, <2>9, <2>10 DEF Made
  <2>12. QED
    <3>1. own'.mappings = drv'.map /\ own'.freed = own.freed /\ pc' \in Making /\ failures' \in Nat
      BY <1>1, <1>5, <2>1, <2>7, <2>10 DEF Making
    <3>2. QED
      BY <1>2, <1>3, <2>3, <2>8, <2>9, <2>11, <3>1, StillMaking
<1>6. QED
  BY <1>2, <1>4, <1>5

LEMMA RangeAccessed ==
  ASSUME LayoutsFit, VmmInv, Check("access", TRUE, SetAccess(Regions), own, "fill", "raised")
  PROVE  VmmInv'
<1>. DEFINE driver == SetAccess(Regions)
<1>1. failures \in Nat
  BY DEF VmmInv, Typed
<1>2. /\ pc = "access"
      /\ (Returns(driver, own, "fill") \/ Raises("raised", TRUE))
  <2>. HIDE DEF driver
  <2>1. Check("access", TRUE, driver, own, "fill", "raised")
    BY DEF driver
  <2>2. QED
    BY <1>1, <2>1, Outcome
<1>3. pc \in Making
  BY <1>2 DEF Making
<1>4. CASE Raises("raised", TRUE)
  BY <1>1, <1>3, <1>4, ConstructionRaises DEF Raises
<1>5. CASE Returns(driver, own, "fill")
  <2>1. pc' = "fill" /\ drv' = driver /\ own' = own /\ reg' = reg /\ failures' = failures /\ layout' = layout
    BY <1>5 DEF Returns
  <2>2. /\ Typed /\ Made /\ reg \in Locals /\ own.mappings = drv.map /\ IsOwner(own) /\ failures \in Nat
        /\ Regions \in SUBSET Nat /\ Regions' = Regions
    BY <1>3, <2>1, MakingKnown DEF Regions
  <2>3. /\ IsDriver(drv') /\ drv'.live = drv.live /\ drv'.map = drv.map /\ drv'.device = drv.device
        /\ drv'.access = drv.access \cup Regions
    <3>. DEFINE R == Regions
    <3>. HIDE DEF R
    <3>1. drv' = SetAccess(R) /\ R \in SUBSET Nat
      BY <2>1, <2>2 DEF R
    <3>2. /\ IsDriver(drv') /\ drv'.live = drv.live /\ drv'.map = drv.map /\ drv'.device = drv.device
          /\ drv'.access = drv.access \cup R
      BY <2>2, <3>1, SetAccessDoes
    <3>3. QED
      BY <3>2 DEF R
  <2>4. Made'
    BY <1>2, <1>3, <2>1, <2>2, <2>3 DEF Made
  <2>5. QED
    BY <1>3, <2>1, <2>2, <2>3, <2>4, StillMaking DEF Making
<1>6. QED
  BY <1>2, <1>4, <1>5

LEMMA WeightsCopied ==
  ASSUME LayoutsFit, VmmInv,
         Check("fill", TRUE, [drv EXCEPT !.data = [h \in Regions |-> h]], own, "rest", "raised")
  PROVE  VmmInv'
<1>. DEFINE driver == [drv EXCEPT !.data = [h \in Regions |-> h]]
<1>1. failures \in Nat
  BY DEF VmmInv, Typed
<1>2. /\ pc = "fill"
      /\ (Returns(driver, own, "rest") \/ Raises("raised", TRUE))
  <2>. HIDE DEF driver
  <2>1. Check("fill", TRUE, driver, own, "rest", "raised")
    BY DEF driver
  <2>2. QED
    BY <1>1, <2>1, Outcome
<1>3. pc \in Making
  BY <1>2 DEF Making
<1>4. CASE Raises("raised", TRUE)
  BY <1>1, <1>3, <1>4, ConstructionRaises DEF Raises
<1>5. CASE Returns(driver, own, "rest")
  <2>1. /\ pc' = "rest" /\ drv' = driver /\ own' = own /\ reg' = NoLocals
        /\ failures' = failures /\ layout' = layout
    BY <1>5 DEF Returns
  <2>2. /\ Typed /\ Made /\ own.mappings = drv.map /\ IsOwner(own) /\ IsDriver(drv)
        /\ layout.regions \in Nat \ {0} /\ Regions = 1..layout.regions /\ Regions' = Regions
        /\ Regions \subseteq Nat /\ own.freed = FALSE
        /\ own.promoted = NoHandle /\ own.chunk = 0 /\ own.hot = layout.hot
        /\ layout.hot \in Nat /\ layout.chunked \in BOOLEAN
    BY <1>3, <2>1, MakingKnown DEF Regions
  <2>3. /\ drv.live = Regions /\ drv.device = {h \in Regions : h <= layout.hot}
        /\ DOMAIN drv.map = Regions /\ (\A i \in Regions : drv.map[i] = i)
        /\ own.handles = Regions /\ Regions \subseteq drv.access
    BY <1>2, <2>2 DEF Made
  <2>4. /\ drv'.live = drv.live /\ drv'.map = drv.map /\ drv'.access = drv.access /\ drv'.va = drv.va
        /\ drv'.device = drv.device /\ drv'.data = [h \in Regions |-> h]
    BY <2>1, <2>2 DEF IsDriver
  <2>5. IsDriver(drv')
    <3>1. [h \in Regions |-> h] \in Maps
      BY <2>2 DEF Maps
    <3>2. drv' \in [live : SUBSET Nat, map : Maps, access : SUBSET Nat, va : SUBSET Nat,
                    data : Maps, device : SUBSET Nat]
      BY <2>1, <2>2, <3>1 DEF IsDriver
    <3>3. QED
      BY <2>2, <2>3, <2>4, <3>2 DEF IsDriver
  <2>6. pc' \in Later /\ reg' \in Locals
    BY <2>1 DEF Later, Locals, NoLocals, NoHandle
  <2>7. Typed' /\ Recorded' /\ Made' /\ InUse'
    BY <1>1, <2>1, <2>2, <2>3, <2>4, <2>5, <2>6, StepTyped
  <2>8. Cold' = layout.regions /\ NoHandle = 0
    BY <2>1 DEF Cold, NoHandle
  <2>9. \A i \in Regions : i \in DOMAIN drv'.map /\ drv'.map[i] = i /\ i \in drv'.live /\ drv'.data[i] = i
    BY <2>3, <2>4
  <2>10. Backed' /\ AtHome' /\ Moved' /\ OnDevice' /\ Counted'
    <3>1. Backed'
      <4>1. SUFFICES ASSUME NEW i \in Regions, i \in DOMAIN drv'.map
                     PROVE  /\ drv'.map[i] \in drv'.live /\ drv'.data[drv'.map[i]] = i
                            /\ drv'.map[i] = i
        BY <2>2 DEF Backed
      <4>2. QED
        BY <2>9
    <3>2. AtHome'
      BY <2>1, <2>2, <2>9 DEF AtHome
    <3>3. Moved'
      BY <2>1, <2>2 DEF Moved
    <3>4. OnDevice'
      BY <2>1, <2>2, <2>3, <2>4 DEF OnDevice
    <3>5. Counted'
      BY <2>1, <2>2, <2>8 DEF Counted
    <3>6. QED
      BY <3>1, <3>2, <3>3, <3>4, <3>5
  <2>11. Underway'
    BY <2>1 DEF Underway, Promoting, Chunking, Evicting
  <2>12. Reachable'
    <3>1. \A i \in Regions : i \in DOMAIN drv'.map /\ i \in drv'.access
      BY <2>3, <2>4
    <3>2. pc' \notin Restoring /\ pc' \notin {"c_va", "c_release", "c_done", "p_done", "e_done"}
      BY <2>1 DEF Restoring
    <3>3. \A i \in Regions : Readable(i)'
      BY <3>1 DEF Readable
    <3>4. QED
      BY <2>2, <3>2, <3>3 DEF Reachable
  <2>13. Unharmed'
    <3>1. Cold' \in Regions /\ drv'.map[Cold'] = Cold' /\ own'.promoted = NoHandle
      <4>1. Cold' \in Regions
        BY <2>2, <2>8
      <4>2. own'.promoted = NoHandle
        BY <2>1, <2>2
      <4>3. QED
        BY <2>9, <4>1, <4>2
    <3>2. \A i \in Regions : drv'.map[i] = i
      BY <2>9
    <3>3. QED
      BY <2>2, <3>1, <3>2 DEF Unharmed
  <2>14. QED
    BY <2>7, <2>10, <2>11, <2>12, <2>13 DEF VmmInv, Kept
<1>6. QED
  BY <1>2, <1>4, <1>5

LEMMA ConstructStep ==
  ASSUME LayoutsFit, VmmInv, Construct
  PROVE  VmmInv'
  BY HandleCreated, RangeReserved, RegionMade, RangeAccessed, WeightsCopied DEF Construct

-----------------------------------------------------------------------------
(* free().                                                                 *)
LEMMA StillFreeing ==
  ASSUME Typed, pc' \in Freeing, layout' = layout, reg' \in Locals, failures' \in Nat,
         IsDriver(drv'), IsOwner(own'), own'.mappings = drv'.map, own'.handles = drv'.live,
         own'.freed = FALSE, pc' = "f_release" => drv'.map = <<>>
  PROVE  VmmInv'
<1>1. pc' \notin Making /\ pc' \notin Later
  BY DEF Freeing, Making, Later, Promoting, Chunking, Evicting
<1>2. Typed'
  BY DEF Typed
<1>3. Recorded'
  BY DEF Recorded
<1>4. Made'
  BY <1>1 DEF Made, Making
<1>5. QED
  BY <1>1, <1>2, <1>3, <1>4 DEF VmmInv, InUse

LEMMA FreeingKnown ==
  ASSUME VmmInv, pc \in Freeing \cup {"rest"}, ~own.freed
  PROVE  /\ Typed /\ IsDriver(drv) /\ IsOwner(own) /\ reg \in Locals /\ failures \in Nat
         /\ own.mappings = drv.map /\ own.handles = drv.live /\ own.freed = FALSE
         /\ pc = "f_release" => drv.map = <<>>
<1>1. pc \notin Making
  BY DEF Freeing, Making
<1>2. QED
  BY <1>1 DEF VmmInv, Typed, IsOwner, Recorded

(* An error puts free() off; what it undid stays undone.                   *)
LEMMA PutOff ==
  ASSUME VmmInv, pc \in Freeing, ~own.freed, NEW can, Raises("f_failed", can)
  PROVE  VmmInv'
<1>1. /\ Typed /\ IsDriver(drv) /\ IsOwner(own) /\ reg \in Locals /\ failures \in Nat
      /\ own.mappings = drv.map /\ own.handles = drv.live /\ own.freed = FALSE
  BY FreeingKnown
<1>2. pc' = "f_failed" /\ drv' = drv /\ own' = own /\ layout' = layout /\ reg' = reg
      /\ failures' \in {failures, failures + 1}
  BY DEF Raises
<1>3. /\ pc' \in Freeing /\ pc' # "f_release" /\ failures' \in Nat /\ reg' \in Locals
      /\ IsDriver(drv') /\ IsOwner(own') /\ own'.mappings = drv'.map /\ own'.handles = drv'.live
      /\ own'.freed = FALSE
  BY <1>1, <1>2 DEF Freeing
<1>4. QED
  BY <1>1, <1>2, <1>3, StillFreeing

LEMMA FreeGoesOn ==
  ASSUME VmmInv,
         \/ Go("rest", ~own.freed, "f_unmap")
         \/ Go("f_unmap", own.mappings = <<>>, "f_release")
         \/ Go("f_failed", TRUE, "f_unmap")
  PROVE  VmmInv'
<1>1. ~own.freed /\ pc \in Freeing \cup {"rest"}
  BY DEF VmmInv, Recorded, Go, Freeing
<1>2. /\ Typed /\ IsDriver(drv) /\ IsOwner(own) /\ reg \in Locals /\ failures \in Nat
      /\ own.mappings = drv.map /\ own.handles = drv.live /\ own.freed = FALSE
  BY <1>1, FreeingKnown
<1>3. drv' = drv /\ own' = own /\ layout' = layout /\ reg' = reg /\ failures' = failures
      /\ pc' \in {"f_unmap", "f_release"} /\ (pc' = "f_release" => own.mappings = <<>>)
  BY DEF Go
<1>4. /\ pc' \in Freeing /\ failures' \in Nat /\ reg' \in Locals
      /\ IsDriver(drv') /\ IsOwner(own') /\ own'.mappings = drv'.map /\ own'.handles = drv'.live
      /\ own'.freed = FALSE /\ (pc' = "f_release" => drv'.map = <<>>)
  BY <1>2, <1>3 DEF Freeing
<1>5. QED
  BY <1>2, <1>3, <1>4, StillFreeing

LEMMA AddressUnmapped ==
  ASSUME VmmInv, NEW a \in DOMAIN own.mappings, _unmap("f_unmap", a, "f_unmap", "f_failed")
  PROVE  VmmInv'
<1>1. pc = "f_unmap"
  BY DEF _unmap, Check
<1>2. ~own.freed /\ pc \in Freeing
  BY <1>1 DEF VmmInv, Recorded, Freeing
<1>3. /\ Typed /\ IsDriver(drv) /\ IsOwner(own) /\ reg \in Locals /\ failures \in Nat
      /\ own.mappings = drv.map /\ own.handles = drv.live /\ own.freed = FALSE
  BY <1>2, FreeingKnown
<1>4. \/ Returns(UnmapAt(a), [own EXCEPT !.mappings = Restrict(@, DOMAIN @ \ {a})], "f_unmap")
      \/ Raises("f_failed", a \in DOMAIN drv.map)
  BY <1>3, UnmapOutcome
<1>5. CASE Raises("f_failed", a \in DOMAIN drv.map)
  BY <1>2, <1>5, PutOff
<1>6. CASE Returns(UnmapAt(a), [own EXCEPT !.mappings = Restrict(@, DOMAIN @ \ {a})], "f_unmap")
  <2>1. /\ drv' = UnmapAt(a) /\ own' = [own EXCEPT !.mappings = Restrict(@, DOMAIN @ \ {a})]
        /\ pc' = "f_unmap" /\ layout' = layout /\ failures' = failures /\ reg' = reg
    BY <1>6 DEF Returns
  <2>2. a \in Nat
    BY <1>3, MapKnown DEF IsDriver
  <2>3. IsDriver(drv') /\ InUseOf(own')
    BY <1>3, <2>1, <2>2, UnmapSucceeds
  <2>4. pc' \in Freeing /\ pc' # "f_release" /\ failures' \in Nat /\ reg' \in Locals
    BY <1>3, <2>1 DEF Freeing
  <2>5. QED
    BY <1>3, <2>1, <2>3, <2>4, StillFreeing DEF InUseOf
<1>7. QED
  BY <1>4, <1>5, <1>6

LEMMA HandleReleased ==
  ASSUME VmmInv, NEW h \in own.handles,
         Check("f_release", h \in drv.live, Release(h), [own EXCEPT !.handles = @ \ {h}], "f_release", "f_failed")
  PROVE  VmmInv'
<1>. DEFINE owner == [own EXCEPT !.handles = @ \ {h}]
            driver == Release(h)
<1>1. pc = "f_release"
  BY DEF Check
<1>2. ~own.freed /\ pc \in Freeing
  BY <1>1 DEF VmmInv, Recorded, Freeing
<1>3. /\ Typed /\ IsDriver(drv) /\ IsOwner(own) /\ reg \in Locals /\ failures \in Nat
      /\ own.mappings = drv.map /\ own.handles = drv.live /\ own.freed = FALSE /\ drv.map = <<>>
  BY <1>1, <1>2, FreeingKnown
<1>4. Returns(driver, owner, "f_release") \/ Raises("f_failed", h \in drv.live)
  <2>. HIDE DEF driver, owner
  <2>1. Check("f_release", h \in drv.live, driver, owner, "f_release", "f_failed")
    BY DEF driver, owner
  <2>. DEFINE can == h \in drv.live
  <2>2. can \in BOOLEAN
    OBVIOUS
  <2>. HIDE DEF can
  <2>3. Check("f_release", can, driver, owner, "f_release", "f_failed")
    BY <2>1 DEF can
  <2>4. (Returns(driver, owner, "f_release") /\ can) \/ Raises("f_failed", can)
    BY <1>3, <2>2, <2>3, Outcome
  <2>5. QED
    BY <2>4 DEF can
<1>5. CASE Raises("f_failed", h \in drv.live)
  BY <1>2, <1>5, PutOff
<1>6. CASE Returns(driver, owner, "f_release")
  <2>1. /\ drv' = Release(h) /\ own' = [own EXCEPT !.handles = @ \ {h}]
        /\ pc' = "f_release" /\ layout' = layout /\ failures' = failures /\ reg' = reg
    BY <1>6 DEF Returns
  <2>2. h \in Nat
    BY <1>3 DEF IsDriver
  <2>3. IsDriver(drv') /\ drv'.live = drv.live \ {h} /\ drv'.map = drv.map
    BY <1>3, <2>1, <2>2, ReleaseDoes
  <2>4. /\ IsOwner(own') /\ own'.mappings = own.mappings /\ own'.handles = own.handles \ {h}
        /\ own'.freed = FALSE
    BY <1>3, <2>1 DEF IsOwner
  <2>5. pc' \in Freeing /\ failures' \in Nat /\ reg' \in Locals
    BY <1>3, <2>1 DEF Freeing
  <2>6. QED
    BY <1>3, <2>1, <2>3, <2>4, <2>5, StillFreeing
<1>7. QED
  BY <1>4, <1>5, <1>6

LEMMA RangeFreed ==
  ASSUME VmmInv, own.handles = {},
         Check("f_release", DOMAIN drv.map \cap Regions = {}, AddressFree(0), [own EXCEPT !.freed = TRUE],
               "rest", "f_failed")
  PROVE  VmmInv'
<1>. DEFINE owner == [own EXCEPT !.freed = TRUE]
            driver == AddressFree(0)
            can == DOMAIN drv.map \cap Regions = {}
<1>1. pc = "f_release"
  BY DEF Check
<1>2. ~own.freed /\ pc \in Freeing
  BY <1>1 DEF VmmInv, Recorded, Freeing
<1>3. /\ Typed /\ IsDriver(drv) /\ IsOwner(own) /\ reg \in Locals /\ failures \in Nat
      /\ own.mappings = drv.map /\ own.handles = drv.live /\ own.freed = FALSE /\ drv.map = <<>>
  BY <1>1, <1>2, FreeingKnown
<1>4. Returns(driver, owner, "rest") \/ Raises("f_failed", can)
  <2>1. can \in BOOLEAN
    OBVIOUS
  <2>. HIDE DEF driver, owner, can
  <2>2. Check("f_release", can, driver, owner, "rest", "f_failed")
    BY DEF driver, owner, can
  <2>3. QED
    BY <1>3, <2>1, <2>2, Outcome
<1>5. CASE Raises("f_failed", can)
  BY <1>2, <1>5, PutOff
<1>6. CASE Returns(driver, owner, "rest")
  <2>1. /\ drv' = AddressFree(0) /\ own' = [own EXCEPT !.freed = TRUE]
        /\ pc' = "rest" /\ layout' = layout /\ failures' = failures /\ reg' = NoLocals
    BY <1>6 DEF Returns
  <2>2. IsDriver(drv') /\ drv'.live = drv.live /\ drv'.map = drv.map /\ 0 \notin drv'.va
    BY <1>3, <2>1, AddressFreeDoes
  <2>3. /\ IsOwner(own') /\ own'.mappings = own.mappings /\ own'.handles = own.handles
        /\ own'.freed = TRUE
    BY <1>3, <2>1 DEF IsOwner
  <2>4. reg' \in Locals /\ pc' \in Later /\ pc' \notin Making
    BY <2>1 DEF Locals, NoLocals, NoHandle, Later, Making
  <2>5. Typed'
    BY <1>3, <2>1, <2>2, <2>3, <2>4 DEF Typed
  <2>6. Recorded'
    BY <1>3, <2>1, <2>2, <2>3, <2>4 DEF Recorded
  <2>7. Made'
    BY <2>1, <2>4 DEF Made
  <2>8. ~InUse'
    BY <2>3 DEF InUse
  <2>9. QED
    BY <2>5, <2>6, <2>7, <2>8 DEF VmmInv
<1>7. QED
  BY <1>4, <1>5, <1>6

LEMMA FreeStep ==
  ASSUME VmmInv, free
  PROVE  VmmInv'
  BY FreeGoesOn, AddressUnmapped, HandleReleased, RangeFreed DEF free

-----------------------------------------------------------------------------
(* Operations start, and go on, only while the allocation is in use.       *)
LEMMA OnlyInUse ==
  ASSUME VmmInv, promote_up_to \/ promote_chunk \/ evict_promoted
  PROVE  InUse
<1>1. own.freed => pc = "rest"
  BY DEF VmmInv, Recorded
<1>2. ASSUME promote_up_to PROVE pc \in Later /\ (pc = "rest" => ~own.freed)
  BY <1>2 DEF promote_up_to, StartPromotion, Quiesce, CreateHot, Copy, Access, _map, _unmap, Check, Go,
     FallbackToCold, Later, Promoting
<1>3. ASSUME promote_chunk PROVE pc \in Later /\ (pc = "rest" => ~own.freed)
  BY <1>3 DEF promote_chunk, StartPromotion, Quiesce, CreateHot, Copy, Access, _map, _unmap, Check, Go,
     Later, Chunking
<1>4. ASSUME evict_promoted PROVE pc \in Later /\ (pc = "rest" => ~own.freed)
  BY <1>4 DEF evict_promoted, Quiesce, Access, _map, _unmap, Check, Go, Later, Evicting
<1>5. QED
  BY <1>1, <1>2, <1>3, <1>4 DEF InUse

LEMMA VmmStep ==
  ASSUME LayoutsFit, VmmInv, [Next]_vars
  PROVE  VmmInv'
<1>1. CASE Construct
  BY <1>1, ConstructStep
<1>2. CASE promote_up_to
  BY <1>2, OnlyInUse, PromotionStep
<1>3. CASE promote_chunk
  BY <1>3, OnlyInUse, ChunkStep
<1>4. CASE evict_promoted
  BY <1>4, OnlyInUse, EvictionStep
<1>5. CASE free
  BY <1>5, FreeStep
<1>6. CASE UNCHANGED vars
  <2>1. Typed' /\ Recorded' /\ Made' /\ InUse' = InUse
    BY <1>6 DEF vars, VmmInv, Typed, IsDriver, IsOwner, Recorded, Made, InUse, Regions
  <2>2. Kept => Kept'
    BY <1>6 DEF vars, Kept, Backed, AtHome, Moved, OnDevice, Counted, Underway, Reachable, Unharmed,
       Regions, Cold, MapsTo, Readable
  <2>3. QED
    BY <2>1, <2>2 DEF VmmInv
<1>7. QED
  BY <1>1, <1>2, <1>3, <1>4, <1>5, <1>6 DEF Next

(* The invariant of the allocation, its type among its parts, holds        *)
(* whatever calls of the driver fail: which handle is behind which address *)
(* at every call of promote_up_to, promote_chunk, evict_promoted and free. *)
THEOREM VmmInvariance == ASSUME LayoutsFit PROVE Spec => []VmmInv
<1>1. Init => VmmInv
  BY VmmInit
<1>2. VmmInv /\ [Next]_vars => VmmInv'
  BY VmmStep
<1>3. QED
  BY <1>1, <1>2, PTL DEF Spec

(* However many calls fail, and wherever an operation stopped, the weights *)
(* of every region are in a handle that is not released until free():      *)
(* promote_chunk lets the host's handle go only behind the mapping of the  *)
(* new one, promote_up_to and evict_promoted never before they are done.   *)
THEOREM WeightsAlwaysSurvive == ASSUME LayoutsFit PROVE Spec => []WeightsSurvive
<1>1. VmmInv => WeightsSurvive
  <2>1. SUFFICES ASSUME VmmInv, pc \notin Making, pc \notin Freeing, ~own.freed, NEW i \in Regions
                 PROVE  \E h \in drv.live : drv.data[h] = i
    BY DEF WeightsSurvive, Making, Freeing
  <2>2. InUse
    BY <2>1 DEF VmmInv, Typed, InUse
  <2>3. /\ Kept /\ layout.regions \in Nat \ {0} /\ layout.chunked \in BOOLEAN /\ Regions = 1..layout.regions
        /\ own.chunk \in Nat
    BY <2>1, <2>2, Situation
  <2>4. CASE ~layout.chunked \/ KeepHost \/ i > own.chunk + (IF pc = "c_done" THEN 1 ELSE 0)
    BY <2>3, <2>4 DEF Kept, AtHome
  <2>5. CASE layout.chunked /\ i <= own.chunk
    <3>1. i \in 1..own.chunk
      BY <2>3, <2>5
    <3>2. i \in DOMAIN drv.map
      BY <2>3, <2>5, <3>1 DEF Kept, Moved
    <3>3. QED
      BY <3>2, <2>3 DEF Kept, Backed
  <2>6. CASE layout.chunked /\ pc = "c_done" /\ i = own.chunk + 1
    <3>1. i \in DOMAIN drv.map
      BY <2>3, <2>6 DEF Kept, Underway, MapsTo, Chunking
    <3>2. QED
      BY <3>1, <2>3 DEF Kept, Backed
  <2>7. QED
    BY <2>3, <2>4, <2>5, <2>6
<1>2. QED
  BY <1>1, VmmInvariance, PTL

(* One failing call, whichever it is, costs at most the mapping of the     *)
(* chunk whose promotion it ended: between operations every other region   *)
(* can be read under its address and holds its own weights.                *)
THEOREM WeightsAlwaysReadable == ASSUME LayoutsFit PROVE Spec => []WeightsStayReadable
<1>1. VmmInv => WeightsStayReadable
  <2>1. SUFFICES ASSUME VmmInv, pc = "rest", ~own.freed, failures <= 1, NEW i \in Regions
                 PROVE  Holds(i) \/ (failures = 1 /\ layout.chunked /\ i = own.chunk + 1)
    BY DEF WeightsStayReadable
  <2>2. InUse
    BY <2>1 DEF InUse, Later
  <2>3. Kept
    BY <2>1, <2>2 DEF VmmInv
  <2>4. Readable(i) \/ (failures = 1 /\ layout.chunked /\ i = own.chunk + 1)
    BY <2>1, <2>3 DEF Kept, Reachable, Restoring, Remapping
  <2>5. Readable(i) => drv.data[drv.map[i]] = i
    BY <2>3 DEF Kept, Backed, Readable
  <2>6. QED
    BY <2>4, <2>5 DEF Holds
<1>2. QED
  BY <1>1, VmmInvariance, PTL

(* Between operations, and without failures, the regions on the device are *)
(* the first own.hot.                                                      *)
LEMMA HotAreFirst ==
  ASSUME LayoutsFit, VmmInv, pc = "rest", ~own.freed, failures = 0
  PROVE  own.hot \in Nat /\ {i \in Regions : drv.map[i] \in drv.device} = 1..own.hot
<1>1. InUse
  BY DEF InUse, Later
<1>2. /\ Kept /\ layout.regions \in Nat \ {0} /\ layout.chunked \in BOOLEAN
      /\ Regions = 1..layout.regions /\ Cold = layout.regions /\ layout.hot \in Nat
      /\ own.chunk \in Nat /\ own.promoted \in Nat
      /\ IF layout.chunked THEN layout.hot = 0 ELSE layout.hot \in {Cold - 1, Cold}
  BY <1>1, Situation, LayoutKnown DEF Typed
<1>3. \A i \in Regions : i \in DOMAIN drv.map
  BY <1>2 DEF Kept, Reachable, Restoring, Remapping, Readable
<1>4. \A i \in Regions : drv.map[i] \in drv.device <=> drv.map[i] > layout.regions \/ drv.map[i] <= layout.hot
  BY <1>2, <1>3 DEF Kept, Backed, OnDevice
<1>5. CASE layout.chunked
  <2>1. own.hot = own.chunk /\ own.chunk <= layout.regions
    BY <1>2, <1>5 DEF Kept, Counted
  <2>2. \A i \in Regions : i <= own.chunk => drv.map[i] > layout.regions
    BY <1>2, <1>5 DEF Kept, Moved
  <2>3. \A i \in Regions : i > own.chunk => drv.map[i] = i
    BY <1>2, <1>3, <1>5 DEF Kept, Unharmed
  <2>4. \A i \in Regions : drv.map[i] \in drv.device <=> i <= own.hot
    BY <1>2, <1>4, <1>5, <2>1, <2>2, <2>3
  <2>5. QED
    BY <1>2, <2>1, <2>4
<1>6. CASE ~layout.chunked
  <2>1. /\ own.hot = layout.hot + (IF own.promoted # NoHandle THEN 1 ELSE 0)
        /\ own.promoted # NoHandle => layout.hot < Cold
    BY <1>2, <1>6 DEF Kept, Counted
  <2>2. \A i \in Regions \ {Cold} : drv.map[i] = i
    BY <1>2, <1>3, <1>6 DEF Kept, Backed
  <2>3. drv.map[Cold] = Cold <=> own.promoted = NoHandle
    BY <1>2, <1>3, <1>6 DEF Kept, Unharmed
  <2>4. drv.map[Cold] = Cold \/ drv.map[Cold] > layout.regions
    BY <1>2, <1>3 DEF Kept, Backed
  <2>5. own.hot \in Nat /\ own.hot <= layout.regions /\ own.hot >= layout.regions - 1
    BY <1>2, <1>6, <2>1
  <2>6. \A i \in Regions \ {Cold} : drv.map[i] \in drv.device /\ i <= own.hot
    BY <1>2, <1>4, <1>6, <2>2, <2>5
  <2>7. drv.map[Cold] \in drv.device <=> Cold <= own.hot
    <3>1. Cold \in Regions /\ ~(Cold > Cold)
      BY <1>2
    <3>2. drv.map[Cold] \in drv.device <=> drv.map[Cold] > Cold \/ drv.map[Cold] <= layout.hot
      BY <1>2, <1>4, <3>1
    <3>3. CASE own.promoted = NoHandle
      <4>1. drv.map[Cold] = Cold /\ own.hot = layout.hot
        BY <1>2, <2>1, <2>3, <3>3
      <4>2. QED
        BY <3>1, <3>2, <4>1
    <3>4. CASE own.promoted # NoHandle
      <4>1. drv.map[Cold] > Cold
        BY <1>2, <2>3, <2>4, <3>4
      <4>2. Cold <= own.hot
        BY <1>2, <1>6, <2>1, <3>4
      <4>3. QED
        BY <3>2, <4>1, <4>2
    <3>5. QED
      BY <3>3, <3>4
  <2>8. \A i \in Regions : drv.map[i] \in drv.device <=> i <= own.hot
    BY <2>6, <2>7
  <2>9. QED
    BY <1>2, <2>5, <2>8
<1>7. QED
  BY <1>2, <1>5, <1>6

(* hot_bytes counts what the device backs: every promotion moves one more  *)
(* region, every eviction one back, and none without the counter.          *)
THEOREM HotAlwaysCounted == ASSUME LayoutsFit PROVE Spec => []HotIsCounted
<1>1. VmmInv => HotIsCounted
  <2>1. SUFFICES ASSUME VmmInv, pc = "rest", ~own.freed, failures = 0
                 PROVE  own.hot = Cardinality({i \in Regions : drv.map[i] \in drv.device})
    BY DEF HotIsCounted
  <2>2. own.hot \in Nat /\ {i \in Regions : drv.map[i] \in drv.device} = 1..own.hot
    BY <2>1, HotAreFirst
  <2>3. Cardinality(1..own.hot) = IF 1 > own.hot THEN 0 ELSE own.hot - 1 + 1
    <3>1. 1 \in Int /\ own.hot \in Int
      BY <2>2
    <3>2. QED
      BY <3>1, FS_Interval, Zenon
  <2>4. Cardinality(1..own.hot) = own.hot
    BY <2>2, <2>3
  <2>5. QED
    BY <2>2, <2>4, Zenon
<1>2. QED
  BY <1>1, VmmInvariance, PTL

(* free() returns every handle, every mapping and the range of addresses,  *)
(* also when earlier attempts of it failed half way.                       *)
THEOREM FreedReturnsAll == ASSUME LayoutsFit PROVE Spec => []FreeReturnsAll
<1>1. VmmInv => FreeReturnsAll
  BY DEF VmmInv, Recorded, FreeReturnsAll
<1>2. QED
  BY <1>1, VmmInvariance, PTL
==============================================================================
