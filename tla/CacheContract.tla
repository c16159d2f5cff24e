----------------------------- MODULE CacheContract -----------------------------
(* The plan for an external KV cache (lil/cache.py): configure() derives the *)
(* settings of the engine and of the cache service from one resolved         *)
(* configuration, or refuses it; resolve_identity() names the weights, and   *)
(* by them the directory of the persistent tier, before either starts.       *)
(* Launches follow each other, and the hub that serves the weights may move  *)
(* a branch at any time. Texts (addresses, names, command lines) are left    *)
(* out, and the settings that only pass through; whether they are well       *)
(* formed is one field.                                                      *)
EXTENDS Integers, Sequences, FiniteSets

CONSTANTS
  Settings,     \* configurations a launch may start from (see the fields below)
  MaxLaunches,  \* bounds
  MaxMoves

VARIABLES
  v,       \* the settings; 0 stands for a key that is absent or for "auto"
  stage,   \* "new", "refused", "none", "planned", "resolved", "loaded"
  plan,    \* the CacheService and the connector
  hub,     \* model |-> revision its branch points to
  opened,  \* what launches stored, and where
  launches
vars == <<v, stage, plan, hub, opened, launches>>

Models == {"target", "draft"}
Auto == 0
Engine == v.transfer = "engine_driven"
Glm == v.id = "glm53-flash"
Qwen == v.id = "qwen38-flash-next"
Ds41 == v.id = "ds41-flash"
Ds4 == v.id \in {"ds4-flash", "ds4-vision"}
Divides(a, b) == b % a = 0

\* Ports that are not set lie at fixed distances from the model's.
Ports == <<v.port,
           IF v.cache_port = 0 THEN v.port + 10000 ELSE v.cache_port,
           IF v.http_port = 0 THEN v.port + 10001 ELSE v.http_port,
           IF v.metrics_port = 0 THEN v.port + 10002 ELSE v.metrics_port>>
PortsAreUsable ==
  /\ \A i \in 1..4 : Ports[i] \in 1..65535
  /\ Cardinality({Ports[i] : i \in 1..4}) = 4
PositiveSizes == v.chunk > 0 /\ v.l1 > 0 /\ v.l1_init > 0 /\ v.l1_init <= v.l1 /\ v.gpu_workers >= 0

(* What a profile makes of the settings.                                     *)
TargetBudget == IF v.target_tokens = 0 THEN v.batched ELSE v.target_tokens
Policy ==
  IF Qwen THEN "request_boundaries"
  ELSE IF Glm /\ (v.policy_from = "model" \/ v.policy = "auto")
       THEN IF Engine THEN "request_boundaries" ELSE "aligned"
  ELSE v.policy
SemanticAsAsked == (Glm \/ Qwen) /\ v.policy = "request_boundaries"
Semantic == (Glm \/ Qwen) /\ Policy = "request_boundaries"
Page == IF Glm /\ v.page_from = "model" THEN Auto ELSE v.page
Retention == IF Glm /\ ~Semantic THEN v.chunk ELSE 0
GlmAgrees ==
  /\ v.tp \in {2, 3, 4, 8}
  /\ v.tp = 2 => Engine /\ Semantic
  /\ TargetBudget = v.chunk
  /\ Semantic => Engine
  /\ Page # Auto => Divides(Page * v.dcp, v.chunk)
  /\ v.retention_from = "user" => v.retention \in {-1, Retention}
QwenAgrees ==
  Engine /\ v.policy \in {"auto", "request_boundaries"} /\ v.dcp = 1 /\ v.retention \in {-1, 0}
Ds4Agrees == (Ds41 => Engine) /\ Divides(v.block * v.dcp, v.chunk)
Accepted ==
  /\ Glm \/ Qwen \/ Ds41 \/ Ds4
  /\ PositiveSizes /\ PortsAreUsable /\ v.well_formed /\ v.directory \notin {"relative", "/"}
  /\ IF Glm THEN GlmAgrees ELSE IF Qwen THEN QwenAgrees ELSE Ds4Agrees
NativeAccepted == Glm /\ v.native > 0

\* The settings put() changes.
Derived ==
  [v EXCEPT !.cache_port = Ports[2], !.http_port = Ports[3], !.metrics_port = Ports[4],
            !.gpu_workers = IF @ = 0 THEN v.tp ELSE @,
            !.policy = Policy, !.page = Page,
            !.batched = IF Glm THEN TargetBudget + (IF v.mode = "dflash2" THEN v.drafts * v.seqs ELSE 0) ELSE @,
            !.scheduled = IF Glm THEN TargetBudget ELSE @,
            !.retention = IF Glm \/ Qwen THEN Retention ELSE @,
            !.util = IF v.util_from # "model" THEN @
                     ELSE IF Glm /\ Engine THEN 950
                     ELSE IF Ds4 /\ Engine /\ v.tp = 2 /\ v.long THEN 970 ELSE @]

\* The directory of a layout; the weights are filled in later.
Unresolved == <<"UNRESOLVED-CHECKPOINT">>
LayoutOf(d) ==
  [tp |-> d.tp, dcp |-> d.dcp, dtype |-> d.dtype, block |-> d.block, mode |-> d.mode, drafts |-> d.drafts,
   chunk |-> d.chunk, page |-> d.page, policy |-> d.policy, runtime |-> d.runtime]
Layout == LayoutOf(Derived)
Namespace == [id |-> v.id, layout |-> Layout, weights |-> Unresolved]
IdentityRequired == Semantic \/ v.l2
\* The connector, the shared memory of the service, what it opens on disk, and
\* which identity the connector checks its checkpoints by.
CacheService ==
  [connector |-> IF Semantic THEN "recurrent" ELSE "mp",
   transfer |-> v.transfer,
   shm |-> IF Engine THEN <<v.id, v.port, Ports[2]>> ELSE <<>>,
   lazy |-> ~Engine,
   l2 |-> IF v.l2 THEN {Namespace} ELSE {},
   index |-> IF v.l2 /\ Semantic THEN {Namespace} ELSE {},
   broker |-> Glm /\ ~Engine,
   identity_required |-> IdentityRequired,
   namespace |-> Namespace,
   checkpoint_identity |-> Unresolved]

Blank == [connector |-> "none"]
Init ==
  /\ v \in Settings /\ stage = "new" /\ plan = Blank
  /\ hub = [m \in Models |-> 1] /\ opened = {} /\ launches = 1

configure ==
  /\ stage = "new"
  /\ IF v.cache_mode = "vram" THEN stage' = "none" /\ UNCHANGED <<v, plan>>
     ELSE IF v.cache_mode = "native"
     THEN stage' = (IF NativeAccepted THEN "none" ELSE "refused") /\ UNCHANGED <<v, plan>>
     ELSE IF Accepted THEN stage' = "planned" /\ v' = Derived /\ plan' = CacheService
     ELSE stage' = "refused" /\ UNCHANGED <<v, plan>>
  /\ UNCHANGED <<hub, opened, launches>>

\* The helper pins a branch to the revision it points to now.
resolve_checkpoint(m, revision) ==
  LET r == IF revision = 0 THEN hub[m] ELSE revision IN [identity |-> <<m, r>>, revision |-> r]
Draft ==
  CASE v.mode \in {"mtp", "dspark"} -> resolve_checkpoint("target", v.revision)
    [] v.mode = "dflash2" -> resolve_checkpoint("draft", v.draft_revision)
    [] OTHER -> [identity |-> <<>>, revision |-> 0]
Unpinned(revision) == 0
Pinned(revision) == revision
resolve_identity ==
  LET target == resolve_checkpoint("target", v.revision)
      identity == <<target.identity, Draft.identity, v.runtime>>
      Filled(spaces) == {[s EXCEPT !.weights = identity] : s \in spaces}
  IN  /\ stage = "planned"
      /\ stage' = "resolved"
      /\ IF ~plan.identity_required THEN UNCHANGED <<v, plan>>
         ELSE /\ v' = [v EXCEPT !.revision = Pinned(target.revision),
                                !.draft_revision = IF Draft.revision # 0 THEN Pinned(Draft.revision) ELSE @]
              /\ plan' = [plan EXCEPT !.l2 = Filled(@), !.index = Filled(@), !.namespace.weights = identity,
                            !.checkpoint_identity = IF plan.connector = "recurrent" THEN identity ELSE @]
      /\ UNCHANGED <<hub, opened, launches>>

\* The engine loads its weights, and the service opens its directories.
LoadedWeights ==
  LET at(m, revision) == <<m, IF revision = 0 THEN hub[m] ELSE revision>>
  IN  <<at("target", v.revision),
        CASE v.mode \in {"mtp", "dspark"} -> at("target", v.draft_revision)
          [] v.mode = "dflash2" -> at("draft", v.draft_revision)
          [] OTHER -> <<>>, v.runtime>>
Load ==
  /\ stage = "resolved"
  /\ stage' = "loaded"
  /\ opened' = opened \cup
       {[where |-> n, weights |-> LoadedWeights,
         layout |-> <<v.id, v.tp, v.dcp, v.dtype, v.block, v.mode, v.drafts, v.chunk, v.page, v.policy>>] :
           n \in plan.l2 \cup plan.index}
  /\ UNCHANGED <<v, plan, hub, launches>>
Relaunch ==
  /\ stage \in {"none", "refused", "loaded"} /\ launches < MaxLaunches
  /\ v' \in Settings /\ v'.again /\ v.again
  /\ stage' = "new" /\ plan' = Blank /\ launches' = launches + 1
  /\ UNCHANGED <<hub, opened>>
Move(m) ==
  /\ v.again /\ hub[m] <= MaxMoves
  /\ hub' = [hub EXCEPT ![m] = @ + 1]
  /\ UNCHANGED <<v, stage, plan, opened, launches>>
Next == configure \/ resolve_identity \/ Load \/ Relaunch \/ \E m \in Models : Move(m)
Spec == Init /\ [][Next]_vars
-----------------------------------------------------------------------------
\* A plan is consistent, whatever the settings came from: the engine schedules
\* an object per step and has rows for the drafts besides, objects hold whole
\* pages over the context ranks, exact boundaries come with the connector, the
\* transfer and the retention they need, and four ports are four ports.
PlanIsConsistent ==
  stage \in {"planned", "resolved", "loaded"} =>
    /\ Glm => v.scheduled = v.chunk /\ v.batched - v.scheduled >= (IF v.mode = "dflash2" THEN v.drafts * v.seqs ELSE 0)
    /\ Glm /\ v.page # Auto => Divides(v.page * v.dcp, v.chunk)
    /\ Ds4 \/ Ds41 => Divides(v.block * v.dcp, v.chunk)
    /\ (plan.connector = "recurrent") = (v.policy = "request_boundaries" /\ (Glm \/ Qwen))
    /\ plan.connector = "recurrent" => plan.transfer = "engine_driven" /\ v.retention = 0
    /\ Glm /\ plan.connector = "mp" => v.retention = v.chunk
    /\ (plan.shm # <<>>) = (plan.transfer = "engine_driven")
    /\ Cardinality({v.port, v.cache_port, v.http_port, v.metrics_port}) = 4
\* A directory holds the states of one layout and one set of weights over all
\* launches ("Pin loaded weights and persistent namespace"), even if a branch
\* moves between naming the weights and loading them, and none is opened
\* before the weights are named ("Model identity must be resolved before
\* persistent storage is opened").
NamespacesAreSeparate ==
  \A o, p \in opened :
    /\ o.where = p.where => o.weights = p.weights /\ o.layout = p.layout
    /\ o.where.weights = o.weights
=============================================================================
