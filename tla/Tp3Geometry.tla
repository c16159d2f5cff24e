----------------------------- MODULE Tp3Geometry -----------------------------
(* The padded axes of GLM-5.3 on three ranks                                *)
(* (vllm/transformers_utils/configs/glm53_tp3.py). A model has a text       *)
(* configuration, perhaps an outer one that repeats some of its fields, and *)
(* perhaps a vision tower; the geometry is applied, maybe several times, to *)
(* the target and to its draft, and must be all or nothing.                 *)
EXTENDS Integers, FiniteSets, Functions

CONSTANTS
  Models,      \* models to start from (see Model)
  MoeWidths,   \* values of VLLM_GLM53_TP3_MOE_TP
  MaxCalls     \* bound: calls of the two functions

VARIABLES
  model,    \* "target", "draft": its configurations
  before,   \* the models as they were read from the checkpoint
  moe_tp_width, ep, tp,   \* environment and parallel configuration
  calls, outcome          \* outcome of the last call
vars == <<model, before, moe_tp_width, ep, tp, calls, outcome>>

\* Fields a configuration has, their values, and the original_* fields.
Config(fields) == [now |-> fields, original |-> <<>>, marks |-> <<>>]
\* glm, dflash: what the architecture names say; configs: the text
\* configuration first; vision: none or one, by whether the encoder is sharded.
Model(glm, dflash, configs, vision) ==
  [glm |-> glm, dflash |-> dflash, configs |-> configs, vision |-> vision]

Merge(f, g) == [x \in DOMAIN f \cup DOMAIN g |-> IF x \in DOMAIN g THEN g[x] ELSE f[x]]
_logical_value(c, name) ==
  IF name \in DOMAIN c.original THEN c.original[name] ELSE c.now[name]
RequirePadded(c, shapes) == \A name \in DOMAIN shapes \cap DOMAIN c.now :
  c.now[name] = shapes[name]

_require_shape(c, shapes) == \A name \in DOMAIN shapes \cap DOMAIN c.now :
  _logical_value(c, name) = shapes[name]

target_shapes ==
  [num_attention_heads |-> 64, num_key_value_heads |-> 64, linear_num_heads |-> 64,
   moe_intermediate_size |-> 2048, hidden_size |-> 4096, vocab_size |-> 154880]
target_axes(width) ==
  LET heads == [num_attention_heads |-> 72, num_key_value_heads |-> 72, linear_num_heads |-> 66]
  IN  IF width = 0 THEN heads ELSE Merge(heads, [moe_intermediate_size |-> width])
target_marks ==
  [shared_expert_intermediate_size |-> 2112, mtp_projection_size |-> 4098,
   vocab_padding_size |-> 192, vocab_storage_size |-> 154944]
vision_shapes ==
  [num_heads |-> 16, hidden_size |-> 1024, intermediate_size |-> 4096,
   projection_intermediate_size |-> 10240]
vision_axes ==
  [num_heads |-> 18, intermediate_size |-> 4098, projection_intermediate_size |-> 10242]
draft_shapes ==
  [num_attention_heads |-> 32, num_key_value_heads |-> 8, vocab_size |-> 154880]
draft_axes == [num_attention_heads |-> 36, num_key_value_heads |-> 9]
draft_marks == [vocab_padding_size |-> 192, vocab_storage_size |-> 154944]

\* Pads the fields a configuration has; their old values become originals.
Pad(c, axes, shapes, marks) ==
  LET padded == DOMAIN axes \cap DOMAIN c.now
  IN  [now |-> [x \in DOMAIN c.now |-> IF x \in padded THEN axes[x] ELSE c.now[x]],
       original |-> Merge(c.original, [x \in padded |-> shapes[x]]),
       marks |-> marks]
\* draft_vocab_size and original_vocab_size of a DFlash draft.
KeepVocab(c) ==
  IF "vocab_size" \notin DOMAIN c.now THEN c
  ELSE [c EXCEPT !.original = Merge(@, [vocab_size |-> 154880]),
                 !.now = Merge([draft_vocab_size |-> 154880], @)]

ExpertsAgree == IF moe_tp_width = 0 THEN ep ELSE moe_tp_width = 2112 /\ ~ep

apply_glm53_tp3_target_geometry(mo) ==
  IF tp # 3 \/ ~mo.glm THEN [result |-> "unchanged", model |-> mo]
  ELSE IF /\ ExpertsAgree
          /\ DOMAIN target_shapes \subseteq DOMAIN mo.configs[1].now
          /\ \A i \in DOMAIN mo.configs : _require_shape(mo.configs[i], target_shapes)
          /\ \A i \in DOMAIN mo.vision : _require_shape(mo.vision[i], vision_shapes)
  THEN [result |-> "applied", model |->
         [mo EXCEPT
            !.configs = [i \in DOMAIN @ |-> Pad(@[i], target_axes(moe_tp_width),
                                                target_shapes, target_marks)],
            !.vision = [i \in DOMAIN @ |-> Pad(@[i], vision_axes, vision_shapes,
                                               [attention_projection_size |-> 1152])]]]
  ELSE [result |-> "error", model |-> mo]

apply_glm53_tp3_draft_geometry(target, draft) ==
  IF tp # 3 \/ ~target.glm THEN [result |-> "unchanged", model |-> draft]
  ELSE IF draft.glm THEN apply_glm53_tp3_target_geometry(draft)
  ELSE IF ~draft.dflash THEN [result |-> "unchanged", model |-> draft]
  ELSE IF /\ DOMAIN draft_shapes \subseteq DOMAIN draft.configs[1].now
          /\ \A i \in DOMAIN draft.configs : _require_shape(draft.configs[i], draft_shapes)
  THEN [result |-> "applied", model |->
         [draft EXCEPT !.configs = [i \in DOMAIN @ |->
            KeepVocab(Pad(@[i], draft_axes, draft_shapes, draft_marks))]]]
  ELSE [result |-> "error", model |-> draft]

Init ==
  /\ model \in [{"target", "draft"} -> Models] /\ before = model
  /\ moe_tp_width \in MoeWidths /\ ep \in BOOLEAN /\ tp \in {1, 3}
  /\ calls = 0 /\ outcome = [target |-> "none", draft |-> "none"]

Apply(which, done) ==
  /\ calls < MaxCalls /\ calls' = calls + 1
  /\ model' = [model EXCEPT ![which] = done.model]
  /\ outcome' = [outcome EXCEPT ![which] = done.result]
  /\ UNCHANGED <<before, moe_tp_width, ep, tp>>
ApplyTarget == Apply("target", apply_glm53_tp3_target_geometry(model.target))
ApplyDraft  == Apply("draft", apply_glm53_tp3_draft_geometry(model.target, model.draft))

Next == ApplyTarget \/ ApplyDraft
Spec == Init /\ [][Next]_vars
-----------------------------------------------------------------------------
Parts(mo) == {mo.configs[i] : i \in DOMAIN mo.configs} \cup {mo.vision[i] : i \in DOMAIN mo.vision}
\* Axes that are cut over the ranks; experts only where they are not whole.
Sharded == {"num_attention_heads", "num_key_value_heads", "linear_num_heads", "num_heads",
            "intermediate_size", "projection_intermediate_size", "vocab_padding_size",
            "vocab_storage_size", "shared_expert_intermediate_size", "mtp_projection_size"}
             \cup (IF ep THEN {} ELSE {"moe_intermediate_size"})

\* A model either keeps the checkpoint's geometry or has the whole padded
\* one, however often and in whichever order target and draft are padded:
\* every sharded axis divides by three, no axis shrank, the checkpoint's own
\* sizes can still be told, and a second call does not pad the padding.
GeometryIsWhole ==
  \A w \in {"target", "draft"} :
    LET Whole(c, old) ==
          /\ \A x \in Sharded \cap DOMAIN c.now : c.now[x] % 3 = 0
          /\ \A x \in Sharded \cap DOMAIN c.marks : c.marks[x] % 3 = 0
          /\ \A x \in DOMAIN old.now : c.now[x] >= old.now[x] /\ _logical_value(c, x) = old.now[x]
    IN  IF \E c \in Parts(model[w]) : c.marks # <<>>
        THEN /\ \A i \in DOMAIN model[w].configs : Whole(model[w].configs[i], before[w].configs[i])
             /\ \A i \in DOMAIN model[w].vision : Whole(model[w].vision[i], before[w].vision[i])
             /\ outcome[w] = "applied"
        ELSE model[w] = before[w] /\ outcome[w] # "applied"
=============================================================================
