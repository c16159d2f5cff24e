------------------------------ MODULE NgramHash ------------------------------
(* Hashing of n-grams ahead of a step (NgramHashState): a token is hashed    *)
(* with up to three before it, taken from the step itself or, at its start,  *)
(* from the tokens accepted before. The buffers are reused from step to step *)
(* and are longer than a step; padding follows the live tokens, image tokens *)
(* are dead and are not hashed. The hash itself is external: the tokens it   *)
(* is made of.                                                               *)
EXTENDS Integers, Sequences, FiniteSets, FiniteSetsExt, SequencesExt

CONSTANTS Texts,        \* request -> tokens it will have; Sentinel for an image
          Drafts,       \* a token no text has: a draft that is rejected
          Sentinel,
          Compress,     \* token_map: tokens that count as the same
          MaxTokens, MaxSeqs

VARIABLES done,     \* accepted tokens of each request
          buf,      \* ids, mask, starts, history: NgramHashState's buffers
          batch,    \* of the step: <<request, its tokens>>
          out       \* a hash per row of the step
vars == <<done, buf, batch, out>>

Requests == DOMAIN Texts
Depth == 3
Dead == -1
Rows == 1..MaxTokens
Seqs == 1..MaxSeqs
InVocabulary(raw) == raw \in DOMAIN Compress
Valid(raw) == InVocabulary(raw) /\ raw # Sentinel
Compressed(raw) == IF Valid(raw) THEN Compress[raw] ELSE Dead
\* The last tokens of a text, as the model runner keeps them.
lookback_token_ids(r) ==
  [k \in 1..Depth |-> IF done[r] - Depth + k >= 1 THEN Texts[r][done[r] - Depth + k] ELSE -1]

Init ==
  /\ done = [r \in Requests |-> 0] /\ batch = <<>> /\ out = <<>>
  /\ buf \in [ids : {[i \in Rows |-> 0]}, mask : {[i \in Rows |-> TRUE]}, starts : {[i \in 1..(MaxSeqs + 1) |-> 0]},
              history : {[q \in Seqs |-> [k \in 1..Depth |-> Dead]]}, num_tokens : {0}, num_seqs : {0}]

\* The kernel that fills the buffers, behind the live part as well.
_prepare_metadata(b, flat, starts, live) ==
  LET seqs == Len(b) IN
  [ids     |-> [i \in Rows |-> IF i <= live THEN flat[i] ELSE 0],
   mask    |-> [i \in Rows |-> i <= live /\ flat[i] # Sentinel],
   starts  |-> [i \in 1..(MaxSeqs + 1) |-> IF i <= seqs + 1 THEN starts[i] ELSE live],
   history |-> [q \in Seqs |-> [k \in 1..Depth |-> IF q <= seqs THEN Compressed(lookback_token_ids(b[q][1])[k]) ELSE Dead]],
   num_tokens |-> live, num_seqs |-> seqs]

\* The native hash of row i over the buffers: its request by the starts; what
\* is missing before its start comes from the history.
Ngram(w, i) ==
  LET owner == {q \in 1..w.num_seqs : w.starts[q] < i /\ i <= w.starts[q + 1]}
      At(q, j) == IF j > w.starts[q]
                  THEN IF w.mask[j] THEN Compress[w.ids[j]] ELSE Dead
                  ELSE LET k == Depth + j - w.starts[q] IN IF k >= 1 THEN w.history[q][k] ELSE Dead
  IN  IF owner = {} \/ ~w.mask[i] THEN <<>>
      ELSE [k \in 0..Depth |-> At(CHOOSE q \in owner : TRUE, i - k)]

\* A step: requests in some order, each with its next tokens, the last of
\* which may be a draft; padded behind them. Then some of them are accepted.
run_native ==
  \E order \in SetToSeqs(Requests) \cup {<<r>> : r \in Requests} : \E take \in [Range(order) -> 1..MaxTokens], bad \in SUBSET Drafts :
    LET used == SelectSeq(order, LAMBDA r : done[r] + take[r] <= Len(Texts[r]))
        TokensOf(r) == LET t == SubSeq(Texts[r], done[r] + 1, done[r] + take[r])
                       IN  IF Len(t) > 1 /\ bad # {} THEN [t EXCEPT ![Len(t)] = Max(bad)] ELSE t
        b == [q \in DOMAIN used |-> <<used[q], TokensOf(used[q])>>]
        flat == FlattenSeq([q \in DOMAIN b |-> b[q][2]])
        live == Len(flat)
        starts == [i \in 1..(Len(b) + 1) |-> Len(FlattenSeq([q \in 1..(i - 1) |-> b[q][2]]))]
    IN  /\ b # <<>> /\ Len(b) <= MaxSeqs /\ live <= MaxTokens
        /\ \E padded \in live..MaxTokens :
             /\ buf' = _prepare_metadata(b, flat, starts, live)
             /\ out' = [i \in 1..padded |-> Ngram(buf', i)]
        /\ batch' = [q \in DOMAIN b |-> [request |-> b[q][1], tokens |-> b[q][2], before |-> done[b[q][1]]]]
        /\ \E kept \in [Range(used) -> 1..MaxTokens] :
             /\ \A r \in Range(used) : kept[r] <= take[r] /\ (bad # {} /\ take[r] > 1 => kept[r] < take[r])
             /\ done' = [r \in Requests |-> done[r] + (IF r \in Range(used) THEN kept[r] ELSE 0)]
Next == run_native
Spec == Init /\ [][Next]_vars
-----------------------------------------------------------------------------
\* However a text is cut into steps, whatever was in the buffers before and
\* whichever drafts were rejected, a token is hashed with the three tokens of
\* its own text before it; rows of padding and image tokens have no hash.
HashesMatchText ==
  LET rows == FlattenSeq([q \in DOMAIN batch |-> [i \in DOMAIN batch[q].tokens |-> <<q, i>>]])
      Expected(q, i) ==
        LET text == SubSeq(Texts[batch[q].request], 1, batch[q].before) \o batch[q].tokens
            n == batch[q].before + i
        IN  IF text[n] = Sentinel THEN <<>>
            ELSE [k \in 0..Depth |-> IF n - k >= 1 THEN Compressed(text[n - k]) ELSE Dead]
  IN  \A i \in DOMAIN out :
        out[i] = IF i <= Len(rows) THEN Expected(rows[i][1], rows[i][2]) ELSE <<>>
=============================================================================
