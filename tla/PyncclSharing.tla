----------------------------- MODULE PyncclSharing -----------------------------
(* PyNCCL communicators shared by groups over the same ranks                 *)
(* (VLLM_SHARE_PYNCCL_COMMS, cuda_communicator.py). Every rank creates, uses *)
(* and destroys its groups in the same order, but at its own pace, and finds *)
(* a communicator to share in a table of its own; making one takes all of    *)
(* its ranks.                                                                *)
EXTENDS Integers, Sequences, FiniteSets

CONSTANTS
  World,    \* number of ranks
  Groups,   \* sequence of [ranks, stateless]: the groups there may be
  MaxCalls  \* bound: calls of the program

VARIABLES
  share,   \* VLLM_SHARE_PYNCCL_COMMS
  program, \* the calls made so far: [do |-> "create", "use" or "destroy", g |-> a group]
  pos,     \* rank |-> calls done
  entered, \* rank |-> it has entered call pos + 1, which waits for the other ranks
  table,   \* _SHARED_PYNCCL: rank |-> key |-> [comm, owners]
  held,    \* rank |-> group |-> [comm, key]: pynccl_comm and _pynccl_share_key
  alive    \* <<rank, communicator>> not destroyed
vars == <<share, program, pos, entered, table, held, alive>>

Ranks == 0..(World - 1)
Names == DOMAIN Groups
Members(g) == {Groups[g].ranks[i] : i \in DOMAIN Groups[g].ranks}
Without(f, x) == [y \in DOMAIN f \ {x} |-> f[y]]
With(f, x, v) == [y \in DOMAIN f \cup {x} |-> IF y = x THEN v ELSE f[y]]

\* Groups with the same ranks in the same order have one key.
NoKey == <<>>
ShareKey(g) == IF ~share \/ Groups[g].stateless THEN NoKey ELSE Groups[g].ranks

Call(r) == program[pos[r] + 1]
At(r, do) == pos[r] < Len(program) /\ Call(r).do = do /\ r \in Members(Call(r).g)
Exists(g) == \E i \in DOMAIN program :
  program[i] = [do |-> "create", g |-> g] /\ \A j \in (i + 1)..Len(program) : program[j] # [do |-> "destroy", g |-> g]
Advance(R) == pos' = [r \in Ranks |-> IF r \in R THEN pos[r] + 1 ELSE pos[r]]

Init ==
  /\ share \in BOOLEAN
  /\ program = <<>> /\ alive = {}
  /\ pos = [r \in Ranks |-> 0]
  /\ entered = [r \in Ranks |-> FALSE]
  /\ table = [r \in Ranks |-> [k \in {} |-> 0]]
  /\ held = [r \in Ranks |-> [g \in {} |-> 0]]

\* The first rank to get there decides what the program does next.
Decide(do, g) ==
  /\ Len(program) < MaxCalls /\ \E r \in Ranks : pos[r] = Len(program)
  /\ (do = "create") = ~Exists(g)
  /\ program' = Append(program, [do |-> do, g |-> g])
  /\ UNCHANGED <<share, pos, entered, table, held, alive>>
Skip(r) ==
  /\ pos[r] < Len(program) /\ r \notin Members(Call(r).g)
  /\ Advance({r})
  /\ UNCHANGED <<share, program, entered, table, held, alive>>

\* A communicator of the table gets another owner ...
OwnersKept(n) == n
OneMore(n) == n + 1
_acquire_pynccl(r) ==
  LET g == Call(r).g
      k == ShareKey(g)
  IN  /\ At(r, "create") /\ ~entered[r] /\ k \in DOMAIN table[r]
      /\ table' = [table EXCEPT ![r][k].owners = OneMore(@)]
      /\ held' = [held EXCEPT ![r] = With(@, g, [comm |-> table[r][k].comm, key |-> k])]
      /\ Advance({r})
      /\ UNCHANGED <<share, program, entered, alive>>
\* ... or one is made by all ranks of the group together.
Enter(r) ==
  /\ ~entered[r]
  /\ \/ At(r, "create") /\ ShareKey(Call(r).g) \notin DOMAIN table[r]
     \/ At(r, "use")
  /\ entered' = [entered EXCEPT ![r] = TRUE]
  /\ UNCHANGED <<share, program, pos, table, held, alive>>
Gathered(g) == \A r \in Members(g) : pos[r] < Len(program) /\ Call(r).g = g /\ entered[r] /\ pos[r] = pos[CHOOSE s \in Members(g) : TRUE]
PyNcclCommunicator(g) ==
  LET k == ShareKey(g)
      born(r) == [comm |-> <<pos[r], Groups[g].ranks>>, owners |-> 1]
  IN  /\ Gathered(g) /\ \A r \in Members(g) : At(r, "create")
      /\ table' = [r \in Ranks |-> IF r \in Members(g) /\ k # NoKey THEN With(table[r], k, born(r)) ELSE table[r]]
      /\ held' = [r \in Ranks |-> IF r \in Members(g) THEN With(held[r], g, [comm |-> born(r).comm, key |-> k]) ELSE held[r]]
      /\ alive' = alive \cup {<<r, born(r).comm>> : r \in Members(g)}
      /\ entered' = [r \in Ranks |-> entered[r] /\ r \notin Members(g)]
      /\ Advance(Members(g))
      /\ UNCHANGED <<share, program>>
\* A collective of the group.
Collective(g) ==
  /\ Gathered(g) /\ \A r \in Members(g) : At(r, "use")
  /\ entered' = [r \in Ranks |-> entered[r] /\ r \notin Members(g)]
  /\ Advance(Members(g))
  /\ UNCHANGED <<share, program, table, held, alive>>

\* The last owner destroys the communicator.
_release_pynccl(r) ==
  LET h == held[r][Call(r).g]
      listed == h.key # NoKey /\ h.key \in DOMAIN table[r] /\ table[r][h.key].comm = h.comm
      left == table[r][h.key].owners - 1
  IN  /\ At(r, "destroy")
      /\ table' = IF ~listed THEN table
                  ELSE IF left = 0 THEN [table EXCEPT ![r] = Without(@, h.key)]
                  ELSE [table EXCEPT ![r][h.key].owners = left]
      /\ alive' = IF listed /\ left > 0 THEN alive ELSE alive \ {<<r, h.comm>>}
      /\ held' = [held EXCEPT ![r] = Without(@, Call(r).g)]
      /\ Advance({r})
      /\ UNCHANGED <<share, program, entered>>

Next ==
  \/ \E do \in {"create", "use", "destroy"}, g \in Names : Decide(do, g)
  \/ \E r \in Ranks : Skip(r) \/ _acquire_pynccl(r) \/ Enter(r) \/ _release_pynccl(r)
  \/ \E g \in Names : PyNcclCommunicator(g) \/ Collective(g)
Spec == Init /\ [][Next]_vars
-----------------------------------------------------------------------------
Idle(r) == pos[r] = Len(program)
\* A group's communicator lives as long as the group, numbers the ranks as the
\* group does, and is the same on all ranks that use it together; it dies with
\* its last owner; and no rank waits for ever for another that took a
\* communicator from its table instead ("Every rank creates its groups in the
\* same order, so each rank makes the same reuse decision").
CommunicatorsAreShared ==
  /\ \A r \in Ranks : \A g \in DOMAIN held[r] :
       <<r, held[r][g].comm>> \in alive /\ held[r][g].comm[2] = Groups[g].ranks
  /\ \A a \in alive : \E g \in DOMAIN held[a[1]] : held[a[1]][g].comm = a[2]
  /\ \A g \in Names : Gathered(g) /\ (\A r \in Members(g) : At(r, "use")) =>
       \A r, s \in Members(g) : held[r][g].comm = held[s][g].comm
  /\ \/ \A r \in Ranks : Idle(r)
     \/ \E r \in Ranks : ~Idle(r) /\ (~entered[r] \/ Gathered(Call(r).g))
=============================================================================
