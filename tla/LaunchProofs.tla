----------------------------- MODULE LaunchProofs -----------------------------
(* The arena of the cache service follows its lock: proofs for any number   *)
(* of containers, every environment and all command lists.                  *)
EXTENDS Launch, TLAPS

PC == {"off", "lock", "look", "unlink", "lil", "up"}
Name(port) == <<"glm53-flash", port, port + 10000>>
ArenaTypes ==
  /\ pc \in [Containers -> PC]
  /\ refused \in [Containers -> {"", "arguments", "lock", "arena"}]
  /\ DOMAIN args = Containers
  /\ DOMAIN arena = ArenaNames

(* A container beyond the lock holds it for as long as it lives; the       *)
(* launcher's arena is free when it hands over to lil, which makes it; and  *)
(* a start with the launcher's own arguments is at the launcher's arena.    *)
ArenaOfContainer(c) ==
  /\ pc[c] # "off" => ArenaOf(c) \in ArenaNames
  /\ pc[c] \in {"lock", "look", "unlink"} => args[c].lil.lmcache
  /\ pc[c] \in {"look", "unlink", "lil", "up"} /\ args[c].lil.lmcache => lock = c
  /\ pc[c] = "lil" /\ args[c].lil.lmcache => arena[LMCACHE_ARENA] = Nobody
  /\ pc[c] = "up" /\ args[c].lil.lmcache => arena[ArenaOf(c)] = c
  /\ refused[c] = "arena" => ArenaOf(c) # LMCACHE_ARENA

LaunchInv == ArenaTypes /\ \A c \in Containers : ArenaOfContainer(c)

LEMMA LaunchInit == Init => LaunchInv
  <1> SUFFICES ASSUME Init PROVE LaunchInv
    OBVIOUS
  <1>1. ArenaTypes
    <2>1. DOMAIN arena = ArenaNames
      BY DEF Init
    <2>2. args = [c \in Containers |-> None] /\ pc = [c \in Containers |-> "off"]
          /\ refused = [c \in Containers |-> ""]
      BY Zenon DEF Init
    <2> QED BY <2>1, <2>2 DEF ArenaTypes, PC
  <1>2. ASSUME NEW c \in Containers PROVE ArenaOfContainer(c)
    BY DEF Init, ArenaOfContainer
  <1> QED BY <1>1, <1>2 DEF LaunchInv

LEMMA ArenaNamed == LMCACHE_ARENA \in ArenaNames
  BY DEF ArenaNames

(* A container's arena is the one its list names, before and after a step. *)
LEMMA ArenaByPort ==
  \A c : ArenaOf(c) = Name(args[c].lil.port) /\ ArenaOf(c)' = Name(args'[c].lil.port)
  BY DEF ArenaOf, Name

(* Where a container's name does not change, ArenaOf does not. *)
LEMMA SameArena == args' = args => \A c \in Containers : ArenaOf(c)' = ArenaOf(c)
  BY DEF ArenaOf

(* Leaving gives the lock back, and takes nothing from anyone else. *)
LEMMA LeaveStep ==
  ASSUME Nobody \notin Containers, LaunchInv, NEW d \in Containers,
         NEW why \in {"", "arguments", "lock", "arena"}, Leave(d, why),
         why = "arena" => ArenaOf(d) # LMCACHE_ARENA, UNCHANGED <<args, arena>>
  PROVE  LaunchInv'
  <1>1. ArenaTypes /\ \A c \in Containers : ArenaOfContainer(c)
    BY DEF LaunchInv
  <1>2. ArenaTypes'
    BY <1>1 DEF Leave, ArenaTypes, PC
  <1>3. ASSUME NEW c \in Containers PROVE ArenaOfContainer(c)'
    <2>1. CASE c = d
      BY <1>1, <2>1, SameArena DEF Leave, ArenaTypes, ArenaOfContainer, PC
    <2>2. CASE c # d
      BY <1>1, <2>2, SameArena DEF Leave, ArenaTypes, ArenaOfContainer, PC
    <2> QED BY <2>1, <2>2
  <1> QED BY <1>2, <1>3 DEF LaunchInv

LEMMA LaunchStep ==
  ASSUME Nobody \notin Containers, LaunchInv, [Next]_vars
  PROVE  LaunchInv'
  <1> USE DEF PC
  <1>1. ArenaTypes /\ \A c \in Containers : ArenaOfContainer(c)
    BY DEF LaunchInv
  <1>2. ASSUME NEW d \in Containers, Start(d) PROVE LaunchInv'
    <2>1. pc[d] = "off" /\ arena' = arena
      BY <1>2 DEF Start
    <2>2. CASE Leave(d, "arguments") /\ UNCHANGED args
      BY <1>1, <2>1, <2>2, LeaveStep
    <2>3. ASSUME NEW a, NEW active, main(d, a, active), Name(a.port) \in ArenaNames PROVE LaunchInv'
      <3>1. CASE Admitted(a)
        <4>1. args' = [args EXCEPT ![d] = Given(a, active)]
              /\ Go(d, IF a.lmcache THEN "lock" ELSE "lil") /\ UNCHANGED lock
          BY <2>3, <3>1 DEF main
        <4>2. ArenaTypes'
          BY <1>1, <2>1, <4>1 DEF ArenaTypes, Go
        <4>3. ASSUME NEW c \in Containers PROVE ArenaOfContainer(c)'
          <5>1. CASE c = d
            <6>1. args'[d].lil = a
              BY <1>1, <4>1 DEF ArenaTypes, Given
            <6>2. ArenaOf(d)' = Name(a.port)
              BY <6>1, ArenaByPort
            <6>3. pc'[d] = (IF a.lmcache THEN "lock" ELSE "lil") /\ refused'[d] = ""
              BY <1>1, <4>1 DEF ArenaTypes, Go
            <6> QED BY <2>3, <5>1, <6>1, <6>2, <6>3 DEF ArenaOfContainer
          <5>2. CASE c # d
            <6>1. args'[c] = args[c]
              BY <1>1, <4>1, <5>2 DEF ArenaTypes
            <6>2. ArenaOf(c)' = ArenaOf(c) /\ args'[c] = args[c]
              BY <6>1, ArenaByPort
            <6> QED BY <1>1, <2>1, <4>1, <5>2, <6>2 DEF ArenaTypes, ArenaOfContainer, Go
          <5> QED BY <5>1, <5>2
        <4> QED BY <4>2, <4>3 DEF LaunchInv
      <3>2. CASE ~Admitted(a)
        BY <2>2, <2>3, <3>2 DEF main
      <3> QED BY <3>1, <3>2
    <2>4. CASE main(d, build_args(env), Active(env))
      <3>1. build_args(env).port = 8000
        BY DEF build_args
      <3>2. PICK a, active : a = build_args(env) /\ active = Active(env)
        OBVIOUS
      <3>3. main(d, a, active)
        BY <2>4, <3>2
      <3>4. Name(a.port) \in ArenaNames
        BY <3>1, <3>2 DEF ArenaNames, Name, LMCACHE_ARENA
      <3> QED BY <2>3, <3>3, <3>4
    <2>5. ASSUME NEW l \in Lists, main(d, l, FALSE) PROVE LaunchInv'
      <3>1. Name(l.port) \in ArenaNames
        BY DEF ArenaNames, Name
      <3> QED BY <2>3, <2>5, <3>1
    <2> QED BY <1>2, <2>2, <2>4, <2>5 DEF Start
  <1>3. ASSUME NEW d \in Containers, Claim(d) PROVE LaunchInv'
    <2>1. CASE Leave(d, "lock")
      BY <1>1, <1>3, <2>1, LeaveStep DEF Claim
    <2>2. CASE Go(d, "look") /\ lock = Nobody /\ lock' = d
      <3>1. ArenaTypes'
        BY <1>1, <1>3, <2>2 DEF Claim, Go, ArenaTypes
      <3>2. ASSUME NEW c \in Containers PROVE ArenaOfContainer(c)'
        BY <1>1, <1>3, <2>2, SameArena DEF Claim, Go, ArenaTypes, ArenaOfContainer
      <3> QED BY <3>1, <3>2 DEF LaunchInv
    <2> QED BY <1>3, <2>1, <2>2 DEF Claim
  <1>4. ASSUME NEW d \in Containers, Look(d) PROVE LaunchInv'
    <2>1. ArenaTypes'
      BY <1>1, <1>4 DEF Look, Go, ArenaTypes
    <2>2. ASSUME NEW c \in Containers PROVE ArenaOfContainer(c)'
      BY <1>1, <1>4, SameArena DEF Look, Go, ArenaTypes, ArenaOfContainer
    <2> QED BY <2>1, <2>2 DEF LaunchInv
  (* The arena that is removed is nobody's: who ran with it would hold the lock. *)
  <1>5. ASSUME NEW d \in Containers, Unlink(d) PROVE LaunchInv'
    <2>1. lock = d /\ \A c \in Containers \ {d} : ~(pc[c] \in {"lil", "up"} /\ args[c].lil.lmcache)
      BY <1>1, <1>5 DEF Unlink, ArenaOfContainer
    <2>2. ArenaTypes'
      BY <1>1, <1>5 DEF Unlink, Go, ArenaTypes
    <2>3. ASSUME NEW c \in Containers PROVE ArenaOfContainer(c)'
      BY <1>1, <1>5, <2>1, SameArena, ArenaNamed DEF Unlink, Go, ArenaTypes, ArenaOfContainer
    <2> QED BY <2>2, <2>3 DEF LaunchInv
  <1>6. ASSUME NEW d \in Containers, Lil(d) PROVE LaunchInv'
    <2>1. CASE args[d].lil.lmcache /\ arena[ArenaOf(d)] # Nobody
      <3>1. ArenaOf(d) # LMCACHE_ARENA
        BY <1>1, <1>6, <2>1 DEF Lil, ArenaOfContainer
      <3> QED BY <1>1, <1>6, <2>1, <3>1, LeaveStep DEF Lil
    <2>2. CASE args[d].lil.lmcache /\ arena[ArenaOf(d)] = Nobody
      <3>1. lock = d /\ \A c \in Containers \ {d} : ~(pc[c] \in {"lil", "up"} /\ args[c].lil.lmcache)
        BY <1>1, <1>6, <2>2 DEF Lil, ArenaOfContainer
      <3>2. arena' = [arena EXCEPT ![ArenaOf(d)] = d] /\ Go(d, "up") /\ lock' = lock /\ args' = args
        BY <1>6, <2>2 DEF Lil, LockAfterExec
      <3>3. pc[d] = "lil" /\ ArenaOf(d) \in ArenaNames
        BY <1>1, <1>6 DEF Lil, ArenaOfContainer
      <3>4. ArenaTypes'
        BY <1>1, <3>2 DEF Go, ArenaTypes
      <3>5. ASSUME NEW c \in Containers PROVE ArenaOfContainer(c)'
        BY <1>1, <3>1, <3>2, <3>3, SameArena DEF Go, ArenaTypes, ArenaOfContainer
      <3> QED BY <3>4, <3>5 DEF LaunchInv
    <2>3. CASE ~args[d].lil.lmcache
      <3>1. arena' = arena /\ Go(d, "up") /\ lock' = lock /\ args' = args
        BY <1>6, <2>3 DEF Lil, LockAfterExec
      <3>2. pc[d] = "lil"
        BY <1>6 DEF Lil
      <3>3. ArenaTypes'
        BY <1>1, <3>1 DEF Go, ArenaTypes
      <3>4. ASSUME NEW c \in Containers PROVE ArenaOfContainer(c)'
        BY <1>1, <2>3, <3>1, <3>2, SameArena DEF Go, ArenaTypes, ArenaOfContainer
      <3> QED BY <3>3, <3>4 DEF LaunchInv
    <2> QED BY <2>1, <2>2, <2>3
  <1>7. ASSUME NEW d \in Containers, Die(d) PROVE LaunchInv'
    BY <1>1, <1>7, LeaveStep DEF Die
  <1>8. CASE UNCHANGED vars
    <2>1. ArenaTypes'
      BY <1>1, <1>8 DEF vars, ArenaTypes
    <2>2. ASSUME NEW c \in Containers PROVE ArenaOfContainer(c)'
      BY <1>1, <1>8, SameArena DEF vars, ArenaOfContainer
    <2> QED BY <2>1, <2>2 DEF LaunchInv
  <1> QED BY <1>2, <1>3, <1>4, <1>5, <1>6, <1>7, <1>8 DEF Next

(* However many containers start and die, and at whatever ports, whoever   *)
(* unlinks or creates the arena never takes it from a server that runs      *)
(* (_claim_lmcache_arena), and a start at the launcher's port is never      *)
(* refused because of a dead server's arena.                                *)
THEOREM ArenaIsKept == ASSUME Nobody \notin Containers PROVE Spec => []ArenaFollowsLock
  <1>1. Init => LaunchInv
    BY LaunchInit
  <1>2. LaunchInv /\ [Next]_vars => LaunchInv'
    BY LaunchStep
  <1>3. LaunchInv => ArenaFollowsLock
    BY DEF LaunchInv, ArenaOfContainer, ArenaFollowsLock
  <1> QED BY <1>1, <1>2, <1>3, PTL DEF Spec
=============================================================================
