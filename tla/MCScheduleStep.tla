-------------------------- MODULE MCScheduleStep --------------------------
(* Instances of ScheduleStep for TLC. *)
EXTENDS ScheduleStep, TLC
CONSTANTS r1, r2, r3
R2 == {r1, r2}
R3 == {r1, r2, r3}
RankOf == r1 :> 2 @@ r2 :> 1 @@ r3 :> 3
RankOf2 == r1 :> 2 @@ r2 :> 1
NoAdapters == [r \in Req |-> 0]
OneOfEach == r1 :> 1 @@ r2 :> 2 @@ r3 :> 0
TwoAdapters == [r \in Req |-> IF r = r1 THEN 1 ELSE 2]
=============================================================================
