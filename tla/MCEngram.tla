------------------------------ MODULE MCEngram ------------------------------
(* Two ranks with one lazy table of three rows and enough host memory for    *)
(* it, while the experts are promoted and the engine has two steps in flight.*)
EXTENDS EngramTables

MCSettings == {[tp |-> 2, rows |-> 3, layers |-> <<"lazy">>, disk |-> TRUE, ram_in_graph |-> FALSE, host |-> 5,
                parked |-> 1, margin |-> 1, chunk |-> 1, max_tokens |-> 2]}
MCBatches == {[dummy |-> FALSE, ids |-> <<2, 0>>]}
=============================================================================
