----------------------------- MODULE MCProjects -----------------------------
(* Version 2 of the template lacks every parameter of version 1.           *)
EXTENDS Projects

MCRetired == <<{}, Params>>

(* A project that has been created and whose first render is under way.    *)
Rendering ==
  \E s \in Sessions :
    LET first == [seq |-> 0, job |-> 1, overrides |-> {}, published |-> FALSE,
                  kind |-> "edit"]
    IN /\ project = [current |-> 0, version |-> 1, sessions |-> s, history |-> <<first>>]
       /\ row = [current |-> 0, version |-> 1, sessions |-> s]
       /\ rows = {first} /\ listed = TRUE
       /\ status = [j \in Jobs |-> IF j = 1 THEN "live" ELSE "absent"]
       /\ made = [j \in Jobs |-> IF j = 1 THEN [sessions |-> s, version |-> 1] ELSE None]
       /\ cancelled = [j \in Jobs |-> FALSE]
       /\ req = [t \in Threads |-> Idle]
       /\ torn = FALSE

OverlapSpec == Rendering /\ [][Next]_vars
=============================================================================
