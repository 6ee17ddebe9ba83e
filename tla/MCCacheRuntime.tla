--------------------------- MODULE MCCacheRuntime ---------------------------
(* Two renderings of one target: both register and stack the same frames   *)
(* and stretch the stack differently; the star mask of the second is an    *)
(* output of its own.                                                      *)
EXTENDS CacheRuntime

CONSTANTS register, stack, stretch, curves

MCHashes == {register, stack, stretch, curves}
MCInputs ==
  [h \in MCHashes |-> CASE h = register -> {}
                       [] h = stack -> {register}
                       [] h = stretch -> {stack}
                       [] h = curves -> {register, stack}]

MCKeep == {stack, stretch, curves}

Rendering(last, force) ==
  [nodes |-> <<register, stack, last>>, results |-> {last}, force |-> force]

MCRequests == {Rendering(stretch, FALSE), Rendering(curves, FALSE)}

(* Only the stack.                                                         *)
MCStacking ==
  {[nodes |-> <<register, stack>>, results |-> {stack}, force |-> FALSE]}

MCForcedRequests == MCRequests \cup {Rendering(stretch, TRUE)}

MCJobBudget == [j \in Jobs |-> IF j = 1 THEN 1 ELSE 2]

MCProjectOf == [j \in Jobs |-> IF j = 1 THEN "p" ELSE "q"]
=============================================================================
