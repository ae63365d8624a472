--------------------------- MODULE MCPluginFleet ---------------------------
(* Two instances that share an id, so that one can replace the other, and  *)
(* a third; a discovery finds nothing, one plugin or one of each id.       *)
EXTENDS PluginFleet

CONSTANTS old, new, other, a, b

MCPlugins == {old, new, other}
MCIdOf == [p \in MCPlugins |-> IF p = other THEN b ELSE a]
MCDirectories == {<<>>, <<new, other>>}

(* An application that changes the registry only while no sweep is under   *)
(* way.                                                                    *)
QuietSpec ==
  Init /\ [][/\ Next
             /\ (\E e \in Engines : Sweeping(e)) => UNCHANGED registry]_vars
=============================================================================
