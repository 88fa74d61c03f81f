------------------------------ MODULE MCAlarm ------------------------------
(* An engine that is a sub-unit, with a contactor and a level sensor, for  *)
(* model checking module AlarmProps.                                       *)
EXTENDS AlarmProps, TLC

CONSTANTS km, sensor, engine, line

OwnerOf  == (km :> engine) @@ (sensor :> line)
ParentOf == (engine :> line) @@ (line :> NoUnit)
RankOf   == (km :> 1) @@ (sensor :> 2)
LevelOf  == [t \in Tags |-> 1]

=============================================================================
