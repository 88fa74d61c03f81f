----------------------------- MODULE RouteProofs -----------------------------
(***************************************************************************)
(* Proof that routes and units keep their types (TypeOK of RouteProps),    *)
(* with the facts about the parts of the handlers that the proofs of       *)
(* RouteSafety and RouteReserves use as well: first the units thread, then *)
(* SetCommand and what it is built from, then the handlers of the routes   *)
(* thread.                                                                 *)
(***************************************************************************)
EXTENDS RouteProps, SequenceTheorems, TLAPS

-----------------------------------------------------------------------------
(* Types, for the units thread.                                            *)

(* The initial state has its types.                                        *)
LEMMA InitTypes == Init => TypeOK
<1> SUFFICES ASSUME Init PROVE TypeOK
  OBVIOUS
<1> USE UnitConstants, RouteConstants DEF Init, UnitInit
<1>1. HeldTypes
  BY DEF HeldTypes, UnitModes, RouteCommands
<1>2. PlantTypes
  BY DEF PlantTypes, UnitModes, EngineStates, MaxDue, hasEngine
<1>3. QueueTypes
  BY DEF QueueTypes
<1>4. CommandTypes
  <2>1. command \in [rt : Routes \cup {NoRoute}, ix : Nat]
    OBVIOUS
  <2>2. <<>> \in Seq(RouteCmds)
    OBVIOUS
  <2> QED
    BY <2>1, <2>2 DEF CommandTypes
<1>5. ListTypes
  BY DEF ListTypes
<1> QED
  BY <1>1, <1>2, <1>3, <1>4, <1>5 DEF TypeOK

(* An answer is addressed to the route of the unit, so it is an event.     *)
LEMMA InformTypes ==
  ASSUME HeldTypes, NEW u \in Units, NEW c \in RouteCommands
  PROVE  informToRoute(u, c) \in Seq(Events)
<1>1. CASE myRoute[u] = NoRoute
  BY <1>1 DEF informToRoute
<1>2. CASE myRoute[u] # NoRoute
  <2>1. [ev |-> "Inform", rt |-> myRoute[u], un |-> u, arg |-> c] \in Events
    BY <1>2 DEF HeldTypes, Events
  <2> QED
    BY <1>2, <2>1 DEF informToRoute
<1> QED
  BY <1>1, <1>2

(* The output that Unit::setMode leaves is on or off.                      *)
LEMMA OutTypes ==
  ASSUME PlantTypes, NEW u \in Units, NEW m
  PROVE  outAfter(u, m) \in BOOLEAN
  BY DEF PlantTypes, outAfter, canStart

(* Writing an output keeps the types of outputs and due looks.             *)
LEMMA WriteTypes ==
  ASSUME PlantTypes, NEW u \in Units, NEW value \in BOOLEAN, Write(u, value)
  PROVE  /\ out' \in [Units -> BOOLEAN]
         /\ due' \in [Units -> 0 .. MaxDue]
  BY DEF PlantTypes, Write, MaxDue

(* So does a report of a tag by the driver.                                *)
LEMMA ReportTypes ==
  ASSUME PlantTypes, NEW u \in Units, Report(u)
  PROVE  due' \in [Units -> 0 .. MaxDue]
  BY DEF PlantTypes, Report, MaxDue

(* RouteUnit::commandFromRoute, whichever way the command is taken.        *)
LEMMA CommandFromRouteTypes ==
  ASSUME TypeOK, commandFromRoute
  PROVE  HeldTypes' /\ PlantTypes' /\ QueueTypes'
<1> DEFINE u == Head(unitQ).un
           c == Head(unitQ).cmd
<1>1. u \in Units /\ c \in RouteCommands /\ unitQ' \in Seq(UnitCommands)
  <2>1. unitQ # <<>> /\ unitQ' = Tail(unitQ) /\ unitQ \in Seq(UnitCommands)
    BY DEF commandFromRoute, TypeOK, QueueTypes
  <2>2. Head(unitQ) \in UnitCommands /\ Tail(unitQ) \in Seq(UnitCommands)
    BY <2>1
  <2> QED
    BY <2>1, <2>2 DEF UnitCommands
<1>2. UNCHANGED <<held, plant, mayReset, mode, eng>>
  BY DEF commandFromRoute
<1>3. CASE Ignore
  BY <1>1, <1>2, <1>3 DEF Ignore, TypeOK, HeldTypes, PlantTypes, QueueTypes, held, plant
<1>4. CASE RepeatCommand(u, c)
  <2>1. routeQ' \in Seq(Events)
    BY <1>1, <1>4, InformTypes DEF RepeatCommand, TypeOK, QueueTypes
  <2> QED
    BY <1>1, <1>2, <1>4, <2>1 DEF RepeatCommand, TypeOK, HeldTypes, PlantTypes, QueueTypes, held, plant
<1>5. CASE AcceptCommand(u, c)
  <2>1. routeQ' \in Seq(Events)
    <3>1. /\ informToRoute(u, c) \in Seq(Events)
          /\ informToRoute(u, "RtCmNo") \in Seq(Events)
      BY <1>1, InformTypes DEF TypeOK, RouteCommands
    <3> QED
      BY <1>5, <3>1 DEF AcceptCommand, TypeOK, QueueTypes
  <2>2. routeCommand' \in [Units -> RouteCommands]
    BY <1>1, <1>5 DEF AcceptCommand, TypeOK, HeldTypes
  <2>3. out' \in [Units -> BOOLEAN] /\ due' \in [Units -> 0 .. MaxDue]
    BY <1>1, <1>5, OutTypes, WriteTypes DEF AcceptCommand, TypeOK
  <2> QED
    BY <1>1, <1>2, <2>1, <2>2, <2>3 DEF TypeOK, HeldTypes, PlantTypes, QueueTypes, held, plant
<1> QED
  BY <1>3, <1>4, <1>5 DEF commandFromRoute

(* A look of a unit at its tags (CheckState, updateState).                 *)
LEMMA ObserveTypes ==
  ASSUME TypeOK, NEW u \in Units, Observe(u)
  PROVE  HeldTypes' /\ PlantTypes' /\ QueueTypes'
<1>1. UNCHANGED <<held, plant, out, unitQ>>
  BY DEF Observe
<1>2. due' \in [Units -> 0 .. MaxDue]
  BY DEF Observe, TypeOK, PlantTypes, MaxDue
<1>3. eng' \in [Units -> EngineStates]
  BY DEF Observe, TypeOK, PlantTypes, engineState, EngineStates
<1>4. settledModes(u) \subseteq UnitModes
  BY DEF settledModes, UnitModes
<1>7. mayReset' \in [Units -> BOOLEAN]
  BY DEF Observe, TypeOK, PlantTypes
<1>5. CASE UNCHANGED <<mode, routeCommand, routeQ>>
  BY <1>1, <1>2, <1>3, <1>5, <1>7 DEF TypeOK, HeldTypes, PlantTypes, QueueTypes, held, plant
<1>6. ASSUME NEW m \in UnitModes, setCurrentMode(u, m)
      PROVE  HeldTypes' /\ PlantTypes' /\ QueueTypes'
  <2>1. mode' \in [Units -> UnitModes]
    BY <1>6 DEF setCurrentMode, TypeOK, PlantTypes
  <2>2. routeCommand' \in [Units -> RouteCommands]
    BY <1>6 DEF setCurrentMode, TypeOK, HeldTypes, RouteCommands
  <2>3. routeQ' \in Seq(Events)
    <3>1. /\ informToRoute(u, routeCommand[u]) \in Seq(Events)
          /\ informToRoute(u, "RtCmNo") \in Seq(Events)
      BY InformTypes DEF TypeOK, HeldTypes, RouteCommands
    <3> QED
      BY <1>6, <3>1 DEF setCurrentMode, TypeOK, QueueTypes
  <2> QED
    BY <1>1, <1>2, <1>3, <1>7, <2>1, <2>2, <2>3 DEF TypeOK, HeldTypes, PlantTypes, QueueTypes, held, plant
<1> QED
  BY <1>4, <1>5, <1>6 DEF Observe

(* detectAlarm and _alarmDo.                                               *)
LEMMA DetectAlarmTypes ==
  ASSUME TypeOK, NEW u \in Units, detectAlarm(u)
  PROVE  HeldTypes' /\ PlantTypes' /\ QueueTypes'
<1>1. /\ UNCHANGED <<held, mode, eng, sensed, mayReset, unitQ>>
      /\ unheard' = [unheard EXCEPT ![u] = FALSE]
      /\ disturb' = disturb - 1 /\ disturb > 0
      /\ alarm' = [alarm EXCEPT ![u] = TRUE]
      /\ routeCommand' = [routeCommand EXCEPT ![u] = "RtCmNo"]
      /\ routeQ' = routeQ \o informToRoute(u, "RtCmNo")
  BY DEF detectAlarm, Disturb
<1>2. out' \in [Units -> BOOLEAN] /\ due' \in [Units -> 0 .. MaxDue]
  BY OutTypes, WriteTypes DEF detectAlarm, TypeOK, PlantTypes
<1>3. informToRoute(u, "RtCmNo") \in Seq(Events)
  BY InformTypes DEF TypeOK, RouteCommands
<1>4. alarm' \in [Units -> BOOLEAN] /\ unheard' \in [Units -> BOOLEAN]
  BY <1>1 DEF TypeOK, PlantTypes
<1>5. disturb' \in 0 .. MaxDisturb
  BY <1>1, UnitConstants DEF TypeOK, PlantTypes
<1>6. routeCommand' \in [Units -> RouteCommands]
  BY <1>1 DEF TypeOK, HeldTypes, RouteCommands
<1>7. routeQ' \in Seq(Events)
  BY <1>1, <1>3 DEF TypeOK, QueueTypes
<1> QED
  BY <1>1, <1>2, <1>4, <1>5, <1>6, <1>7 DEF TypeOK, HeldTypes, PlantTypes, QueueTypes, held

(* What plant and operator do to units.                                    *)
LEMMA PlantStepTypes ==
  ASSUME TypeOK, UnitPlant
  PROVE  HeldTypes' /\ PlantTypes' /\ QueueTypes'
<1> PICK u \in Units : \/ Contactor(u)   \/ LevelChange(u) \/ Rescan(u)
                       \/ Bounce(u)      \/ detectAlarm(u) \/ resetAlarm(u)
                       \/ UserSetMode(u, "UnMdStart") \/ UserSetMode(u, "UnMdStop")
  BY DEF UnitPlant
<1> USE DEF TypeOK, HeldTypes, PlantTypes, QueueTypes, held
<1>1. CASE Contactor(u)
  BY <1>1, ReportTypes DEF Contactor
<1>2. ASSUME Disturb PROVE disturb' \in 0 .. MaxDisturb
  BY <1>2, UnitConstants DEF Disturb
<1>3. CASE LevelChange(u)
  <2>1. sensed' \in [Units -> {"no", "mid", "yes"}]
    BY <1>3 DEF LevelChange, SensorValues
  <2> QED
    BY <1>2, <1>3, <2>1, ReportTypes DEF LevelChange
<1>4. CASE Rescan(u)
  BY <1>2, <1>4, ReportTypes DEF Rescan
<1>5. CASE detectAlarm(u)
  BY <1>5, DetectAlarmTypes
<1>6. CASE resetAlarm(u)
  BY <1>6 DEF resetAlarm
<1>7. ASSUME NEW m, UserSetMode(u, m) PROVE HeldTypes' /\ PlantTypes' /\ QueueTypes'
  BY <1>2, <1>7, OutTypes, WriteTypes DEF UserSetMode
<1>8. CASE Bounce(u)
  BY <1>2, <1>8, ReportTypes DEF Bounce
<1> QED
  BY <1>1, <1>3, <1>4, <1>5, <1>6, <1>7, <1>8

-----------------------------------------------------------------------------
(* Types, for the operations that routes are built from.                   *)

(* The number of a unit of the list is that of the unit.                   *)
LEMMA IndexOf ==
  ASSUME NEW r \in Routes, NEW u \in unitsOf(r)
  PROVE  indexOf(r, u) \in DOMAIN unitList[r] /\ unitList[r][indexOf(r, u)].un = u
  BY DEF indexOf, unitsOf

(* Giving back units (DisconnectUnit).                                     *)
LEMMA ReleaseTypes ==
  ASSUME HeldTypes, NEW us, Release(us)
  PROVE  HeldTypes'
  BY DEF HeldTypes, Release, HandOver, UnitModes, RouteCommands

(* Taking the units of a route, or giving them back (_ConnectAllUnits).    *)
LEMMA ConnectTypes ==
  ASSUME HeldTypes, ListTypes, NEW r \in Routes, _ConnectAllUnits(r)
  PROVE  HeldTypes' /\ allConnected' \in [Routes -> BOOLEAN]
<1>1. \A u \in unitsOf(r) : unitList[r][indexOf(r, u)].mode \in UnitModes
  <2> SUFFICES ASSUME NEW u \in unitsOf(r)
               PROVE  unitList[r][indexOf(r, u)].mode \in UnitModes
    OBVIOUS
  <2>1. unitList[r] \in Seq(ListItems)
    BY DEF ListTypes
  <2>2. unitList[r][indexOf(r, u)] \in ListItems
    BY <2>1, IndexOf
  <2> QED
    BY <2>2 DEF ListItems
<1>2. allConnected' \in [Routes -> BOOLEAN]
  BY DEF _ConnectAllUnits, ListTypes, canConnect
<1>3. CASE canConnect(r)
  <2>1. _ConnectUnit(r, freeOf(r))
    BY <1>3 DEF _ConnectAllUnits
  <2> QED
    BY <1>1, <1>2, <2>1 DEF HeldTypes, _ConnectUnit, freeOf, HandOver, RouteCommands
<1>4. CASE ~canConnect(r)
  <2>1. Release(heldBy(r) \cup freeOf(r))
    BY <1>4 DEF _ConnectAllUnits
  <2> QED
    BY <1>2, <2>1, ReleaseTypes
<1> QED
  BY <1>3, <1>4

(* A new command is a command.                                             *)
LEMMA CmdType ==
  ASSUME NEW name \in RouteCommands, NEW type \in CmdTypes, NEW waf \in BOOLEAN,
         NEW b \in Int, NEW e \in Int
  PROVE  Cmd(name, type, waf, b, e) \in RouteCmds
  BY DEF Cmd, RouteCmds

(* So is one whose span and progress are set anew.                         *)
LEMMA SpanType ==
  ASSUME NEW c \in RouteCmds, NEW b \in Int, NEW e \in Int, NEW l \in Int
  PROVE  [c EXCEPT !.beginUn = b, !.endUn = e, !.last = l] \in RouteCmds
  BY DEF RouteCmds

(* So is one whose open ends SetCommand has resolved.                      *)
LEMMA ResolvedType ==
  ASSUME ListTypes, NEW r \in Routes, NEW c \in RouteCmds
  PROVE  Resolved(r, c) \in RouteCmds
<1> DEFINE b == IF c.beginUn = -1 THEN 0 ELSE c.beginUn
           e == IF c.endUn = -1 THEN Len(unitList[r]) - 1 ELSE c.endUn
           l == IF c.type = "DownStepByStep" THEN e + 1 ELSE b - 1
<1>1. b \in Int /\ e \in Int
  BY DEF ListTypes, RouteCmds
<1>2. l \in Int
  BY <1>1
<1>3. Resolved(r, c) = [c EXCEPT !.beginUn = b, !.endUn = e, !.last = l]
  BY Zenon DEF Resolved
<1> HIDE DEF b, e, l
<1>4. [c EXCEPT !.beginUn = b, !.endUn = e, !.last = l] \in RouteCmds
  BY <1>1, <1>2, SpanType
<1> QED
  BY <1>3, <1>4, Zenon

(* A command for a unit of the list.                                       *)
LEMMA ToUnitType ==
  ASSUME ListTypes, NEW r \in Routes, NEW n, InRange(r, n), NEW name \in RouteCommands
  PROVE  ToUnit(r, n, name) \in UnitCommands
<1>1. unitList[r] \in Seq(ListItems)
  BY DEF ListTypes
<1>2. unitList[r][n + 1] \in ListItems
  BY <1>1 DEF InRange
<1> QED
  BY <1>2 DEF ToUnit, UnitCommands, ListItems

(* Sending to one unit, in range or not (_CommandToUnit).                  *)
LEMMA SendTypes ==
  ASSUME QueueTypes, CommandTypes, ListTypes,
         NEW r \in Routes, NEW n, NEW name \in RouteCommands, Send(r, n, name)
  PROVE  unitQ' \in Seq(UnitCommands) /\ fault' \in BOOLEAN
<1>1. unitQ \in Seq(UnitCommands) /\ fault \in BOOLEAN
  BY DEF QueueTypes, CommandTypes
<1>2. CASE InRange(r, n)
  BY <1>1, <1>2, ToUnitType DEF Send
<1>3. CASE ~InRange(r, n)
  BY <1>1, <1>3 DEF Send
<1> QED
  BY <1>2, <1>3

(* Sending to all units of a parallel command.                             *)
LEMMA SendAllTypes ==
  ASSUME QueueTypes, CommandTypes, ListTypes,
         NEW r \in Routes, NEW c \in RouteCmds, SendAll(r, c)
  PROVE  unitQ' \in Seq(UnitCommands) /\ fault' \in BOOLEAN
<1> DEFINE ns == c.beginUn .. c.endUn
           all == [i \in 1 .. c.endUn - c.beginUn + 1 |->
                     ToUnit(r, c.beginUn + i - 1, c.name)]
<1>1. c.beginUn \in Int /\ c.endUn \in Int /\ c.name \in RouteCommands
  BY DEF RouteCmds
<1>2. CASE \A n \in ns : InRange(r, n)
  <2>1. all \in Seq(UnitCommands)
    <3>1. \A i \in 1 .. c.endUn - c.beginUn + 1 : c.beginUn + i - 1 \in ns
      BY <1>1
    <3>2. \A i \in 1 .. c.endUn - c.beginUn + 1 :
            ToUnit(r, c.beginUn + i - 1, c.name) \in UnitCommands
      BY <1>1, <1>2, <3>1, ToUnitType
    <3>3. CASE c.endUn - c.beginUn + 1 \in Nat
      BY <3>2, <3>3
    <3>4. CASE c.endUn - c.beginUn + 1 \notin Nat
      <4>1. 1 .. c.endUn - c.beginUn + 1 = {}
        BY <1>1, <3>4
      <4>2. all = <<>>
        BY <4>1
      <4>3. <<>> \in Seq(UnitCommands)
        OBVIOUS
      <4> HIDE DEF all
      <4> QED
        BY <4>2, <4>3
    <3> QED
      BY <3>3, <3>4
  <2>2. unitQ' = unitQ \o all /\ fault' = fault
    BY <1>2 DEF SendAll
  <2> QED
    BY <2>1, <2>2 DEF QueueTypes, CommandTypes
<1>3. CASE ~ \A n \in ns : InRange(r, n)
  BY <1>3 DEF SendAll, QueueTypes, CommandTypes
<1> QED
  BY <1>2, <1>3

(* What SetCommand leaves behind when the units are, or become, connected, *)
(* and when another route holds one of them.                               *)
LEMMA SetCommandTypes ==
  ASSUME HeldTypes, QueueTypes, CommandTypes, ListTypes,
         NEW r \in Routes, NEW work \in Seq(RouteCmds), NEW g0 \in Nat,
         NEW c \in RouteCmds, NEW gnrl \in BOOLEAN,
         SetCommand(r, work, g0, c, gnrl)
  PROVE  /\ HeldTypes'
         /\ unitQ' \in Seq(UnitCommands)
         /\ workCmds' \in [Routes -> Seq(RouteCmds)]
         /\ genCom' \in [Routes -> Nat]
         /\ allConnected' \in [Routes -> BOOLEAN]
         /\ fault' \in BOOLEAN
<1> DEFINE rc == Resolved(r, c)
           g == IF work = <<>> THEN 0 ELSE g0
<1>1. rc \in RouteCmds
  BY ResolvedType
<1>0. /\ unitQ \in Seq(UnitCommands)
      /\ workCmds \in [Routes -> Seq(RouteCmds)]
      /\ genCom \in [Routes -> Nat]
      /\ allConnected \in [Routes -> BOOLEAN]
      /\ fault \in BOOLEAN
  BY DEF QueueTypes, CommandTypes, ListTypes
<1>4. HeldTypes' /\ allConnected' \in [Routes -> BOOLEAN]
  <2>1. CASE allConnected[r]
    BY <1>0, <2>1 DEF SetCommand, HeldTypes, held
  <2>2. CASE ~allConnected[r]
    BY <2>2, ConnectTypes DEF SetCommand
  <2> QED
    BY <2>1, <2>2
<1>2. CASE allConnected[r] \/ canConnect(r)
  <2>2. workCmds' \in [Routes -> Seq(RouteCmds)]
    <3>1. workCmds' = [workCmds EXCEPT ![r] = Append(work, rc)]
      BY <1>2 DEF SetCommand
    <3> QED
      BY <1>0, <1>1, <3>1
  <2>3. genCom' \in [Routes -> Nat]
    <3>1. genCom' = [genCom EXCEPT ![r] = IF g = 0 \/ gnrl THEN Len(work) + 1 ELSE g]
      BY <1>2 DEF SetCommand
    <3> QED
      BY <1>0, <3>1
  <2>4. unitQ' \in Seq(UnitCommands) /\ fault' \in BOOLEAN
    <3>1. rc.name \in RouteCommands
      BY <1>1 DEF RouteCmds
    <3>2. SendAll(r, rc) \/ Send(r, next(rc), rc.name)
      BY <1>2 DEF SetCommand
    <3> QED
      BY <1>1, <3>1, <3>2, SendTypes, SendAllTypes
  <2> QED
    BY <1>4, <2>2, <2>3, <2>4
<1>3. CASE ~(allConnected[r] \/ canConnect(r))
  <2>2. /\ workCmds' = [workCmds EXCEPT ![r] = work]
        /\ genCom' = [genCom EXCEPT ![r] = g]
        /\ UNCHANGED <<unitQ, fault>>
    BY <1>3 DEF SetCommand
  <2> QED
    BY <1>0, <1>4, <2>2
<1> QED
  BY <1>2, <1>3

-----------------------------------------------------------------------------
(* Types, for the handlers of the routes thread.                           *)

(* The head of a queue of events is an event, and so is the rest.          *)
LEMMA TakenTypes ==
  ASSUME QueueTypes, routeQ # <<>>
  PROVE  Head(routeQ) \in Events /\ Tail(routeQ) \in Seq(Events)
  BY DEF QueueTypes

(* A queue of one command.                                                 *)
LEMMA SingleSeq == ASSUME NEW S, NEW x \in S PROVE <<x>> \in Seq(S)
  OBVIOUS

(* A queue of two commands.                                                *)
LEMMA PairSeq == ASSUME NEW S, NEW x \in S, NEW y \in S PROVE <<x, y>> \in Seq(S)
  OBVIOUS

(* A new command list of one command has its types.                        *)
LEMMA RestartTypes ==
  ASSUME TypeOK, NEW r \in Routes, NEW op \in OpNames, NEW c \in RouteCmds,
         NEW gnrl \in BOOLEAN, NEW queue \in Seq(RouteCmds),
         Handle(r, op), Restart(r, c, gnrl, queue)
  PROVE  TypeOK'
<1>1. /\ HeldTypes'
      /\ unitQ' \in Seq(UnitCommands)
      /\ workCmds' \in [Routes -> Seq(RouteCmds)]
      /\ genCom' \in [Routes -> Nat]
      /\ allConnected' \in [Routes -> BOOLEAN]
      /\ fault' \in BOOLEAN
  <2>1. SetCommand(r, <<>>, 0, c, gnrl)
    BY DEF Restart
  <2>2. <<>> \in Seq(RouteCmds)
    OBVIOUS
  <2> QED
    BY <2>1, <2>2, SetCommandTypes DEF TypeOK
<1>2. routeQ' \in Seq(Events)
  BY TakenTypes DEF Handle, Take, TypeOK
<1>3. queueCmds' \in [Routes -> Seq(RouteCmds)]
  <2>1. queueCmds' = [queueCmds EXCEPT ![r] = queue] /\ queueCmds \in [Routes -> Seq(RouteCmds)]
    BY DEF Restart, TypeOK, CommandTypes
  <2> QED
    BY <2>1
<1>4. command' \in [rt : Routes \cup {NoRoute}, ix : Nat]
  BY DEF Restart, TypeOK, CommandTypes
<1>5. UNCHANGED <<others, pos, shown, ops, unitList>>
  BY DEF Handle, Restart
<1>6. lastOp' \in [Routes -> OpNames \cup {"none"}]
  BY DEF Handle, TypeOK, ListTypes
<1>7. PlantTypes'
  BY <1>5 DEF others, TypeOK, PlantTypes
<1>8. pos' \in Nat
  BY <1>5 DEF TypeOK, CommandTypes
<1>9. /\ unitList' \in [Routes -> Seq(ListItems)]
      /\ shown' \in [Routes -> [st : BOOLEAN, str : BOOLEAN]]
      /\ ops' \in 0 .. MaxOps
  BY <1>5 DEF TypeOK, ListTypes
<1>10. QueueTypes'
  BY <1>1, <1>2 DEF QueueTypes
<1>11. CommandTypes'
  BY <1>1, <1>3, <1>4, <1>8 DEF CommandTypes
<1>12. ListTypes'
  BY <1>1, <1>6, <1>9 DEF ListTypes
<1> QED
  BY <1>1, <1>7, <1>10, <1>11, <1>12 DEF TypeOK

(* The four orders of the operator.                                        *)
LEMMA OrderTypes ==
  ASSUME TypeOK, NEW r \in Routes,
         Start(r) \/ Stop(r) \/ CleanStop(r) \/ Freeze(r)
  PROVE  TypeOK'
<1>1. <<>> \in Seq(RouteCmds)
  OBVIOUS
<1>2. CASE Start(r)
  <2>1. Cmd("RtCmToRoute", "DownStepByStep", TRUE, -1, -1) \in RouteCmds
    BY DEF Cmd, RouteCmds, RouteCommands, CmdTypes
  <2> QED
    BY <1>1, <1>2, <2>1, RestartTypes DEF Start, OpNames
<1>3. CASE Stop(r)
  <2>1. Cmd("RtCmStop", "Parallel", FALSE, -1, -1) \in RouteCmds
    BY DEF Cmd, RouteCmds, RouteCommands, CmdTypes
  <2>2. Cmd("RtCmToSave", "UpStepByStep", FALSE, -1, -1) \in RouteCmds
    BY DEF Cmd, RouteCmds, RouteCommands, CmdTypes
  <2> QED
    BY <1>1, <1>3, <2>1, <2>2, RestartTypes DEF Stop, OpNames
<1>4. CASE CleanStop(r)
  <2>1. Cmd("RtCmToRoutForClean", "DownStepByStep", TRUE, -1, -1) \in RouteCmds
    BY DEF Cmd, RouteCmds, RouteCommands, CmdTypes
  <2>2. Cmd("RtCmCleanStop", "UpStepByStep", FALSE, -1, -1) \in RouteCmds
    BY DEF Cmd, RouteCmds, RouteCommands, CmdTypes
  <2>3. <<Cmd("RtCmCleanStop", "UpStepByStep", FALSE, -1, -1)>> \in Seq(RouteCmds)
    BY <2>2, SingleSeq
  <2> QED
    BY <1>4, <2>1, <2>3, RestartTypes DEF CleanStop, OpNames
<1>5. CASE Freeze(r)
  <2>1. Cmd("RtCmStop", "Parallel", FALSE, -1, -1) \in RouteCmds
    BY DEF Cmd, RouteCmds, RouteCommands, CmdTypes
  <2> QED
    BY <1>1, <1>5, <2>1, RestartTypes DEF Freeze, OpNames
<1> QED
  BY <1>2, <1>3, <1>4, <1>5

(* Adding a unit to a list.                                                *)
LEMMA AddUnitTypes ==
  ASSUME TypeOK, AddUnit
  PROVE  TypeOK'
<1> DEFINE r == Head(routeQ).rt
           u == Head(routeQ).un
           m == Head(routeQ).arg
<1>1. routeQ # <<>> /\ Head(routeQ).ev = "Add" /\ routeQ' = Tail(routeQ)
  BY DEF AddUnit, Take
<1>2. Head(routeQ) \in Events /\ Tail(routeQ) \in Seq(Events)
  BY <1>1, TakenTypes DEF TypeOK
<1>3. r \in Routes /\ u \in Units /\ m \in UnitModes
  BY <1>1, <1>2 DEF Events
<1>4. unitList' \in [Routes -> Seq(ListItems)]
  <2>1. unitList' = IF u \in unitsOf(r) THEN unitList
                    ELSE [unitList EXCEPT ![r] = Append(@, [un |-> u, mode |-> m])]
    BY DEF AddUnit
  <2>2. [un |-> u, mode |-> m] \in ListItems
    BY <1>3 DEF ListItems
  <2>3. unitList \in [Routes -> Seq(ListItems)]
    BY DEF TypeOK, ListTypes
  <2> HIDE DEF u, m
  <2>4. Append(unitList[r], [un |-> u, mode |-> m]) \in Seq(ListItems)
    BY <1>3, <2>2, <2>3
  <2> QED
    BY <1>3, <2>1, <2>3, <2>4
<1>5. /\ UNCHANGED <<held, others, routeCommand, unitQ, workCmds, queueCmds, genCom>>
      /\ UNCHANGED <<allConnected, command, pos, fault, shown, ops, lastOp>>
  BY DEF AddUnit
<1>6. HeldTypes' /\ PlantTypes'
  BY <1>5 DEF held, others, TypeOK, HeldTypes, PlantTypes
<1>7. QueueTypes'
  BY <1>1, <1>2, <1>5 DEF TypeOK, QueueTypes
<1>8. CommandTypes'
  BY <1>5 DEF TypeOK, CommandTypes
<1>9. ListTypes'
  BY <1>4, <1>5 DEF TypeOK, ListTypes
<1> QED
  BY <1>6, <1>7, <1>8, <1>9 DEF TypeOK

(* Taking the last unit, or all units, from a list.                        *)
LEMMA ListEditTypes ==
  ASSUME TypeOK, NEW r \in Routes, DeleteLastUnit(r) \/ CleanUnitList(r)
  PROVE  TypeOK'
<1>0. Handle(r, "DeleteLastUnit") \/ Handle(r, "CleanUnitList")
  BY DEF DeleteLastUnit, CleanUnitList
<1>1. /\ routeQ' \in Seq(Events)
      /\ lastOp' \in [Routes -> OpNames \cup {"none"}]
      /\ UNCHANGED <<others, pos, shown, ops>>
  <2>1. routeQ' \in Seq(Events)
    BY <1>0, TakenTypes DEF Handle, Take, TypeOK
  <2>2. lastOp' \in [Routes -> OpNames \cup {"none"}]
    BY <1>0 DEF Handle, TypeOK, ListTypes, OpNames
  <2> QED
    BY <1>0, <2>1, <2>2 DEF Handle
<1>2. UNCHANGED <<unitQ, workCmds, queueCmds, genCom, command>>
  BY DEF DeleteLastUnit, CleanUnitList
<1>3. fault' \in BOOLEAN
  BY DEF DeleteLastUnit, CleanUnitList, TypeOK, CommandTypes
<1>4. HeldTypes'
  <2>1. ASSUME UNCHANGED <<held, routeCommand>> PROVE HeldTypes'
    BY <2>1 DEF held, TypeOK, HeldTypes
  <2>2. ASSUME NEW us, Release(us) PROVE HeldTypes'
    BY <2>2, ReleaseTypes DEF TypeOK
  <2>3. CASE DeleteLastUnit(r)
    BY <2>1, <2>2, <2>3 DEF DeleteLastUnit
  <2>4. CASE CleanUnitList(r)
    BY <2>2, <2>4 DEF CleanUnitList, DisconnectAllUnit
  <2> QED
    BY <2>3, <2>4
<1>5. /\ unitList' \in [Routes -> Seq(ListItems)]
      /\ allConnected' \in [Routes -> BOOLEAN]
  <2>0. /\ unitList \in [Routes -> Seq(ListItems)]
        /\ allConnected \in [Routes -> BOOLEAN]
        /\ unitList[r] \in Seq(ListItems)
    BY DEF TypeOK, ListTypes
  <2>1. CASE CleanUnitList(r)
    <3>1. /\ unitList' = [unitList EXCEPT ![r] = <<>>]
          /\ allConnected' = [allConnected EXCEPT ![r] = @ /\ heldBy(r) = {}]
      BY <2>1 DEF CleanUnitList, DisconnectAllUnit
    <3>2. <<>> \in Seq(ListItems)
      OBVIOUS
    <3> QED
      BY <2>0, <3>1, <3>2
  <2>2. CASE DeleteLastUnit(r) /\ unitList[r] = <<>>
    BY <2>0, <2>2 DEF DeleteLastUnit
  <2>3. CASE DeleteLastUnit(r) /\ unitList[r] # <<>>
    <3> DEFINE k == Len(unitList[r])
               u == unitList[r][k].un
               rest == SubSeq(unitList[r], 1, k - 1)
    <3>1. rest \in Seq(ListItems)
      BY <2>0, <2>3
    <3>2. unitList' = [unitList EXCEPT ![r] = rest]
      BY <2>3 DEF DeleteLastUnit
    <3>3. allConnected' = IF myRoute[u] # r THEN allConnected
                          ELSE [allConnected EXCEPT ![r] =
                                  \A i \in DOMAIN rest : myRoute[rest[i].un] = r]
      BY <2>3 DEF DeleteLastUnit
    <3> HIDE DEF rest, u
    <3> QED
      BY <2>0, <3>1, <3>2, <3>3
  <2> QED
    BY <2>1, <2>2, <2>3
<1>6. PlantTypes'
  BY <1>1 DEF others, TypeOK, PlantTypes
<1>7. QueueTypes'
  BY <1>1, <1>2 DEF TypeOK, QueueTypes
<1>8. CommandTypes'
  BY <1>1, <1>2, <1>3 DEF TypeOK, CommandTypes
<1>9. ListTypes'
  BY <1>1, <1>5 DEF TypeOK, ListTypes
<1> QED
  BY <1>4, <1>6, <1>7, <1>8, <1>9 DEF TypeOK

(* What the operator's window does.                                        *)
LEMMA OperatorTypes ==
  ASSUME TypeOK, NEW r \in Routes, Operator(r) \/ Show(r)
  PROVE  TypeOK'
<1>0. unitList \in [Routes -> Seq(ListItems)] /\ routeQ \in Seq(Events) /\ ops \in 0 .. MaxOps
  BY DEF TypeOK, ListTypes, QueueTypes
<1>1. ASSUME NEW op \in OpNames, Click(r, op) PROVE TypeOK'
  <2>1. [ev |-> "Op", rt |-> r, un |-> NoUnit, arg |-> op] \in Events
    BY DEF Events
  <2>2. routeQ' \in Seq(Events)
    BY <1>0, <1>1, <2>1 DEF Click
  <2>3. ops' \in 0 .. MaxOps
    BY <1>0, <1>1, RouteConstants DEF Click
  <2>4. /\ UNCHANGED <<held, others, routeCommand, unitQ, unitList, workCmds, queueCmds>>
        /\ UNCHANGED <<genCom, allConnected, command, pos, fault, shown, lastOp>>
    BY <1>1 DEF Click
  <2>5. HeldTypes' /\ PlantTypes'
    BY <2>4 DEF held, others, TypeOK, HeldTypes, PlantTypes
  <2>6. QueueTypes'
    BY <2>2, <2>4 DEF TypeOK, QueueTypes
  <2>7. CommandTypes' /\ ListTypes'
    BY <2>3, <2>4 DEF TypeOK, CommandTypes, ListTypes
  <2> QED
    BY <2>5, <2>6, <2>7 DEF TypeOK
<1>2. ASSUME NEW u \in Units, NEW m \in UnitModes, AddInRoute(r, u, m) PROVE TypeOK'
  <2>1. [ev |-> "Add", rt |-> r, un |-> u, arg |-> m] \in Events
    BY DEF Events
  <2>2. routeQ' \in Seq(Events)
    BY <1>0, <1>2, <2>1 DEF AddInRoute
  <2>3. ops' \in 0 .. MaxOps
    BY <1>0, <1>2, RouteConstants DEF AddInRoute
  <2>4. /\ UNCHANGED <<held, others, unitQ, unitList, workCmds, queueCmds>>
        /\ UNCHANGED <<genCom, allConnected, command, pos, fault, shown, lastOp>>
    BY <1>2 DEF AddInRoute
  <2>5. routeCommand' \in [Units -> RouteCommands]
    BY <1>2 DEF AddInRoute, TypeOK, HeldTypes, RouteCommands
  <2>6. HeldTypes' /\ PlantTypes'
    BY <2>4, <2>5 DEF held, others, TypeOK, HeldTypes, PlantTypes
  <2>7. QueueTypes'
    BY <2>2, <2>4 DEF TypeOK, QueueTypes
  <2>8. CommandTypes' /\ ListTypes'
    BY <2>3, <2>4 DEF TypeOK, CommandTypes, ListTypes
  <2> QED
    BY <2>6, <2>7, <2>8 DEF TypeOK
<1>3. CASE Show(r)
  <2>1. shown' \in [Routes -> [st : BOOLEAN, str : BOOLEAN]]
    BY <1>3 DEF Show, TypeOK, ListTypes
  <2>2. /\ UNCHANGED <<unitVars, unitList, workCmds, queueCmds, genCom>>
        /\ UNCHANGED <<allConnected, command, pos, fault, ops, lastOp>>
    BY <1>3 DEF Show
  <2>3. HeldTypes' /\ PlantTypes' /\ QueueTypes'
    BY <2>2 DEF unitVars, TypeOK, HeldTypes, PlantTypes, QueueTypes
  <2>4. CommandTypes' /\ ListTypes'
    BY <2>1, <2>2 DEF TypeOK, CommandTypes, ListTypes
  <2> QED
    BY <2>3, <2>4 DEF TypeOK
<1> QED
  BY <1>1, <1>2, <1>3 DEF Operator
-----------------------------------------------------------------------------
(* Types, for InformFromUnit.                                              *)

(* The event in hand and the command under scan.                           *)
LEMMA InHand ==
  ASSUME TypeOK, informed
  PROVE  rt \in Routes /\ un \in Units /\ resp \in RouteCommands
<1>1. Head(routeQ) \in Events /\ Head(routeQ).ev = "Inform"
  BY TakenTypes DEF TypeOK, informed
<1> QED
  BY <1>1 DEF Events, rt, un, resp

(* The command under scan is a command of the route in hand.               *)
LEMMA UnderScan ==
  ASSUME TypeOK, Scanning
  PROVE  /\ rt \in Routes /\ un \in unitsOf(rt)
         /\ cmd \in RouteCmds /\ unN \in Int
         /\ pos + 1 \in 1 .. Len(workCmds[rt])
<1>1. informed /\ known /\ pos < Len(workCmds[rt])
  BY DEF Scanning
<1>2. rt \in Routes
  BY <1>1, InHand
<1>3. un \in unitsOf(rt)
  BY <1>1 DEF known
<1>4. pos \in Nat /\ workCmds[rt] \in Seq(RouteCmds) /\ unitList[rt] \in Seq(ListItems)
  BY <1>2 DEF TypeOK, CommandTypes, ListTypes
<1>5. pos + 1 \in 1 .. Len(workCmds[rt])
  BY <1>1, <1>4
<1>6. cmd \in RouteCmds
  BY <1>4, <1>5 DEF cmd
<1>7. unN \in Int
  BY <1>2, <1>3, <1>4, IndexOf DEF unN
<1> QED
  BY <1>2, <1>3, <1>5, <1>6, <1>7

(* A scanned command is replaced by another.                               *)
LEMMA ReplacedType ==
  ASSUME TypeOK, Scanning, NEW c \in RouteCmds
  PROVE  Replaced(c) \in Seq(RouteCmds) /\ Len(Replaced(c)) = Len(workCmds[rt])
<1>1. rt \in Routes
  BY UnderScan
<1>2. workCmds[rt] \in Seq(RouteCmds) /\ pos + 1 \in 1 .. Len(workCmds[rt])
  BY <1>1, UnderScan DEF TypeOK, CommandTypes
<1> DEFINE s == workCmds[rt]
           i == pos + 1
<1>3. Replaced(c) = [s EXCEPT ![i] = c]
  BY DEF Replaced
<1>4. s \in Seq(RouteCmds) /\ i \in 1 .. Len(s)
  BY <1>2
<1> HIDE DEF s, i
<1>5. /\ [s EXCEPT ![i] = c] \in Seq(RouteCmds)
      /\ Len([s EXCEPT ![i] = c]) = Len(s)
  BY <1>4, ExceptSeq
<1> QED
  BY <1>3, <1>5 DEF s

(* A step of InformFromUnit that keeps the types of what it changes keeps  *)
(* them all.                                                               *)
LEMMA FrameTypes ==
  ASSUME TypeOK, UNCHANGED aside,
         HeldTypes',
         unitQ' \in Seq(UnitCommands),
         routeQ' \in Seq(Events),
         workCmds' \in [Routes -> Seq(RouteCmds)],
         queueCmds' \in [Routes -> Seq(RouteCmds)],
         genCom' \in [Routes -> Nat],
         allConnected' \in [Routes -> BOOLEAN],
         command' \in [rt : Routes \cup {NoRoute}, ix : Nat],
         pos' \in Nat,
         fault' \in BOOLEAN
  PROVE  TypeOK'
<1>1. PlantTypes'
  BY DEF aside, others, TypeOK, PlantTypes
<1>2. QueueTypes' /\ CommandTypes'
  BY DEF QueueTypes, CommandTypes
<1>3. ListTypes'
  BY DEF aside, TypeOK, ListTypes
<1> QED
  BY <1>1, <1>2, <1>3 DEF TypeOK

(* What every scan of an addressed command changes has its type.           *)
LEMMA ScanFrame ==
  ASSUME TypeOK, Scan
  PROVE  /\ UNCHANGED aside
         /\ routeQ' \in Seq(Events)
         /\ pos' \in Nat
         /\ command' \in [rt : Routes \cup {NoRoute}, ix : Nat]
         /\ Scanning
<1>1. Scanning /\ command' = [rt |-> rt, ix |-> pos + 1]
  BY DEF Scan
<1>2. pos' = pos + 1 /\ UNCHANGED aside /\ UNCHANGED routeQ
  BY <1>1 DEF Scanning
<1>3. pos \in Nat /\ routeQ \in Seq(Events)
  BY DEF TypeOK, CommandTypes, QueueTypes
<1>4. rt \in Routes
  BY <1>1, UnderScan
<1>5. [rt |-> rt, ix |-> pos + 1] \in [rt : Routes \cup {NoRoute}, ix : Nat]
  BY <1>3, <1>4
<1> QED
  BY <1>1, <1>2, <1>3, <1>5

(* A scan that changes the command only.                                   *)
LEMMA BecomesTypes ==
  ASSUME TypeOK, Scan, NEW c \in RouteCmds, Becomes(c),
         unitQ' \in Seq(UnitCommands), fault' \in BOOLEAN
  PROVE  TypeOK'
<1>1. Scanning /\ rt \in Routes /\ Replaced(c) \in Seq(RouteCmds)
  BY ScanFrame, UnderScan, ReplacedType
<1>2. /\ workCmds' = [workCmds EXCEPT ![rt] = Replaced(c)]
      /\ UNCHANGED <<held, routeCommand, allConnected, queueCmds, genCom>>
  BY DEF Becomes, linked
<1>3. HeldTypes'
  BY <1>2 DEF held, TypeOK, HeldTypes
<1>4. /\ workCmds \in [Routes -> Seq(RouteCmds)]
      /\ queueCmds \in [Routes -> Seq(RouteCmds)]
      /\ genCom \in [Routes -> Nat]
      /\ allConnected \in [Routes -> BOOLEAN]
  BY DEF TypeOK, CommandTypes, ListTypes
<1>5. workCmds' \in [Routes -> Seq(RouteCmds)]
  BY <1>1, <1>2, <1>4
<1> QED
  BY <1>2, <1>3, <1>4, <1>5, ScanFrame, FrameTypes

(* A scan that starts another command.                                     *)
LEMMA SpawnTypes ==
  ASSUME TypeOK, Scan, NEW c \in RouteCmds, NEW d \in RouteCmds, NEW gnrl \in BOOLEAN,
         SetCommand(rt, Replaced(c), genCom[rt], d, gnrl),
         queueCmds' \in [Routes -> Seq(RouteCmds)]
  PROVE  TypeOK'
<1>1. Scanning /\ rt \in Routes /\ Replaced(c) \in Seq(RouteCmds)
  BY ScanFrame, UnderScan, ReplacedType
<1>2. genCom[rt] \in Nat
  BY <1>1 DEF TypeOK, CommandTypes
<1>3. /\ HeldTypes'
      /\ unitQ' \in Seq(UnitCommands)
      /\ workCmds' \in [Routes -> Seq(RouteCmds)]
      /\ genCom' \in [Routes -> Nat]
      /\ allConnected' \in [Routes -> BOOLEAN]
      /\ fault' \in BOOLEAN
  BY <1>1, <1>2, SetCommandTypes DEF TypeOK
<1> QED
  BY <1>3, ScanFrame, FrameTypes

(* The forms a scanned command takes.                                      *)
LEMMA ShortType ==
  ASSUME NEW c \in RouteCmds
  PROVE  Short(c) \in RouteCmds
  BY DEF Short, RouteCmds

(* A finished command.                                                     *)
LEMMA FinishedType ==
  ASSUME NEW c \in RouteCmds, NEW waf \in BOOLEAN, NEW good \in BOOLEAN
  PROVE  Finished(c, waf, good) \in RouteCmds
  BY DEF Finished, RouteCmds

(* A command whose progress is moved.                                      *)
LEMMA LastType ==
  ASSUME NEW c \in RouteCmds, NEW l \in Int
  PROVE  [c EXCEPT !.last = l] \in RouteCmds
  BY DEF RouteCmds

(* A command whose progress and outcome are set.                           *)
LEMMA GoodLastType ==
  ASSUME NEW c \in RouteCmds, NEW g \in BOOLEAN, NEW l \in Int
  PROVE  [c EXCEPT !.good = g, !.last = l] \in RouteCmds
  BY DEF RouteCmds
(* The scan of a command, one case for each step of the handler.           *)
LEMMA ScanTypes ==
  ASSUME TypeOK,
         \/ ScanOther    \/ ScanParallel  \/ ScanKept  \/ ScanFar
         \/ NextDone     \/ NextFailed    \/ LeftSave  \/ LeftCleanStop
  PROVE  TypeOK'
<1>0. /\ unitQ \in Seq(UnitCommands)
      /\ fault \in BOOLEAN
      /\ QueueTypes /\ CommandTypes /\ ListTypes
  BY DEF TypeOK, QueueTypes, CommandTypes
<1>1. CASE ScanOther
  <2>1. Scanning /\ UNCHANGED <<linked, unitQ, workCmds, queueCmds, genCom, command, fault>>
    BY <1>1 DEF ScanOther
  <2>2. pos' = pos + 1 /\ UNCHANGED aside /\ UNCHANGED routeQ
    BY <2>1 DEF Scanning
  <2>3. HeldTypes'
    BY <2>1 DEF linked, held, TypeOK, HeldTypes
  <2>4. pos' \in Nat
    BY <2>2 DEF TypeOK, CommandTypes
  <2> QED
    BY <2>1, <2>2, <2>3, <2>4, FrameTypes DEF linked, TypeOK, QueueTypes, CommandTypes, ListTypes
<1>2. ASSUME Scan
      PROVE  Scanning /\ rt \in Routes /\ cmd \in RouteCmds /\ unN \in Int
  BY <1>2, ScanFrame, UnderScan
<1>3. CASE ScanParallel
  <2> DEFINE seen == IF cmd.respCount <= count(cmd) THEN cmd.respCount + 1
                     ELSE cmd.respCount
             c == [cmd EXCEPT !.respCount = seen, !.last = unN,
                              !.good = @ /\ resp = cmd.name,
                              !.finCmd = @ \/ seen = count(cmd)]
  <2>1. Scan /\ Becomes(c) /\ UNCHANGED <<unitQ, fault>>
    BY <1>3 DEF ScanParallel
  <2>2. seen \in Nat
    BY <1>2, <2>1 DEF RouteCmds, count
  <2>3. c \in RouteCmds
    <3> HIDE DEF seen
    <3> QED
      BY <1>2, <2>1, <2>2 DEF RouteCmds
  <2> HIDE DEF c
  <2> QED
    BY <1>0, <2>1, <2>3, BecomesTypes
<1>4. CASE ScanKept
  BY <1>0, <1>2, <1>4, BecomesTypes DEF ScanKept, Covered
<1>5. CASE ScanFar
  BY <1>0, <1>2, <1>5, BecomesTypes DEF ScanFar, Ahead
<1>6. CASE NextDone
  <2> DEFINE c == [cmd EXCEPT !.good = TRUE, !.last = unN]
             f == [c EXCEPT !.finCmd = TRUE]
  <2>1. /\ Scan
        /\ \/ Becomes(f) /\ UNCHANGED <<unitQ, fault>>
           \/ Becomes(c) /\ Send(rt, next(c), c.name)
    BY <1>6 DEF NextDone, Ahead
  <2>2. c \in RouteCmds
    BY <1>2, <2>1, GoodLastType
  <2> HIDE DEF c
  <2>3. f \in RouteCmds /\ c.name \in RouteCommands
    BY <2>2 DEF RouteCmds
  <2> HIDE DEF f
  <2>4. unitQ' \in Seq(UnitCommands) /\ fault' \in BOOLEAN
    BY <1>0, <1>2, <2>1, <2>3, SendTypes
  <2> QED
    BY <2>1, <2>2, <2>3, <2>4, BecomesTypes
<1>7. CASE NextFailed
  <2> DEFINE c == [cmd EXCEPT !.finCmd = TRUE,
                              !.good = @ /\ cmd.name = "RtCmToRoutForClean"]
             d == IF c.type = "UpStepByStep" THEN [c EXCEPT !.endUn = c.last]
                  ELSE [c EXCEPT !.beginUn = c.last]
  <2>1. Scan /\ Becomes(d) /\ UNCHANGED <<unitQ, fault>>
    BY <1>7 DEF NextFailed, Ahead
  <2>2. c \in RouteCmds
    BY <1>2, <2>1 DEF RouteCmds
  <2> HIDE DEF c
  <2>3. d \in RouteCmds
    BY <2>2 DEF RouteCmds
  <2> HIDE DEF d
  <2> QED
    BY <1>0, <2>1, <2>3, BecomesTypes
<1>8. CASE LeftSave
  <2>1. Scan /\ Becomes(Short(cmd)) /\ Send(rt, unN, "RtCmStop")
    BY <1>8 DEF LeftSave, Left, Covered
  <2>2. unitQ' \in Seq(UnitCommands) /\ fault' \in BOOLEAN
    BY <1>0, <1>2, <2>1, SendTypes DEF RouteCommands
  <2> QED
    BY <1>2, <2>1, <2>2, ShortType, BecomesTypes
<1>9. CASE LeftCleanStop
  <2>1. Scan /\ Becomes(Short(Finished(cmd, TRUE, cmd.good))) /\ Send(rt, unN, "RtCmStop")
    BY <1>9 DEF LeftCleanStop, Left, Covered
  <2>2. unitQ' \in Seq(UnitCommands) /\ fault' \in BOOLEAN
    BY <1>0, <1>2, <2>1, SendTypes DEF RouteCommands
  <2>3. Finished(cmd, TRUE, cmd.good) \in RouteCmds
    BY <1>2, <2>1, FinishedType DEF RouteCmds
  <2> QED
    BY <2>1, <2>2, <2>3, ShortType, BecomesTypes
<1> QED
  BY <1>1, <1>3, <1>4, <1>5, <1>6, <1>7, <1>8, <1>9
(* The steps that start a command from within the handler.                 *)
LEMMA LeftTypes ==
  ASSUME TypeOK,
         \/ LeftForClean \/ LeftFailed \/ LeftSilos \/ LeftBunker
  PROVE  TypeOK'
<1>0. /\ unitQ \in Seq(UnitCommands)
      /\ fault \in BOOLEAN
      /\ queueCmds \in [Routes -> Seq(RouteCmds)]
  BY DEF TypeOK, QueueTypes, CommandTypes
<1>1. Scan
  BY DEF LeftForClean, LeftFailed, LeftSilos, LeftBunker, ToRouteLeft, Left, Covered
<1>2. rt \in Routes /\ cmd \in RouteCmds /\ unN \in Int
  BY <1>1, ScanFrame, UnderScan
<1>3. cmd.beginUn \in Int /\ cmd.last \in Int /\ unN - 1 \in Int /\ unN + 1 \in Int
      /\ cmd.last + 1 \in Int /\ cmd.good \in BOOLEAN
  BY <1>2 DEF RouteCmds
<1>4. ASSUME NEW c \in RouteCmds, Becomes(c), UNCHANGED <<unitQ, fault>>
      PROVE  TypeOK'
  BY <1>0, <1>1, <1>4, BecomesTypes
<1>5. ASSUME NEW c \in RouteCmds, NEW d \in RouteCmds,
             SetCommand(rt, Replaced(c), genCom[rt], d, FALSE), UNCHANGED queueCmds
      PROVE  TypeOK'
  BY <1>0, <1>1, <1>5, SpawnTypes
<1>6. CASE LeftForClean
  <2> DEFINE stops == unN # cmd.last
             l == IF stops THEN unN + 1 ELSE cmd.last + 1
             c == [cmd EXCEPT !.good = @ /\ ~stops, !.last = l]
             d == Cmd("RtCmStopOnRouteAlarm", "Parallel", FALSE, cmd.last, unN - 1)
  <2>1. c \in RouteCmds
    <3>1. (cmd.good /\ ~stops) \in BOOLEAN /\ l \in Int
      BY <1>3
    <3> HIDE DEF stops, l
    <3> QED
      BY <1>2, <3>1 DEF RouteCmds
  <2>2. d \in RouteCmds
    BY <1>3 DEF Cmd, RouteCmds, RouteCommands, CmdTypes
  <2>3. \/ SetCommand(rt, Replaced(Short(c)), genCom[rt], d, FALSE) /\ UNCHANGED queueCmds
        \/ Becomes(Short(c)) /\ UNCHANGED <<unitQ, fault>>
    BY <1>6 DEF LeftForClean
  <2> HIDE DEF c, d
  <2> QED
    BY <1>4, <1>5, <2>1, <2>2, <2>3, ShortType
<1>7. CASE LeftFailed
  <2> DEFINE f == Finished(cmd, TRUE, FALSE)
             l == [f EXCEPT !.last = unN + 1]
             d == Cmd("RtCmStopOnRouteAlarm", "Parallel", TRUE, cmd.beginUn, unN - 1)
  <2>1. f \in RouteCmds
    BY <1>2, FinishedType
  <2>2. l \in RouteCmds
    <3> HIDE DEF f
    <3> QED
      BY <1>3, <2>1, LastType
  <2>3. d \in RouteCmds
    BY <1>3 DEF Cmd, RouteCmds, RouteCommands, CmdTypes
  <2>4. \/ SetCommand(rt, Replaced(Short(l)), genCom[rt], d, FALSE) /\ UNCHANGED queueCmds
        \/ Becomes(Short(l)) /\ UNCHANGED <<unitQ, fault>>
    BY <1>7 DEF LeftFailed
  <2> HIDE DEF l, d
  <2> QED
    BY <1>4, <1>5, <2>2, <2>3, <2>4, ShortType
<1>8. CASE LeftSilos
  <2> DEFINE f == Finished(cmd, FALSE, TRUE)
             l == [f EXCEPT !.last = unN + 1]
             d == Cmd("RtCmCleanStop", "UpStepByStep", FALSE, cmd.beginUn, unN - 1)
  <2>1. f \in RouteCmds
    BY <1>2, FinishedType
  <2>2. l \in RouteCmds
    <3> HIDE DEF f
    <3> QED
      BY <1>3, <2>1, LastType
  <2>3. d \in RouteCmds
    BY <1>3 DEF Cmd, RouteCmds, RouteCommands, CmdTypes
  <2>4. \/ SetCommand(rt, Replaced(Short(l)), genCom[rt], d, FALSE) /\ UNCHANGED queueCmds
        \/ Becomes(Short(l)) /\ UNCHANGED <<unitQ, fault>>
    BY <1>8 DEF LeftSilos
  <2> HIDE DEF l, d
  <2> QED
    BY <1>4, <1>5, <2>2, <2>3, <2>4, ShortType
<1>9. CASE LeftBunker
  <2> DEFINE f == Finished(cmd, FALSE, TRUE)
             d == Cmd("RtCmToRoutForClean", "DownStepByStep", TRUE, cmd.beginUn, unN - 1)
             a == Cmd("RtCmCleanStop", "UpStepByStep", FALSE, cmd.beginUn, unN - 1)
             b == Cmd("RtCmToRoute", "DownStepByStep", TRUE, cmd.beginUn, unN)
  <2>1. f \in RouteCmds
    BY <1>2, FinishedType
  <2>2. d \in RouteCmds /\ a \in RouteCmds /\ b \in RouteCmds
    BY <1>2, <1>3 DEF Cmd, RouteCmds, RouteCommands, CmdTypes
  <2>3. /\ SetCommand(rt, Replaced(Short(f)), genCom[rt], d, TRUE)
        /\ queueCmds' = [queueCmds EXCEPT ![rt] = <<a, b>>]
    BY <1>9 DEF LeftBunker
  <2> HIDE DEF f, d, a, b
  <2>4. queueCmds' \in [Routes -> Seq(RouteCmds)]
    <3>1. <<a, b>> \in Seq(RouteCmds)
      BY <2>2, PairSeq
    <3> QED
      BY <1>0, <1>2, <2>3, <3>1
  <2> QED
    BY <1>1, <2>1, <2>2, <2>3, <2>4, ShortType, SpawnTypes
<1> QED
  BY <1>6, <1>7, <1>8, <1>9
(* An element less, and where an index of the list then points.            *)
LEMMA Removal ==
  ASSUME NEW S, NEW s \in Seq(S), NEW i \in DOMAIN s
  PROVE  RemoveAt(s, i) \in Seq(S) /\ Len(RemoveAt(s, i)) = Len(s) - 1
<1>1. i \in 1 .. Len(s)
  OBVIOUS
<1> DEFINE a == SubSeq(s, 1, i - 1)
           b == SubSeq(s, i + 1, Len(s))
<1>2. a \in Seq(S) /\ Len(a) = i - 1
  BY <1>1, SubSeqProperties
<1>3. b \in Seq(S) /\ Len(b) = Len(s) - i
  BY <1>1, SubSeqProperties
<1>4. RemoveAt(s, i) = a \o b
  BY DEF RemoveAt
<1> HIDE DEF a, b
<1> QED
  BY <1>1, <1>2, <1>3, <1>4, ConcatProperties

(* Where an index points after a removal.                                  *)
LEMMA ShiftedType ==
  ASSUME NEW ix \in Nat, NEW i \in Nat \ {0}
  PROVE  /\ Shifted(ix, i) \in Nat
         /\ ix = i => Shifted(ix, i) = 0
         /\ ix < i => Shifted(ix, i) = ix
         /\ ix > i => Shifted(ix, i) = ix - 1
<1>1. CASE ix = i
  BY <1>1 DEF Shifted
<1>2. CASE ix > i
  BY <1>2 DEF Shifted
<1>3. CASE ix < i
  BY <1>3 DEF Shifted
<1> QED
  BY <1>1, <1>2, <1>3

(* The removal of commands and the end of the handler.                     *)
LEMMA EndingTypes ==
  ASSUME TypeOK,
         \/ InformFromStranger \/ RemoveCommand
         \/ RouteDone \/ NextQueued \/ StillWorking
  PROVE  TypeOK'
<1>0. /\ unitQ \in Seq(UnitCommands)
      /\ routeQ \in Seq(Events)
      /\ workCmds \in [Routes -> Seq(RouteCmds)]
      /\ queueCmds \in [Routes -> Seq(RouteCmds)]
      /\ genCom \in [Routes -> Nat]
      /\ allConnected \in [Routes -> BOOLEAN]
      /\ command \in [rt : Routes \cup {NoRoute}, ix : Nat]
      /\ pos \in Nat
      /\ fault \in BOOLEAN
      /\ HeldTypes
  BY DEF TypeOK, QueueTypes, CommandTypes, ListTypes
<1>1. informed /\ UNCHANGED aside
  BY DEF InformFromStranger, RemoveCommand, RouteDone, NextQueued, StillWorking, Ending, Scanned
<1>2. rt \in Routes /\ Tail(routeQ) \in Seq(Events)
  BY <1>1, InHand, TakenTypes DEF informed, TypeOK
<1>3. ASSUME UNCHANGED linked
      PROVE  HeldTypes' /\ allConnected' \in [Routes -> BOOLEAN]
  BY <1>0, <1>3 DEF linked, held, HeldTypes
<1>4. released \in [rt : Routes \cup {NoRoute}, ix : Nat]
  BY <1>0 DEF released
<1>5. ASSUME Ending
      PROVE  pos' \in Nat /\ routeQ' \in Seq(Events)
  BY <1>2, <1>5 DEF Ending
<1>6. CASE InformFromStranger
  <2>1. /\ routeQ' = Tail(routeQ)
        /\ UNCHANGED <<linked, unitQ, workCmds, queueCmds, genCom, command, pos, fault>>
    BY <1>6 DEF InformFromStranger
  <2> QED
    BY <1>0, <1>1, <1>2, <1>3, <2>1, FrameTypes
<1>7. CASE RemoveCommand
  <2> PICK i \in removable :
        /\ workCmds' = [workCmds EXCEPT ![rt] = RemoveAt(@, i)]
        /\ genCom' = [genCom EXCEPT ![rt] = Shifted(@, i)]
        /\ command' = IF command.rt = rt
                      THEN [command EXCEPT !.ix = Shifted(@, i)] ELSE command
    BY <1>7 DEF RemoveCommand
  <2>1. UNCHANGED <<routeQ, pos, linked, unitQ, queueCmds, fault>>
    BY <1>7 DEF RemoveCommand
  <2>2. i \in DOMAIN workCmds[rt] /\ i \in Nat \ {0}
    BY <1>0, <1>2 DEF removable
  <2>3. workCmds' \in [Routes -> Seq(RouteCmds)]
    <3>1. RemoveAt(workCmds[rt], i) \in Seq(RouteCmds)
      BY <1>0, <1>2, <2>2, Removal
    <3> QED
      BY <1>0, <1>2, <3>1
  <2>4. genCom' \in [Routes -> Nat]
    <3>1. Shifted(genCom[rt], i) \in Nat
      BY <1>0, <1>2, <2>2, ShiftedType
    <3> QED
      BY <1>0, <1>2, <3>1
  <2>5. command' \in [rt : Routes \cup {NoRoute}, ix : Nat]
    <3>1. Shifted(command.ix, i) \in Nat
      BY <1>0, <2>2, ShiftedType
    <3> QED
      BY <1>0, <3>1
  <2> QED
    BY <1>0, <1>1, <1>3, <2>1, <2>3, <2>4, <2>5, FrameTypes
<1>8. CASE RouteDone
  <2>1. /\ Ending
        /\ workCmds' = [workCmds EXCEPT ![rt] = <<>>]
        /\ genCom' = [genCom EXCEPT ![rt] = 0]
        /\ command' = released
        /\ UNCHANGED <<unitQ, queueCmds, fault>>
    BY <1>8 DEF RouteDone
  <2>2. /\ Release(heldBy(rt))
        /\ allConnected' = [allConnected EXCEPT ![rt] = @ /\ heldBy(rt) = {}]
    BY <1>8 DEF RouteDone, DisconnectAllUnit
  <2>3. HeldTypes' /\ allConnected' \in [Routes -> BOOLEAN]
    BY <1>0, <1>2, <2>2, ReleaseTypes
  <2>4. <<>> \in Seq(RouteCmds)
    OBVIOUS
  <2>5. workCmds' \in [Routes -> Seq(RouteCmds)] /\ genCom' \in [Routes -> Nat]
    BY <1>0, <1>2, <2>1, <2>4
  <2> QED
    BY <1>0, <1>1, <1>4, <1>5, <2>1, <2>3, <2>5, FrameTypes
<1>9. CASE NextQueued
  <2>1. /\ Ending
        /\ queued # <<>>
        /\ SetCommand(rt, <<>>, 0, Head(queued), TRUE)
        /\ queueCmds' = [queueCmds EXCEPT ![rt] = Tail(@)]
        /\ command' = released
    BY <1>9 DEF NextQueued
  <2>2. queued \in Seq(RouteCmds)
    BY <1>0, <1>2 DEF queued
  <2>3. Head(queued) \in RouteCmds /\ Tail(queueCmds[rt]) \in Seq(RouteCmds)
    BY <2>1, <2>2 DEF queued
  <2>4. <<>> \in Seq(RouteCmds)
    OBVIOUS
  <2>5. /\ HeldTypes'
        /\ unitQ' \in Seq(UnitCommands)
        /\ workCmds' \in [Routes -> Seq(RouteCmds)]
        /\ genCom' \in [Routes -> Nat]
        /\ allConnected' \in [Routes -> BOOLEAN]
        /\ fault' \in BOOLEAN
    BY <1>2, <2>1, <2>3, <2>4, SetCommandTypes DEF TypeOK
  <2>6. queueCmds' \in [Routes -> Seq(RouteCmds)]
    BY <1>0, <1>2, <2>1, <2>3
  <2> QED
    BY <1>1, <1>4, <1>5, <2>1, <2>5, <2>6, FrameTypes
<1>10. CASE StillWorking
  <2>1. /\ Ending
        /\ UNCHANGED <<linked, unitQ, workCmds, queueCmds, genCom, command, fault>>
    BY <1>10 DEF StillWorking
  <2> QED
    BY <1>0, <1>1, <1>3, <1>5, <2>1, FrameTypes
<1> QED
  BY <1>6, <1>7, <1>8, <1>9, <1>10

(* Every step keeps the types.                                             *)
LEMMA NextTypes == TypeOK /\ [Next]_vars => TypeOK'
<1> SUFFICES ASSUME TypeOK, [Next]_vars PROVE TypeOK'
  OBVIOUS
<1>1. ASSUME UNCHANGED routeVars, HeldTypes', PlantTypes', QueueTypes' PROVE TypeOK'
  <2>1. CommandTypes' /\ ListTypes'
    BY <1>1 DEF routeVars, TypeOK, CommandTypes, ListTypes
  <2> QED
    BY <1>1, <2>1 DEF TypeOK
<1>2. CASE UNCHANGED vars
  <2>1. HeldTypes' /\ PlantTypes' /\ QueueTypes'
    BY <1>2 DEF vars, unitVars, TypeOK, HeldTypes, PlantTypes, QueueTypes
  <2>2. UNCHANGED routeVars
    BY <1>2 DEF vars
  <2> QED
    BY <1>1, <2>1, <2>2
<1>3. CASE UnitThread /\ UNCHANGED routeVars
  BY <1>1, <1>3, CommandFromRouteTypes, ObserveTypes DEF UnitThread
<1>4. CASE UnitPlant /\ UNCHANGED routeVars
  BY <1>1, <1>4, PlantStepTypes
<1>5. CASE RouteThread
  <2>1. CASE InformStep
    BY <2>1, ScanTypes, LeftTypes, EndingTypes DEF InformStep
  <2>2. CASE AddUnit
    BY <2>2, AddUnitTypes
  <2>3. CASE \E r \in Routes : Operation(r)
    BY <2>3, OrderTypes, ListEditTypes DEF Operation
  <2> QED
    BY <1>5, <2>1, <2>2, <2>3 DEF RouteThread
<1>6. CASE \E r \in Routes : Operator(r) \/ Show(r)
  BY <1>6, OperatorTypes
<1> QED
  BY <1>2, <1>3, <1>4, <1>5, <1>6 DEF Next

(* Types, and with them that every answer is queued for a route: a unit    *)
(* that no route holds has nobody to answer (_ConnectUnit, DisconnectUnit   *)
(* make and break the connection together with _myRoute).                  *)
THEOREM TypeCorrect == Spec => []TypeOK
<1>1. Init => TypeOK
  BY InitTypes
<1>2. TypeOK /\ [Next]_vars => TypeOK'
  BY NextTypes
<1> QED
  BY <1>1, <1>2, PTL DEF Spec
=============================================================================
