----------------------------- MODULE RouteUnit -----------------------------
(***************************************************************************)
(* The units thread: RouteUnit (Route/RouteUnit.cpp) on top of Unit        *)
(* (unit.cpp), with the rules of OneEngRouteUnit over an ElectroEngine with *)
(* one contactor, of Noria, of Silos1 and of Druer3_Bunker.  It takes the   *)
(* commands of unitQ in order and answers into routeQ, the event queue of   *)
(* the routes thread.                                                       *)
(*                                                                         *)
(* A unit is free, or blocked by the one route that holds it (myRoute).    *)
(* Its plant is one output (the start signal of an engine) and one sensor  *)
(* (the contactor of an engine, the level of a silos or a bunker).  Every  *)
(* reported change of a tag makes the unit look at its tags once: CheckState*)
(* followed by updateState, here the step Observe.  A written output is    *)
(* reported twice, by OutETag::setValue and when the driver reads it back. *)
(* The lines to the plant hold: no tag loses its connection.               *)
(***************************************************************************)
EXTENDS Prom

CONSTANTS
  Routes,       \* the routes of the object
  Units,        \* the units a route may be built from
  NoRoute,      \* the null Route*
  NoUnit,       \* filler of an event that concerns no unit
  Kind,         \* Kind[u]: "engine", "noria", "silos" or "bunker"
  BlockedStop,  \* engines whose _blockedStop is set
  MaxDisturb    \* bound on the steps plant and operator take at will

Kinds == {"engine", "noria", "silos", "bunker"}

ASSUME UnitConstants ==
  /\ NoRoute \notin Routes
  /\ NoUnit \notin Units
  /\ Kind \in [Units -> Kinds]
  /\ BlockedStop \subseteq Units
  /\ MaxDisturb \in Nat

VARIABLES
  myRoute,      \* _myRoute; _blocked is myRoute[u] # NoRoute
  routeMode,    \* _routeMode
  routeCommand, \* _routeCommand
  mode,         \* _currentMode
  eng,          \* ElectroEngine::_nowState, and with it _currentState
  out,          \* startForward->isOn()
  due,          \* reported changes the unit has not looked at, up to MaxDue
  sensed,       \* the contactor or level sensor of the unit
  alarm,        \* _alarm
  mayReset,     \* _mayResetAlarm of the contactor
  unheard,      \* history: a refused reset has put the unit into alarm, and no
                \* tag has told of an alarm since
  unitQ,        \* event queue of the units thread
  routeQ,       \* event queue of the routes thread
  disturb       \* disturbing steps left

held   == <<myRoute, routeMode>>
plant  == <<sensed, alarm, unheard, disturb>>
unitVars == <<myRoute, routeMode, routeCommand, mode, eng, out, due,
              sensed, alarm, mayReset, unheard, unitQ, routeQ, disturb>>

-----------------------------------------------------------------------------

hasEngine(u) == Kind[u] \in {"engine", "noria"}

SensorValues(u) ==
  IF Kind[u] = "bunker" THEN {"no", "mid", "yes"} ELSE {"no", "yes"}

MaxDue == 2

UnitCommands == [un : Units, cmd : RouteCommands]

(* Mutant: a released unit is still connected to the slot of no route.      *)
informToRoute_Always(u, cmd) ==
  <<[ev |-> "Inform", rt |-> myRoute[u], un |-> u, arg |-> cmd]>>

(* The event that s_informToRoute queues; nobody listens to a free unit.   *)
informToRoute(u, cmd) ==
  IF myRoute[u] = NoRoute THEN <<>>
  ELSE <<[ev |-> "Inform", rt |-> myRoute[u], un |-> u, arg |-> cmd]>>

(* RouteUnit::_ModeOfCommand and its overrides, for a unit whose current   *)
(* mode is cur; saveMode is UnMdStop for every engine.                     *)
ModeOfCommand(u, cur, cmd) ==
  CASE cmd = "RtCmNo" -> IF Kind[u] = "engine" THEN cur ELSE "UnMdNoDef"
    [] cmd \in {"RtCmToRoute", "RtCmToRoutForClean"} -> routeMode[u]
    [] ~hasEngine(u) /\ cmd = "RtCmStop" -> routeMode[u]
    [] ~hasEngine(u) /\ cmd \in {"RtCmCleanStop", "RtCmToSave",
                                 "RtCmStopOnRouteAlarm"} -> cur
    [] hasEngine(u) /\ cmd = "RtCmCleanStop" -> "UnMdCleanStop"
    [] Kind[u] = "noria" /\ cmd = "RtCmStopOnRouteAlarm"
         /\ cur = "UnMdStart" -> "UnMdStart"
    [] OTHER -> "UnMdStop"

-----------------------------------------------------------------------------
(* Unit::setMode.  Rejections differ only in their log text, and in a      *)
(* RouteUnitInfo that no route looks at.                                   *)

LevelModes(u) ==
  IF Kind[u] = "silos" THEN {"UnMdEmpty", "UnMdFull"}
  ELSE {"UnMdNeedLoad", "UnMdNeedUnload"}

(* Mutant: StartForward does not ask for the alarm. *)
canStart_InAlarm(u) == eng[u] = "EngStoped"

canStart(u) == ~alarm[u] /\ eng[u] = "EngStoped"

(* Mutant: an engine that stands answers a stop only when its state changes. *)
setModeResp_Wait(u, m) ==
  CASE hasEngine(u) /\ m = "UnMdStop" -> "DoneWhait"
    [] hasEngine(u) /\ m = "UnMdStart" /\ ~alarm[u] ->
         IF eng[u] = "EngForvard" THEN "DoneAlready" ELSE "DoneWhait"
    [] ~hasEngine(u) /\ m = mode[u] -> "DoneAlready"
    [] ~hasEngine(u) /\ m # mode[u] /\ m \in LevelModes(u) -> "DoneWhait"
    [] OTHER -> "Rejected"

setModeResp(u, m) ==
  CASE hasEngine(u) /\ m = "UnMdStop" ->
         IF eng[u] = "EngStoped" THEN "DoneAlready" ELSE "DoneWhait"
    [] hasEngine(u) /\ m = "UnMdStart" /\ ~alarm[u] ->
         CASE eng[u] = "EngForvard" -> "DoneAlready"
           [] eng[u] \in {"EngStoped", "EngToForvard"} -> "DoneWhait"
           [] OTHER -> "Rejected"
    [] ~hasEngine(u) /\ m = mode[u]
         /\ (Kind[u] = "bunker" \/ m \in LevelModes(u)) -> "DoneAlready"
    [] ~hasEngine(u) /\ m # mode[u] /\ m \in LevelModes(u) -> "DoneWhait"
    [] OTHER -> "Rejected"

(* The output after setMode(m): a stop always switches it off, a start     *)
(* switches it on only if the engine is known to stand.                    *)
outAfter(u, m) ==
  CASE hasEngine(u) /\ m = "UnMdStop" -> FALSE
    [] hasEngine(u) /\ m = "UnMdStart" -> out[u] \/ canStart(u)
    [] OTHER -> out[u]

(* The output tag is written. *)
Write(u, value) ==
  /\ out'  = [out EXCEPT ![u] = value]
  /\ due' = [due EXCEPT ![u] = IF value # out[u] THEN MaxDue ELSE @]

-----------------------------------------------------------------------------
(* The handlers of the units thread.                                       *)

Ignore == UNCHANGED <<routeCommand, out, due, routeQ>>

(* The command the unit already follows is confirmed once it is reached.   *)
RepeatCommand(u, c) ==
  /\ routeQ' = IF mode[u] = ModeOfCommand(u, mode[u], c)
               THEN routeQ \o informToRoute(u, c) ELSE routeQ
  /\ UNCHANGED <<routeCommand, out, due>>

AcceptCommand(u, c) ==
  LET m == ModeOfCommand(u, mode[u], c)
      resp == setModeResp(u, m)
  IN  /\ Write(u, outAfter(u, m))
      /\ routeCommand' = IF resp = "Rejected" THEN routeCommand
                         ELSE [routeCommand EXCEPT ![u] = c]
      /\ routeQ' = CASE resp = "Rejected" -> routeQ \o informToRoute(u, "RtCmNo")
                     [] resp = "DoneAlready" -> routeQ \o informToRoute(u, c)
                     [] OTHER -> routeQ

commandFromRoute ==
  /\ unitQ # <<>>
  /\ unitQ' = Tail(unitQ)
  /\ LET u == Head(unitQ).un
         c == Head(unitQ).cmd
     IN  \/ myRoute[u] = NoRoute /\ Ignore
         \/ myRoute[u] # NoRoute /\ routeCommand[u] = c /\ RepeatCommand(u, c)
         \/ myRoute[u] # NoRoute /\ routeCommand[u] # c /\ AcceptCommand(u, c)
  /\ UNCHANGED <<held, plant, mayReset, mode, eng>>

(* ElectroEngine::CheckStateSTART1KM *)
engineState(u) ==
  CASE out[u] /\ sensed[u] = "yes" -> "EngForvard"
    [] out[u] /\ sensed[u] = "no"  -> "EngToForvard"
    [] ~out[u] /\ sensed[u] = "no" -> "EngStoped"
    [] OTHER -> IF eng[u] \in {"EngForvard", "EngToForvard"}
                THEN "EngToStopForward" ELSE "EngManualForward"

(* _setCurrentMode(m), and RouteUnit::_doOnModeChange even when the mode   *)
(* is the one the unit already had.                                        *)
setCurrentMode(u, m) ==
  LET reached  == icvalModes(ModeOfCommand(u, m, routeCommand[u]), m)
      rejected == ~reached /\ ~alarm[u]
  IN  /\ mode' = [mode EXCEPT ![u] = m]
      /\ routeCommand' = IF myRoute[u] # NoRoute /\ rejected
                         THEN [routeCommand EXCEPT ![u] = "RtCmNo"]
                         ELSE routeCommand
      /\ routeQ' = CASE reached  -> routeQ \o informToRoute(u, routeCommand[u])
                     [] rejected -> routeQ \o informToRoute(u, "RtCmNo")
                     [] OTHER    -> routeQ

(* The modes _updateStateAndMode sets: one, or none for a transient engine *)
(* state and for a level between the bounds.                               *)
settledModes(u) ==
  IF hasEngine(u)
  THEN {m \in {"UnMdStop", "UnMdStart", "UnMdNoDef"} :
          engineState(u) = CASE m = "UnMdStop"  -> "EngStoped"
                             [] m = "UnMdStart" -> "EngForvard"
                             [] OTHER           -> "EngManualForward"}
  ELSE CASE sensed[u] = "yes" ->
              {IF Kind[u] = "silos" THEN "UnMdFull" ELSE "UnMdNeedUnload"}
         [] sensed[u] = "no" ->
              {IF Kind[u] = "silos" THEN "UnMdEmpty" ELSE "UnMdNeedLoad"}
         [] OTHER -> {}

(* What a change of the output asks of the contactor is queued behind it:   *)
(* an engine switched off needs it off, and it may be on without an alarm  *)
(* (kmAlarmON, InETag::needBeUndetectedNoAlarm).                           *)
Observe(u) ==
  /\ due[u] > 0
  /\ mayReset' = [mayReset EXCEPT ![u] = @ \/ (hasEngine(u) /\ ~out[u])]
  /\ due' = [due EXCEPT ![u] = @ - 1]
  /\ eng' = [eng EXCEPT ![u] = IF hasEngine(u) THEN engineState(u) ELSE @]
  /\ \/ \E m \in settledModes(u) : setCurrentMode(u, m)
     \/ settledModes(u) = {} /\ UNCHANGED <<mode, routeCommand, routeQ>>
  /\ UNCHANGED <<held, plant, out, unitQ>>

-----------------------------------------------------------------------------
(* What reaches the units thread from outside.                             *)

Disturb ==
  /\ disturb > 0
  /\ disturb' = disturb - 1

(* Mutant: an alarm is not told to the route. *)
detectAlarm_Silent(u) ==
  /\ Disturb
  /\ alarm' = [alarm EXCEPT ![u] = TRUE]
  /\ unheard' = [unheard EXCEPT ![u] = FALSE]
  /\ routeCommand' = [routeCommand EXCEPT ![u] = "RtCmNo"]
  /\ Write(u, outAfter(u, "UnMdStop"))
  /\ UNCHANGED <<held, mode, eng, sensed, mayReset, unitQ, routeQ>>

(* detectAlarm and _alarmDo.  A noria stops only for alarms other than that *)
(* of its product sensor.                                                  *)
detectAlarm(u) ==
  /\ Disturb
  /\ alarm' = [alarm EXCEPT ![u] = TRUE]
  /\ unheard' = [unheard EXCEPT ![u] = FALSE]
  /\ routeCommand' = [routeCommand EXCEPT ![u] = "RtCmNo"]
  /\ routeQ' = routeQ \o informToRoute(u, "RtCmNo")
  /\ \/ Write(u, outAfter(u, "UnMdStop"))
     \/ Kind[u] = "noria" /\ UNCHANGED <<out, due>>
  /\ UNCHANGED <<held, mode, eng, sensed, mayReset, unitQ>>

(* Unit::_resetAlarm counts the alarm anew: a contactor that has no         *)
(* permission refuses the reset and thereby puts the unit into alarm.  It  *)
(* signals an alarm without a text, which detectAlarm ignores.             *)
resetAlarm(u) ==
  /\ alarm[u] \/ ~mayReset[u]
  /\ alarm' = [alarm EXCEPT ![u] = ~mayReset[u]]
  /\ unheard' = [unheard EXCEPT ![u] = @ \/ (~mayReset[u] /\ ~alarm[u])]
  /\ UNCHANGED <<held, routeCommand, mode, eng, out, due, sensed, mayReset,
                 unitQ, routeQ, disturb>>

(* EngRouteUnit::start and stop: the buttons of the operator.              *)
UserSetMode(u, m) ==
  /\ Disturb
  /\ hasEngine(u)
  /\ myRoute[u] = NoRoute \/ (m = "UnMdStop" /\ u \notin BlockedStop)
  /\ Write(u, outAfter(u, m))
  /\ UNCHANGED <<held, alarm, mayReset, unheard, routeCommand, mode, eng, sensed,
                 unitQ, routeQ>>

(* A tag of u is reported by the driver. *)
Report(u) == due' = [due EXCEPT ![u] = IF @ < MaxDue THEN @ + 1 ELSE @]

(* The contactor follows the output.                                       *)
Contactor(u) ==
  /\ hasEngine(u)
  /\ out[u] # (sensed[u] = "yes")
  /\ sensed' = [sensed EXCEPT ![u] = IF out[u] THEN "yes" ELSE "no"]
  /\ mayReset' = [mayReset EXCEPT ![u] = TRUE]
  /\ Report(u)
  /\ UNCHANGED <<held, routeCommand, mode, eng, out, alarm, unheard,
                 unitQ, routeQ, disturb>>

(* A contactor that has come on falls off within its set time: that is no   *)
(* alarm, but it takes away the permission to reset one (InETag::_checkVal).*)
Bounce(u) ==
  /\ Disturb
  /\ hasEngine(u)
  /\ out[u] /\ sensed[u] = "yes"
  /\ sensed' = [sensed EXCEPT ![u] = "no"]
  /\ mayReset' = [mayReset EXCEPT ![u] = FALSE]
  /\ Report(u)
  /\ UNCHANGED <<held, routeCommand, mode, eng, out, alarm, unheard,
                 unitQ, routeQ>>

(* The product rises or falls past a level sensor.                         *)
LevelChange(u) ==
  /\ Disturb
  /\ ~hasEngine(u)
  /\ \E s \in SensorValues(u) \ {sensed[u]} : sensed' = [sensed EXCEPT ![u] = s]
  /\ Report(u)
  /\ UNCHANGED <<held, alarm, mayReset, unheard, routeCommand, mode, eng, out,
                 unitQ, routeQ>>

(* A value that did not change is reported again: the driver repeats it,   *)
(* the connection comes back, or the whole object is rescanned.            *)
Rescan(u) ==
  /\ Disturb
  /\ Report(u)
  /\ UNCHANGED <<held, alarm, mayReset, unheard, routeCommand, mode, eng, out,
                 sensed, unitQ, routeQ>>

-----------------------------------------------------------------------------

UnitInit ==
  /\ myRoute = [u \in Units |-> NoRoute]
  /\ routeMode = [u \in Units |-> "UnMdNoDef"]
  /\ routeCommand = [u \in Units |-> "RtCmNo"]
  /\ mode = [u \in Units |-> IF hasEngine(u) THEN "UnMdStop"
                             ELSE IF Kind[u] = "silos" THEN "UnMdEmpty"
                             ELSE "UnMdNeedLoad"]
  /\ eng = [u \in Units |-> "EngStoped"]
  /\ out = [u \in Units |-> FALSE]
  /\ due = [u \in Units |-> 0]
  /\ sensed = [u \in Units |-> "no"]
  /\ alarm = [u \in Units |-> FALSE]
  /\ mayReset = [u \in Units |-> TRUE]
  /\ unheard = [u \in Units |-> FALSE]
  /\ unitQ = <<>>
  /\ routeQ = <<>>
  /\ disturb = MaxDisturb

UnitThread == commandFromRoute \/ \E u \in Units : Observe(u)

UnitPlant ==
  \E u \in Units : \/ Contactor(u)   \/ LevelChange(u) \/ Rescan(u)
                   \/ Bounce(u)      \/ detectAlarm(u) \/ resetAlarm(u)
                   \/ UserSetMode(u, "UnMdStart") \/ UserSetMode(u, "UnMdStop")

=============================================================================
