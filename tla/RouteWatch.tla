----------------------------- MODULE RouteWatch -----------------------------
(***************************************************************************)
(* Proof that no failure of a started unit goes unnoticed by its route     *)
(* (CoveredRuns of RouteProps), for lists of distinct units that are not   *)
(* edited, when the operator waits for the line to settle before the next  *)
(* click; alarms, resets, bounces of contactors, buttons of units and      *)
(* rescans may come at any time.  A unit that a refused reset has put into *)
(* alarm is excepted: of that alarm nobody is told.                        *)
(*                                                                         *)
(* The argument is that a confirmation is only as good as what the unit    *)
(* says later: every confirmation in the queue comes from an engine that   *)
(* still shows some life, or is followed by an answer that takes it back.  *)
(***************************************************************************)
EXTENDS RouteSafety

(* No unit is twice in the list of a route (AddUnit looks for it first).   *)
DistinctLists ==
  \A r \in Routes : \A i, j \in DOMAIN InitList[r] :
     InitList[r][i].un = InitList[r][j].un => i = j

PatientNext == Next /\ (ops' # ops => settled)

-----------------------------------------------------------------------------
(* What is known of units and of their answers.                            *)

(* The engine runs, or has a change of its tags to look at. *)
lively(u) == out[u] \/ sensed[u] = "yes" \/ due[u] > 0

(* The engine is to be on when its route works. *)
driven(u) == hasEngine(u) /\ routeMode[u] = "UnMdStart"

From(e, r, u) == e.ev = "Inform" /\ e.rt = r /\ e.un = u

(* After the first n events, the queue has an answer of u to r that does   *)
(* not confirm RtCmToRoute.                                                *)
TakenBack(r, u, n) ==
  \E k \in DOMAIN routeQ : k > n /\ From(routeQ[k], r, u) /\ routeQ[k].arg # "RtCmToRoute"

(* Nothing is wrong with it, or a refused reset put it into alarm.          *)
fit(u) == unheard[u] \/ (lively(u) /\ ~alarm[u])

Sound(r, u, n) == fit(u) \/ TakenBack(r, u, n)

(* An engine that shows no life has seen that it stands. *)
UnitsRest ==
  \A u \in Units : hasEngine(u) =>
     /\ sensed[u] # "mid"
     /\ lively(u) \/ (mode[u] = "UnMdStop" /\ eng[u] = "EngStoped")

(* An engine whose alarm was told follows no start. *)
AlarmRefuses ==
  \A u \in Units : driven(u) /\ alarm[u] /\ ~unheard[u] => routeCommand[u] # "RtCmToRoute"

(* Clicks are handled first, and by a route that has no old answers. *)
OpFirst == \A k \in DOMAIN routeQ : routeQ[k].ev = "Op" => k = 1

FreshStart ==
  \A r \in Routes :
     routeQ # <<>> /\ Head(routeQ).ev = "Op" /\ Head(routeQ).rt = r /\ ~working(r) =>
       \A k \in DOMAIN routeQ : routeQ[k].ev = "Inform" => routeQ[k].rt # r

(* A scan under way has its answer in hand. *)
ScanInHand == pos > 0 => informed /\ known

(* A start that is the main command goes down the line. *)
Forward(c) ==
  c.name = "RtCmToRoute" => c.type = "DownStepByStep" /\ c.beginUn <= c.last

ForwardCmds ==
  \A r \in Routes :
     /\ working(r) => Forward(main(r))
     /\ \A i \in DOMAIN queueCmds[r] :
          queueCmds[r][i].name = "RtCmToRoute" => queueCmds[r][i].type = "DownStepByStep"

(* Every confirmation in the queue is sound. *)
Followed ==
  \A r \in Routes, u \in Units : myRoute[u] = r /\ driven(u) =>
     \A k \in DOMAIN routeQ :
       From(routeQ[k], r, u) /\ routeQ[k].arg = "RtCmToRoute" => Sound(r, u, k)

(* The answer in hand no longer counts once the main command has seen it. *)
read(r) == IF genCom[r] <= pos /\ Head(routeQ).rt = r THEN 1 ELSE 0

(* So is every unit that the start has passed. *)
Passed(r, i) == i - 1 \in main(r).last .. main(r).endUn

Watched ==
  \A r \in Routes : working(r) /\ main(r).name = "RtCmToRoute" =>
     \A i \in DOMAIN unitList[r] :
       Passed(r, i) /\ driven(unitList[r][i].un) => Sound(r, unitList[r][i].un, read(r))

WInv == /\ OpFirst /\ FreshStart /\ ScanInHand
        /\ UnitsRest /\ AlarmRefuses
        /\ ForwardCmds /\ Followed /\ Watched

FixedInv == IInv /\ NoEdits /\ InRanges /\ Owned

-----------------------------------------------------------------------------
(* The units thread and the plant.                                         *)

(* What a step of the units thread tells about the unit u: it adds at most *)
(* one answer of u to the queue, a confirmation only from a unit that is   *)
(* alive, and none is silent about the end of its life or an alarm.        *)
Tells(u, c) ==
  /\ routeQ' = routeQ \o informToRoute(u, c)
  /\ driven(u) /\ c = "RtCmToRoute" => fit(u)'

Silent(u) ==
  /\ routeQ' = routeQ
  /\ driven(u) /\ fit(u) => fit(u)'

SameUnit(w) == /\ (lively(w)' <=> lively(w))
               /\ (alarm'[w] <=> alarm[w]) /\ (unheard'[w] <=> unheard[w])
               /\ sensed'[w] = sensed[w]
               /\ mode'[w] = mode[w] /\ eng'[w] = eng[w]
               /\ routeCommand'[w] = routeCommand[w]

UnitStep(u) ==
  /\ UNCHANGED held
  /\ \A w \in Units \ {u} : SameUnit(w)
  /\ UnitsRest' /\ AlarmRefuses'
  /\ Silent(u) \/ \E c \in RouteCommands : Tells(u, c)

(* A written output keeps an engine alive: if it was switched off, that is *)
(* a change to look at.                                                    *)
LEMMA WriteLively ==
  ASSUME TypeOK, NEW u \in Units, NEW value \in BOOLEAN, Write(u, value), UNCHANGED sensed
  PROVE  /\ \A w \in Units \ {u} : (lively(w)' <=> lively(w))
         /\ lively(u) => lively(u)'
  BY DEF TypeOK, PlantTypes, Write, lively, MaxDue

(* A command from a route.                                                 *)
LEMMA CommandStep ==
  ASSUME TypeOK, UnitsRest, AlarmRefuses, commandFromRoute
  PROVE  \E u \in Units : UnitStep(u)
<1>1. PICK u \in Units, c \in RouteCommands :
        Ignore \/ (routeCommand[u] = c /\ RepeatCommand(u, c)) \/ AcceptCommand(u, c)
  <2>1. unitQ # <<>> /\ unitQ \in Seq(UnitCommands)
    BY DEF commandFromRoute, TypeOK, QueueTypes
  <2>2. Head(unitQ) \in UnitCommands
    BY <2>1
  <2>3. Head(unitQ).un \in Units /\ Head(unitQ).cmd \in RouteCommands
    BY <2>2 DEF UnitCommands
  <2> QED
    BY <2>3, Zenon DEF commandFromRoute
<1> DEFINE m == ModeOfCommand(u, mode[u], c)
<1>2. UNCHANGED <<held, plant, mode, eng>>
  BY DEF commandFromRoute
<1>3. /\ out \in [Units -> BOOLEAN] /\ sensed \in [Units -> {"no", "mid", "yes"}]
      /\ due \in [Units -> 0 .. MaxDue] /\ routeCommand \in [Units -> RouteCommands]
      /\ routeQ \in Seq(Events) /\ "RtCmNo" \in RouteCommands
  BY DEF TypeOK, PlantTypes, HeldTypes, QueueTypes, RouteCommands
<1>5. hasEngine(u) /\ mode[u] = "UnMdStart" => lively(u)
  BY <1>1 DEF UnitsRest
<1>6. hasEngine(u) /\ eng[u] = "EngForvard" => lively(u)
  BY <1>1 DEF UnitsRest
<1>7. ASSUME driven(u), c = "RtCmToRoute" PROVE m = "UnMdStart"
  BY <1>7 DEF driven, ModeOfCommand
<1> HIDE DEF m
<1>8. ASSUME UNCHANGED <<out, due, routeCommand>>, routeQ' = routeQ
      PROVE  UnitStep(u)
  <2>1. \A w \in Units : SameUnit(w)
    BY <1>2, <1>8 DEF SameUnit, lively, plant
  <2>2. UnitsRest' /\ AlarmRefuses'
    BY <1>2, <1>8, <2>1 DEF UnitsRest, AlarmRefuses, SameUnit, driven, held
  <2>3. Silent(u)
    BY <1>1, <1>8, <2>1 DEF Silent, SameUnit, fit
  <2> QED
    BY <1>2, <2>1, <2>2, <2>3 DEF UnitStep
<1>9. CASE Ignore
  BY <1>1, <1>8, <1>9 DEF Ignore
<1>10. CASE routeCommand[u] = c /\ RepeatCommand(u, c)
  <2>1. UNCHANGED <<out, due, routeCommand>>
    BY <1>10 DEF RepeatCommand
  <2>2. CASE mode[u] # m
    BY <1>1, <1>8, <1>10, <2>1, <2>2 DEF RepeatCommand, m
  <2>3. CASE mode[u] = m
    <3>1. routeQ' = routeQ \o informToRoute(u, c)
      BY <1>10, <2>3 DEF RepeatCommand, m
    <3>2. \A w \in Units : SameUnit(w)
      BY <1>2, <2>1 DEF SameUnit, lively, plant
    <3>3. UnitsRest' /\ AlarmRefuses'
      BY <1>2, <2>1, <3>2 DEF UnitsRest, AlarmRefuses, SameUnit, driven, held
    <3>4. ASSUME driven(u), c = "RtCmToRoute" PROVE fit(u)'
      BY <1>1, <1>5, <1>7, <1>10, <2>3, <3>2, <3>4 DEF AlarmRefuses, SameUnit, driven, fit
    <3>5. Tells(u, c)
      BY <3>1, <3>4 DEF Tells
    <3> QED
      BY <1>1, <1>2, <3>2, <3>3, <3>5 DEF UnitStep
  <2> QED
    BY <2>2, <2>3
<1>11. CASE AcceptCommand(u, c)
  <2> DEFINE rs == setModeResp(u, m)
  <2>1. /\ Write(u, outAfter(u, m))
        /\ routeCommand' = IF rs = "Rejected" THEN routeCommand
                           ELSE [routeCommand EXCEPT ![u] = c]
        /\ routeQ' = CASE rs = "Rejected" -> routeQ \o informToRoute(u, "RtCmNo")
                       [] rs = "DoneAlready" -> routeQ \o informToRoute(u, c)
                       [] OTHER -> routeQ
    BY <1>11 DEF AcceptCommand, m
  <2>2. /\ \A w \in Units \ {u} : (lively(w)' <=> lively(w))
        /\ lively(u) => lively(u)'
    <3>1. outAfter(u, m) \in BOOLEAN
      BY <1>1, OutTypes DEF TypeOK
    <3> QED
      BY <1>1, <1>2, <2>1, <3>1, WriteLively DEF plant
  <2>3. ASSUME driven(u), m = "UnMdStart"
        PROVE  /\ alarm[u] => rs = "Rejected"
               /\ rs = "DoneAlready" => eng[u] = "EngForvard"
    BY <2>3 DEF setModeResp, driven
  <2> HIDE DEF rs
  <2>4. \A w \in Units \ {u} : SameUnit(w)
    BY <1>2, <1>3, <2>1, <2>2 DEF SameUnit, plant
  <2>5. \A w \in Units : routeCommand'[w] \in {routeCommand[w], c}
    BY <1>3, <2>1
  <2>6. UnitsRest'
    BY <1>2, <2>2 DEF UnitsRest, plant
  <2>7. AlarmRefuses'
    <3>1. driven(u) /\ alarm[u] /\ ~unheard[u] => routeCommand'[u] # "RtCmToRoute"
      BY <1>1, <1>3, <1>7, <2>1, <2>3, <2>5 DEF AlarmRefuses
    <3>2. \A w \in Units : (driven(w)' <=> driven(w)) /\ (alarm'[w] <=> alarm[w])
                             /\ (unheard'[w] <=> unheard[w])
      BY <1>2 DEF driven, held, plant
    <3> QED
      BY <2>4, <3>1, <3>2 DEF AlarmRefuses, SameUnit
  <2>8. CASE rs = "Rejected"
    BY <1>1, <1>2, <1>3, <2>1, <2>4, <2>6, <2>7, <2>8 DEF UnitStep, Tells
  <2>9. CASE rs = "DoneAlready"
    <3>1. routeQ' = routeQ \o informToRoute(u, c)
      BY <2>1, <2>9
    <3>2. driven(u) /\ c = "RtCmToRoute" => fit(u)'
      BY <1>2, <1>6, <1>7, <2>2, <2>3, <2>9 DEF driven, plant, fit
    <3>3. Tells(u, c)
      BY <3>1, <3>2 DEF Tells
    <3> QED
      BY <1>1, <1>2, <2>4, <2>6, <2>7, <3>3 DEF UnitStep
  <2>10. CASE rs \notin {"Rejected", "DoneAlready"}
    <3>1. Silent(u)
      BY <1>2, <2>1, <2>2, <2>10 DEF Silent, plant, fit
    <3> QED
      BY <1>1, <1>2, <2>4, <2>6, <2>7, <3>1 DEF UnitStep
  <2> QED
    BY <2>8, <2>9, <2>10
<1> QED
  BY <1>1, <1>9, <1>10, <1>11

(* A look at the tags.  An engine that does not run any more says so: an   *)
(* engine without life is seen to stand, which is not what RtCmToRoute     *)
(* asks of it.                                                             *)
LEMMA ObserveStep ==
  ASSUME TypeOK, UnitsRest, AlarmRefuses, NEW u \in Units, Observe(u)
  PROVE  UnitStep(u)
<1>1. /\ due' = [due EXCEPT ![u] = @ - 1]
      /\ eng' = [eng EXCEPT ![u] = IF hasEngine(u) THEN engineState(u) ELSE @]
      /\ UNCHANGED <<held, plant, out, unitQ>>
  BY DEF Observe
<1>2. /\ out \in [Units -> BOOLEAN] /\ sensed \in [Units -> {"no", "mid", "yes"}]
      /\ due \in [Units -> 0 .. MaxDue] /\ routeCommand \in [Units -> RouteCommands]
      /\ eng \in [Units -> EngineStates] /\ mode \in [Units -> UnitModes]
      /\ "RtCmNo" \in RouteCommands
  BY DEF TypeOK, PlantTypes, HeldTypes, RouteCommands
<1>3. \A w \in Units \ {u} : (lively(w)' <=> lively(w))
  BY <1>1, <1>2 DEF lively, plant
<1>4. ASSUME hasEngine(u), ~lively(u)'
      PROVE  settledModes(u) = {"UnMdStop"} /\ eng'[u] = "EngStoped"
  <2>1. ~out[u] /\ sensed[u] = "no"
    BY <1>1, <1>2, <1>4 DEF lively, plant, UnitsRest
  <2>2. engineState(u) = "EngStoped"
    BY <2>1 DEF engineState
  <2> QED
    BY <1>1, <1>2, <1>4, <2>2 DEF settledModes
<1>5. ASSUME hasEngine(u), "UnMdStart" \in settledModes(u) PROVE lively(u)'
  BY <1>1, <1>4, <1>5
<1>6. \A w \in Units : (driven(w)' <=> driven(w)) /\ (alarm'[w] <=> alarm[w])
                        /\ (unheard'[w] <=> unheard[w]) /\ sensed'[w] = sensed[w]
  BY <1>1 DEF driven, held, plant
<1>7. ASSUME \A w \in Units : routeCommand'[w] \in {routeCommand[w], "RtCmNo"}
      PROVE  AlarmRefuses'
  BY <1>6, <1>7 DEF AlarmRefuses
<1>8. ASSUME \A w \in Units \ {u} : /\ mode'[w] = mode[w]
                                   /\ routeCommand'[w] = routeCommand[w]
      PROVE  \A w \in Units \ {u} : SameUnit(w)
  BY <1>1, <1>2, <1>3, <1>6, <1>8 DEF SameUnit
<1>9. ASSUME \A w \in Units \ {u} : SameUnit(w),
             hasEngine(u) /\ ~lively(u)' => mode'[u] = "UnMdStop"
      PROVE  UnitsRest'
  BY <1>4, <1>6, <1>9 DEF UnitsRest, SameUnit
<1>10. ASSUME NEW m \in settledModes(u), setCurrentMode(u, m) PROVE UnitStep(u)
  <2> DEFINE reached == icvalModes(ModeOfCommand(u, m, routeCommand[u]), m)
  <2>1. /\ mode' = [mode EXCEPT ![u] = m]
        /\ routeCommand' = IF myRoute[u] # NoRoute /\ ~reached /\ ~alarm[u]
                           THEN [routeCommand EXCEPT ![u] = "RtCmNo"]
                           ELSE routeCommand
        /\ routeQ' = CASE reached  -> routeQ \o informToRoute(u, routeCommand[u])
                       [] ~reached /\ ~alarm[u] -> routeQ \o informToRoute(u, "RtCmNo")
                       [] OTHER    -> routeQ
    BY <1>10 DEF setCurrentMode
  <2>2. ASSUME driven(u), routeCommand[u] = "RtCmToRoute", reached
        PROVE  m = "UnMdStart"
    BY <2>2 DEF driven, ModeOfCommand, icvalModes
  <2> HIDE DEF reached
  <2>3. \A w \in Units : routeCommand'[w] \in {routeCommand[w], "RtCmNo"}
    BY <1>2, <2>1
  <2>4. \A w \in Units \ {u} : mode'[w] = mode[w] /\ routeCommand'[w] = routeCommand[w]
    BY <1>2, <2>1
  <2>5. \A w \in Units \ {u} : SameUnit(w)
    BY <1>8, <2>4
  <2>6. UnitsRest'
    <3>1. hasEngine(u) /\ ~lively(u)' => mode'[u] = "UnMdStop"
      BY <1>2, <1>4, <2>1
    <3> QED
      BY <1>9, <2>5, <3>1
  <2>7. AlarmRefuses'
    BY <1>7, <2>3
  <2>8. CASE reached
    <3>1. routeQ' = routeQ \o informToRoute(u, routeCommand[u])
      BY <2>1, <2>8
    <3>2. driven(u) /\ routeCommand[u] = "RtCmToRoute" => fit(u)'
      BY <1>5, <1>6, <2>2, <2>8 DEF driven, AlarmRefuses, fit
    <3>3. Tells(u, routeCommand[u])
      BY <3>1, <3>2 DEF Tells
    <3> QED
      BY <1>1, <1>2, <2>5, <2>6, <2>7, <3>3 DEF UnitStep
  <2>9. CASE ~reached /\ ~alarm[u]
    <3>1. Tells(u, "RtCmNo")
      BY <2>1, <2>9 DEF Tells
    <3> QED
      BY <1>1, <1>2, <2>5, <2>6, <2>7, <3>1 DEF UnitStep
  <2>10. CASE ~reached /\ alarm[u]
    <3>1. Silent(u)
      BY <1>6, <2>1, <2>10 DEF Silent, fit
    <3> QED
      BY <1>1, <2>5, <2>6, <2>7, <3>1 DEF UnitStep
  <2> QED
    BY <2>8, <2>9, <2>10
<1>11. ASSUME settledModes(u) = {}, UNCHANGED <<mode, routeCommand, routeQ>>
       PROVE  UnitStep(u)
  <2>1. \A w \in Units \ {u} : SameUnit(w)
    BY <1>8, <1>11
  <2>2. hasEngine(u) => lively(u)'
    BY <1>4, <1>11
  <2>3. UnitsRest' /\ AlarmRefuses'
    BY <1>7, <1>9, <1>11, <2>1, <2>2
  <2>4. Silent(u)
    BY <1>6, <1>11, <2>2 DEF Silent, driven, fit
  <2> QED
    BY <1>1, <2>1, <2>3, <2>4 DEF UnitStep
<1> QED
  BY <1>10, <1>11 DEF Observe

(* What happens to a unit from outside.  An alarm is told to the route.    *)
LEMMA PlantStep ==
  ASSUME TypeOK, UnitsRest, AlarmRefuses, UnitPlant
  PROVE  \E u \in Units : UnitStep(u)
<1> PICK u \in Units : \/ Contactor(u)   \/ LevelChange(u) \/ Rescan(u)
                       \/ Bounce(u)      \/ detectAlarm(u) \/ resetAlarm(u)
                       \/ UserSetMode(u, "UnMdStart") \/ UserSetMode(u, "UnMdStop")
  BY DEF UnitPlant
<1>1. /\ out \in [Units -> BOOLEAN] /\ sensed \in [Units -> {"no", "mid", "yes"}]
      /\ due \in [Units -> 0 .. MaxDue] /\ routeCommand \in [Units -> RouteCommands]
      /\ alarm \in [Units -> BOOLEAN] /\ unheard \in [Units -> BOOLEAN]
      /\ mayReset \in [Units -> BOOLEAN] /\ "RtCmNo" \in RouteCommands
  BY DEF TypeOK, PlantTypes, HeldTypes, RouteCommands
<1>2. UNCHANGED <<held, mode, eng>>
  BY DEF Contactor, LevelChange, Rescan, Bounce, detectAlarm, resetAlarm, UserSetMode
<1>3. /\ \A w \in Units \ {u} : (lively(w)' <=> lively(w)) /\ sensed'[w] = sensed[w]
      /\ hasEngine(u) => (lively(u) => lively(u)') /\ (sensed[u] # "mid" => sensed'[u] # "mid")
  <2>1. ASSUME NEW v \in BOOLEAN, Write(u, v), UNCHANGED sensed PROVE <1>3!:
    BY <2>1, WriteLively
  <2>2. ASSUME NEW m, Write(u, outAfter(u, m)), UNCHANGED sensed PROVE <1>3!:
    BY <2>1, <2>2, OutTypes DEF TypeOK
  <2>3. CASE Contactor(u)
    BY <1>1, <2>3 DEF Contactor, Report, lively, MaxDue
  <2>4. CASE LevelChange(u)
    BY <1>1, <2>4 DEF LevelChange, Report, lively, MaxDue
  <2>5. CASE Rescan(u)
    BY <1>1, <2>5 DEF Rescan, Report, lively, MaxDue
  <2>9. CASE Bounce(u)
    BY <1>1, <2>9 DEF Bounce, Report, lively, MaxDue
  <2>6. CASE detectAlarm(u)
    <3>1. UNCHANGED sensed /\ (Write(u, outAfter(u, "UnMdStop")) \/ UNCHANGED <<out, due>>)
      BY <2>6 DEF detectAlarm
    <3>2. UNCHANGED <<out, due, sensed>> => <1>3!:
      BY DEF lively
    <3> QED
      BY <2>2, <3>1, <3>2
  <2>7. CASE resetAlarm(u)
    BY <2>7 DEF resetAlarm, lively
  <2>8. CASE UserSetMode(u, "UnMdStart") \/ UserSetMode(u, "UnMdStop")
    BY <2>2, <2>8 DEF UserSetMode
  <2> QED
    BY <2>3, <2>4, <2>5, <2>6, <2>7, <2>8, <2>9
<1>4. \A w \in Units \ {u} : /\ (alarm'[w] <=> alarm[w]) /\ (unheard'[w] <=> unheard[w])
                            /\ routeCommand'[w] = routeCommand[w]
  BY <1>1 DEF Contactor, LevelChange, Rescan, Bounce, detectAlarm, resetAlarm, UserSetMode
<1>5. \A w \in Units \ {u} : SameUnit(w)
  BY <1>2, <1>3, <1>4 DEF SameUnit
<1>6. UnitsRest'
  BY <1>2, <1>3, <1>5 DEF UnitsRest, SameUnit
<1>7. CASE detectAlarm(u)
  <2>1. routeCommand' = [routeCommand EXCEPT ![u] = "RtCmNo"]
    BY <1>7 DEF detectAlarm
  <2>2. AlarmRefuses'
    BY <1>1, <1>2, <1>4, <2>1 DEF AlarmRefuses, driven, held
  <2>3. Tells(u, "RtCmNo")
    BY <1>7 DEF detectAlarm, Tells
  <2> QED
    BY <1>1, <1>2, <1>5, <1>6, <2>2, <2>3 DEF UnitStep
<1>8. CASE ~detectAlarm(u)
  <2>1. /\ UNCHANGED <<routeCommand, routeQ>>
        /\ alarm'[u] => alarm[u] \/ unheard'[u]
        /\ unheard[u] => unheard'[u]
    BY <1>1, <1>8 DEF Contactor, LevelChange, Rescan, Bounce, resetAlarm, UserSetMode
  <2>2. AlarmRefuses'
    BY <1>1, <1>2, <1>4, <2>1 DEF AlarmRefuses, driven, held
  <2>3. Silent(u)
    BY <1>3, <2>1 DEF Silent, driven, fit
  <2> QED
    BY <1>2, <1>5, <1>6, <2>2, <2>3 DEF UnitStep
<1> QED
  BY <1>7, <1>8

(* So for every step of the units thread and of the plant.                 *)
LEMMA UnitsStep ==
  ASSUME TypeOK, UnitsRest, AlarmRefuses, UnitThread \/ UnitPlant
  PROVE  \E u \in Units : UnitStep(u)
  BY CommandStep, ObserveStep, PlantStep DEF UnitThread

-----------------------------------------------------------------------------
(* The queue of answers.                                                   *)

(* What a unit tells next keeps what was sound so.                         *)
LEMMA SoundTold ==
  ASSUME TypeOK, NEW u \in Units, UnitStep(u),
         NEW r \in Routes, NEW w \in Units, driven(w), myRoute[w] = r,
         NEW n \in Nat, n <= Len(routeQ), Sound(r, w, n)
  PROVE  Sound(r, w, n)'
<1>1. routeQ \in Seq(Events) /\ r # NoRoute
  BY UnitConstants DEF TypeOK, QueueTypes
<1>2. ASSUME NEW s \in Seq(Events), routeQ' = routeQ \o s
      PROVE  /\ TakenBack(r, w, n) => TakenBack(r, w, n)'
             /\ \A c \in RouteCommands : s = informToRoute(w, c) /\ c # "RtCmToRoute" =>
                  TakenBack(r, w, n)'
  <2>1. /\ Len(routeQ') = Len(routeQ) + Len(s)
        /\ \A k \in DOMAIN routeQ : routeQ'[k] = routeQ[k] /\ k \in DOMAIN routeQ'
        /\ \A k \in DOMAIN s : routeQ'[Len(routeQ) + k] = s[k]
    BY <1>1, <1>2
  <2>2. TakenBack(r, w, n) => TakenBack(r, w, n)'
    BY <2>1, Zenon DEF TakenBack, From
  <2>3. ASSUME NEW c \in RouteCommands, s = informToRoute(w, c), c # "RtCmToRoute"
        PROVE  TakenBack(r, w, n)'
    <3>1. s = <<[ev |-> "Inform", rt |-> r, un |-> w, arg |-> c]>>
      BY <1>1, <2>3 DEF informToRoute
    <3>2. 1 \in DOMAIN s /\ s[1] = [ev |-> "Inform", rt |-> r, un |-> w, arg |-> c] /\ Len(s) = 1
      BY <3>1
    <3> DEFINE k == Len(routeQ) + 1
    <3>3. k \in DOMAIN routeQ' /\ k > n /\ routeQ'[k] = s[1]
      BY <1>1, <1>2, <2>1, <3>2
    <3> HIDE DEF k
    <3> QED
      BY <2>3, <3>2, <3>3 DEF TakenBack, From
  <2> QED
    BY <2>2, <2>3
<1>3. \A c \in RouteCommands : informToRoute(u, c) \in Seq(Events)
  BY InformTypes DEF TypeOK
<1>4. CASE w # u
  <2>1. fit(w)' <=> fit(w)
    BY <1>4 DEF UnitStep, SameUnit, fit
  <2>2. TakenBack(r, w, n) => TakenBack(r, w, n)'
    BY <1>2, <1>3 DEF UnitStep, Silent, Tells, TakenBack
  <2> QED
    BY <2>1, <2>2 DEF Sound
<1>5. CASE w = u
  <2>1. CASE Silent(u)
    BY <1>5, <2>1 DEF Silent, Sound, TakenBack
  <2>2. ASSUME NEW c \in RouteCommands, Tells(u, c) PROVE Sound(r, w, n)'
    <3>1. CASE c = "RtCmToRoute"
      BY <1>5, <2>2, <3>1 DEF Tells, Sound
    <3>2. CASE c # "RtCmToRoute"
      BY <1>2, <1>3, <1>5, <2>2, <3>2 DEF Tells, Sound
    <3> QED
      BY <3>1, <3>2
  <2> QED
    BY <2>1, <2>2 DEF UnitStep
<1> QED
  BY <1>4, <1>5

(* What is new in the queue: answers of units that are held, and           *)
(* confirmations of engines that live.                                     *)
LEMMA NewAnswers ==
  ASSUME TypeOK, NEW u \in Units, UnitStep(u)
  PROVE  /\ Len(routeQ) <= Len(routeQ')
         /\ \A k \in DOMAIN routeQ : k \in DOMAIN routeQ' /\ routeQ'[k] = routeQ[k]
         /\ \A k \in DOMAIN routeQ' : k \notin DOMAIN routeQ =>
              /\ routeQ'[k].ev = "Inform"
              /\ routeQ'[k].un = u /\ routeQ'[k].rt = myRoute[u] /\ myRoute[u] # NoRoute
              /\ driven(u) /\ routeQ'[k].arg = "RtCmToRoute" => fit(u)'
<1>1. routeQ \in Seq(Events)
  BY DEF TypeOK, QueueTypes
<1>2. CASE routeQ' = routeQ
  BY <1>1, <1>2
<1>3. ASSUME NEW c \in RouteCommands, Tells(u, c), myRoute[u] # NoRoute
      PROVE  /\ routeQ' = Append(routeQ, [ev |-> "Inform", rt |-> myRoute[u], un |-> u, arg |-> c])
             /\ driven(u) /\ c = "RtCmToRoute" => fit(u)'
  BY <1>1, <1>3 DEF Tells, informToRoute
<1>4. ASSUME NEW c \in RouteCommands, Tells(u, c), myRoute[u] = NoRoute
      PROVE  routeQ' = routeQ
  BY <1>1, <1>4 DEF Tells, informToRoute
<1>5. CASE routeQ' # routeQ
  <2> PICK c \in RouteCommands : Tells(u, c)
    BY <1>5 DEF UnitStep, Silent
  <2> DEFINE e == [ev |-> "Inform", rt |-> myRoute[u], un |-> u, arg |-> c]
  <2>1. /\ myRoute[u] # NoRoute /\ routeQ' = Append(routeQ, e)
        /\ driven(u) /\ c = "RtCmToRoute" => fit(u)'
    BY <1>3, <1>4, <1>5
  <2>2. e.ev = "Inform" /\ e.un = u /\ e.rt = myRoute[u] /\ e.arg = c
    OBVIOUS
  <2> HIDE DEF e
  <2>3. routeQ \in Seq(Events \cup {e})
    BY <1>1
  <2>4. /\ Len(routeQ') = Len(routeQ) + 1
        /\ \A k \in 1 .. Len(routeQ) : routeQ'[k] = routeQ[k]
        /\ routeQ'[Len(routeQ) + 1] = e
        /\ DOMAIN routeQ = 1 .. Len(routeQ) /\ DOMAIN routeQ' = 1 .. Len(routeQ) + 1
        /\ Len(routeQ) \in Nat
    BY <2>1, <2>3
  <2> QED
    BY <2>1, <2>2, <2>4
<1> QED
  BY <1>2, <1>5

(* The units thread and the plant keep what is known.                      *)
LEMMA UnitsWatch ==
  ASSUME FixedInv, WInv, NEW u \in Units, UnitStep(u), UNCHANGED routeVars
  PROVE  WInv'
<1>0. /\ TypeOK /\ Safe /\ Owned /\ routeQ \in Seq(Events) /\ pos \in Nat
      /\ genCom \in [Routes -> Nat] /\ NoRoute \notin Routes
      /\ myRoute \in [Units -> Routes \cup {NoRoute}]
      /\ \A r \in Routes : unitList[r] \in Seq(ListItems)
  BY UnitConstants DEF FixedInv, IInv, TypeOK, QueueTypes, CommandTypes, HeldTypes, ListTypes
<1>1. /\ Len(routeQ) <= Len(routeQ')
      /\ \A k \in DOMAIN routeQ : k \in DOMAIN routeQ' /\ routeQ'[k] = routeQ[k]
      /\ \A k \in DOMAIN routeQ' : k \notin DOMAIN routeQ =>
           /\ routeQ'[k].ev = "Inform"
           /\ routeQ'[k].un = u /\ routeQ'[k].rt = myRoute[u] /\ myRoute[u] # NoRoute
           /\ driven(u) /\ routeQ'[k].arg = "RtCmToRoute" => fit(u)'
  BY <1>0, NewAnswers
<1>2. routeQ # <<>> => routeQ' # <<>> /\ Head(routeQ') = Head(routeQ)
  BY <1>0, <1>1
<1>3. /\ UNCHANGED <<unitList, workCmds, queueCmds, genCom, pos, myRoute, routeMode>>
      /\ UnitsRest' /\ AlarmRefuses'
  BY DEF routeVars, UnitStep, held
<1>4. \A w : driven(w)' <=> driven(w)
  BY <1>3 DEF driven
<1>5. OpFirst'
  BY <1>1 DEF WInv, OpFirst
<1>6. ScanInHand'
  BY <1>2, <1>3 DEF WInv, ScanInHand, informed, known, un, rt, unitsOf
<1>7. FreshStart'
  <2> SUFFICES ASSUME NEW r \in Routes, routeQ' # <<>>, Head(routeQ').ev = "Op",
                      Head(routeQ').rt = r, ~working(r),
                      NEW k \in DOMAIN routeQ', routeQ'[k].ev = "Inform", routeQ'[k].rt = r
               PROVE  FALSE
    BY <1>3 DEF FreshStart, working
  <2>1. CASE k \in DOMAIN routeQ
    <3>1. routeQ # <<>>
      BY <2>1
    <3> QED
      BY <1>1, <1>2, <2>1, <3>1 DEF WInv, FreshStart
  <2>2. CASE k \notin DOMAIN routeQ
    BY <1>0, <1>1, <2>2 DEF Safe, AtWork
  <2> QED
    BY <2>1, <2>2
<1>8. ForwardCmds'
  BY <1>3 DEF WInv, ForwardCmds, working, main
<1>9. ASSUME NEW r \in Routes, working(r), NEW i \in DOMAIN unitList[r]
      PROVE  unitList[r][i].un \in Units /\ myRoute[unitList[r][i].un] = r
  <2>1. unitList[r][i] \in ListItems
    BY <1>0, <1>9
  <2> QED
    BY <1>0, <1>9, <2>1 DEF ListItems, Owned, unitsOf
<1>10. Followed'
  <2> SUFFICES ASSUME NEW r \in Routes, NEW w \in Units, myRoute[w] = r, driven(w),
                      NEW k \in DOMAIN routeQ', From(routeQ'[k], r, w),
                      routeQ'[k].arg = "RtCmToRoute"
               PROVE  Sound(r, w, k)'
    BY <1>3, <1>4 DEF Followed
  <2>1. CASE k \in DOMAIN routeQ
    <3>1. Sound(r, w, k) /\ k \in Nat /\ k <= Len(routeQ)
      BY <1>0, <1>1, <2>1 DEF WInv, Followed
    <3> QED
      BY <1>0, <3>1, SoundTold
  <2>2. CASE k \notin DOMAIN routeQ
    BY <1>1, <2>2 DEF From, Sound
  <2> QED
    BY <2>1, <2>2
<1>11. ASSUME NEW r \in Routes, working(r) PROVE read(r)' = read(r)
  <2>1. genCom[r] # 0
    BY <1>11 DEF FixedInv, IInv, Safe, GenComLive
  <2>2. genCom[r] <= pos => routeQ # <<>>
    BY <1>0, <2>1 DEF WInv, ScanInHand, informed
  <2> QED
    BY <1>2, <1>3, <2>2 DEF read
<1>12. Watched'
  <2> SUFFICES ASSUME NEW r \in Routes, working(r), main(r).name = "RtCmToRoute",
                      NEW i \in DOMAIN unitList[r], Passed(r, i), driven(unitList[r][i].un)
               PROVE  Sound(r, unitList[r][i].un, read(r))'
    BY <1>3, <1>4 DEF Watched, working, main, Passed
  <2>1. PICK w \in Units : w = unitList[r][i].un
    BY <1>9
  <2>2. PICK n \in Nat : n = read(r) /\ n <= Len(routeQ)
    <3>1. read(r) = 0 \/ (read(r) = 1 /\ genCom[r] <= pos)
      BY DEF read
    <3>2. genCom[r] # 0
      BY DEF FixedInv, IInv, Safe, GenComLive
    <3>3. genCom[r] <= pos => routeQ # <<>>
      BY <1>0, <3>2 DEF WInv, ScanInHand, informed
    <3>4. read(r) \in Nat /\ read(r) <= Len(routeQ)
      BY <1>0, <3>1, <3>3
    <3> QED
      BY <3>4
  <2>3. Sound(r, w, n)
    BY <2>1, <2>2 DEF WInv, Watched
  <2>4. Sound(r, w, n)'
    BY <1>0, <1>9, <2>1, <2>2, <2>3, SoundTold
  <2>5. unitList'[r][i].un = w /\ read(r)' = n
    BY <1>3, <1>11, <2>1, <2>2
  <2> QED
    BY <2>4, <2>5 DEF Sound, TakenBack, From, fit, lively
<1> QED
  BY <1>3, <1>5, <1>6, <1>7, <1>8, <1>10, <1>12 DEF WInv

-----------------------------------------------------------------------------
(* Setting a command for a route.                                          *)

mainAfter(r) == workCmds'[r][genCom'[r]]

(* A route at work has all of its units, so it takes none for the next     *)
(* command.                                                                *)
LEMMA SetAtWork ==
  ASSUME TypeOK, Owned, NEW r \in Routes, working(r), NEW w, NEW g0, NEW c,
         NEW gnrl \in BOOLEAN,
         SetCommand(r, w, g0, c, gnrl)
  PROVE  /\ UNCHANGED linked
         /\ workCmds' = [workCmds EXCEPT ![r] = Append(w, Resolved(r, c))]
         /\ w # <<>> /\ g0 # 0 /\ ~gnrl => genCom' = [genCom EXCEPT ![r] = g0]
         /\ gnrl => genCom' = [genCom EXCEPT ![r] = Len(w) + 1]
<1>1. allConnected[r]
  BY DEF Owned
<1> QED
  BY <1>1 DEF SetCommand, linked, held

(* The command that starts a new list is the main command; nothing of the  *)
(* line is passed yet.                                                     *)
LEMMA FreshMain ==
  ASSUME FixedInv, NoEmptyList, NEW r \in Routes, NEW c \in Askable(units(r)), NEW gnrl,
         c.name = "RtCmToRoute" => c.type = "DownStepByStep",
         SetCommand(r, <<>>, 0, c, gnrl), workCmds'[r] # <<>>
  PROVE  /\ Forward(mainAfter(r))
         /\ mainAfter(r).name = c.name
         /\ c.name = "RtCmToRoute" => mainAfter(r).last .. mainAfter(r).endUn = {}
<1> DEFINE d == Resolved(r, c)
<1>1. TypeOK /\ unitList = InitList
  BY DEF FixedInv, IInv, NoEdits
<1>2. workCmds \in [Routes -> Seq(RouteCmds)] /\ genCom \in [Routes -> Nat]
  BY <1>1 DEF TypeOK, CommandTypes
<1>3. d \in Spanning(units(r)) /\ d.type = c.type
  BY <1>1, ResolvedSpan
<1>4. /\ d.name = c.name
      /\ c.type = "DownStepByStep" => d.last = d.endUn + 1
  <2>1. c \in RouteCmds
    BY DEF Askable
  <2> QED
    BY <2>1 DEF Resolved, RouteCmds
<1>5. Forward(d)
  BY <1>3, <1>4 DEF Forward, Spanning, RouteCmds
<1> HIDE DEF d
<1>6. /\ workCmds' = [workCmds EXCEPT ![r] = Append(<<>>, d)]
      /\ genCom' = [genCom EXCEPT ![r] = 1]
  <2>1. allConnected[r] \/ canConnect(r)
    BY <1>2 DEF SetCommand
  <2> QED
    BY <2>1 DEF SetCommand, d
<1>7. mainAfter(r) = d
  BY <1>2, <1>6 DEF mainAfter
<1>8. c.name = "RtCmToRoute" => d.last .. d.endUn = {}
  BY <1>3, <1>4 DEF Spanning, RouteCmds
<1> QED
  BY <1>4, <1>5, <1>7, <1>8

(* A route that is not set keeps its commands.                             *)
LEMMA SetOthers ==
  ASSUME TypeOK, NEW r \in Routes, NEW w, NEW g0, NEW c, NEW gnrl,
         SetCommand(r, w, g0, c, gnrl), NEW q \in Routes, q # r
  PROVE  workCmds'[q] = workCmds[q] /\ genCom'[q] = genCom[q]
  BY DEF SetCommand, TypeOK, CommandTypes

-----------------------------------------------------------------------------
(* The scan of a command.                                                  *)

(* The unit in hand is the one with its number, and with no other.         *)
LEMMA UnitInHand ==
  ASSUME FixedInv, DistinctLists, informed, known
  PROVE  /\ rt \in Routes /\ un \in Units /\ unN \in Int
         /\ working(rt) => myRoute[un] = rt
         /\ \A i \in DOMAIN unitList[rt] : unitList[rt][i].un = un <=> i - 1 = unN
<1>1. TypeOK /\ unitList = InitList /\ Owned
  BY DEF FixedInv, IInv, NoEdits
<1>2. rt \in Routes /\ un \in Units
  BY <1>1, InHand
<1>3. DOMAIN unitList[rt] \subseteq Int
  BY <1>1, <1>2 DEF TypeOK, ListTypes
<1>4. indexOf(rt, un) \in DOMAIN unitList[rt] /\ unitList[rt][indexOf(rt, un)].un = un
  BY DEF indexOf, known, unitsOf
<1>5. \A i \in DOMAIN unitList[rt] : unitList[rt][i].un = un => i = indexOf(rt, un)
  BY <1>1, <1>2, <1>4 DEF DistinctLists
<1> QED
  BY <1>1, <1>2, <1>3, <1>4, <1>5 DEF unN, known, Owned

(* How the scan moves a command.  A unit that RtCmToRoute has passed after *)
(* it had been passed before, or confirms now; and if it is the one that   *)
(* answers, it confirms.                                                   *)
Moved(c) ==
  /\ c \in RouteCmds
  /\ c.name = cmd.name
  /\ cmd.name = "RtCmToRoute" /\ Forward(cmd) =>
       /\ Forward(c)
       /\ \A j \in c.last .. c.endUn :
            /\ j = unN \/ j \in cmd.last .. cmd.endUn
            /\ j = unN => resp = "RtCmToRoute"

MainMoved(c) ==
  /\ UNCHANGED genCom
  /\ mainAfter(rt) = IF genCom[rt] = pos + 1 THEN c ELSE main(rt)

(* A scan that changes the command only, and one that adds a command that  *)
(* is not the main one.                                                    *)
LEMMA BecomesMain ==
  ASSUME FixedInv, Scanning, NEW c \in RouteCmds, Becomes(c)
  PROVE  MainMoved(c) /\ UNCHANGED queueCmds /\ workCmds'[rt] # <<>>
<1>1. TypeOK /\ Safe
  BY DEF FixedInv, IInv
<1>2. /\ rt \in Routes /\ Replaced(c) # <<>>
      /\ Len(Replaced(c)) = Len(workCmds[rt])
      /\ genCom[rt] \in 1 .. Len(workCmds[rt])
  BY <1>1, ScannedWorks
<1>3. workCmds \in [Routes -> Seq(RouteCmds)] /\ workCmds[rt] \in Seq(RouteCmds)
  BY <1>1, <1>2 DEF TypeOK, CommandTypes
<1>4. workCmds' = [workCmds EXCEPT ![rt] = Replaced(c)] /\ UNCHANGED <<genCom, queueCmds>>
  BY DEF Becomes
<1>5. workCmds'[rt] = Replaced(c)
  BY <1>2, <1>3, <1>4
<1>6. Replaced(c)[genCom[rt]] = IF genCom[rt] = pos + 1 THEN c ELSE workCmds[rt][genCom[rt]]
  BY <1>2, <1>3 DEF Replaced
<1> QED
  BY <1>2, <1>4, <1>5, <1>6 DEF MainMoved, mainAfter, main

LEMMA SpawnMain ==
  ASSUME FixedInv, Scanning, NEW c \in RouteCmds, NEW d \in RouteCmds,
         NEW gnrl \in BOOLEAN, SetCommand(rt, Replaced(c), genCom[rt], d, gnrl), ~gnrl
  PROVE  MainMoved(c) /\ UNCHANGED linked /\ workCmds'[rt] # <<>>
<1>1. TypeOK /\ Safe /\ Owned
  BY DEF FixedInv, IInv
<1>2. /\ rt \in Routes /\ Replaced(c) # <<>> /\ Replaced(c) \in Seq(RouteCmds)
      /\ Len(Replaced(c)) = Len(workCmds[rt])
      /\ genCom[rt] \in 1 .. Len(workCmds[rt]) /\ working(rt)
  <2>1. /\ rt \in Routes /\ Replaced(c) \in Seq(RouteCmds) /\ Replaced(c) # <<>>
        /\ Len(Replaced(c)) = Len(workCmds[rt])
        /\ genCom[rt] \in 0 .. Len(Replaced(c)) /\ genCom[rt] # 0 /\ working(rt)
    BY <1>1, ScannedWorks
  <2> QED
    BY <2>1
<1>3. /\ workCmds \in [Routes -> Seq(RouteCmds)] /\ workCmds[rt] \in Seq(RouteCmds)
      /\ genCom \in [Routes -> Nat]
  BY <1>1, <1>2 DEF TypeOK, CommandTypes
<1> DEFINE e == Resolved(rt, d)
<1>4. e \in RouteCmds
  BY <1>1, <1>2, ResolvedType DEF TypeOK
<1>5. /\ UNCHANGED linked
      /\ workCmds' = [workCmds EXCEPT ![rt] = Append(Replaced(c), e)]
      /\ genCom' = [genCom EXCEPT ![rt] = genCom[rt]]
  <2> DEFINE w == Replaced(c)
             g0 == genCom[rt]
  <2>1. w # <<>> /\ g0 # 0 /\ SetCommand(rt, w, g0, d, gnrl) /\ rt \in Routes /\ working(rt)
    BY <1>2
  <2> HIDE DEF w, g0
  <2>2. /\ UNCHANGED linked
        /\ workCmds' = [workCmds EXCEPT ![rt] = Append(w, Resolved(rt, d))]
        /\ genCom' = [genCom EXCEPT ![rt] = g0]
    BY <1>1, <2>1, SetAtWork
  <2> QED
    BY <2>2 DEF w, g0
<1> HIDE DEF e
<1>6. workCmds'[rt] = Append(Replaced(c), e) /\ genCom' = genCom
  BY <1>2, <1>3, <1>5
<1>7. /\ Append(Replaced(c), e) # <<>>
      /\ Append(Replaced(c), e)[genCom[rt]] = Replaced(c)[genCom[rt]]
  BY <1>2, <1>4
<1>8. Replaced(c)[genCom[rt]] = IF genCom[rt] = pos + 1 THEN c ELSE workCmds[rt][genCom[rt]]
  BY <1>2, <1>3 DEF Replaced
<1> QED
  BY <1>5, <1>6, <1>7, <1>8 DEF MainMoved, mainAfter, main

(* A command that is short and over keeps its name, span and progress.     *)
LEMMA ShortSame ==
  ASSUME NEW c \in RouteCmds
  PROVE  /\ Short(c) \in RouteCmds
         /\ Short(c).name = c.name /\ Short(c).type = c.type
         /\ Short(c).beginUn = c.beginUn /\ Short(c).endUn = c.endUn
         /\ Short(c).last = c.last
  BY DEF Short, RouteCmds

(* A finished command, with its progress moved.                            *)
LEMMA FinishedMoved ==
  ASSUME NEW c \in RouteCmds, NEW waf \in BOOLEAN, NEW good \in BOOLEAN, NEW l \in Int
  PROVE  LET d == [Finished(c, waf, good) EXCEPT !.last = l]
         IN  /\ d \in RouteCmds /\ d.name = c.name /\ d.type = c.type
             /\ d.beginUn = c.beginUn /\ d.endUn = c.endUn /\ d.last = l
  BY DEF Finished, RouteCmds

(* Commands that are no start, or keep to their own type, move.            *)
LEMMA MovedOther ==
  ASSUME NEW c \in RouteCmds, c.name = cmd.name,
         cmd.name # "RtCmToRoute" \/ cmd.type # "DownStepByStep"
  PROVE  Moved(c)
  BY DEF Moved, Forward

(* A start that goes down the line moves so.                               *)
LEMMA MovedDown ==
  ASSUME NEW c \in RouteCmds, c.name = cmd.name, c.type = cmd.type, c.endUn = cmd.endUn,
         cmd \in RouteCmds, unN \in Int,
         cmd.type = "DownStepByStep" /\ cmd.beginUn <= cmd.last =>
           /\ c.beginUn <= c.last
           /\ \/ c.last = cmd.last /\ (resp = "RtCmToRoute" \/ unN < cmd.last)
              \/ c.last = unN + 1 /\ cmd.last <= unN
              \/ c.last = unN /\ unN + 1 = cmd.last /\ resp = "RtCmToRoute"
  PROVE  Moved(c)
<1>1. /\ cmd.last \in Int /\ cmd.endUn \in Int /\ c.last \in Int /\ c.endUn \in Int
      /\ cmd.beginUn \in Int
  BY DEF RouteCmds
<1> SUFFICES ASSUME cmd.name = "RtCmToRoute", Forward(cmd)
             PROVE  /\ Forward(c)
                    /\ \A j \in c.last .. c.endUn :
                         /\ j = unN \/ j \in cmd.last .. cmd.endUn
                         /\ j = unN => resp = "RtCmToRoute"
  BY DEF Moved
<1> QED
  BY <1>1 DEF Forward

(* The scans that start no command.                                        *)
LEMMA ScanMain ==
  ASSUME FixedInv,
         \/ ScanOther    \/ ScanParallel  \/ ScanKept  \/ ScanFar
         \/ NextDone     \/ NextFailed    \/ LeftSave  \/ LeftCleanStop
  PROVE  /\ Scanning /\ UNCHANGED <<linked, queueCmds>> /\ workCmds'[rt] # <<>>
         /\ \A q \in Routes \ {rt} : workCmds'[q] = workCmds[q] /\ genCom'[q] = genCom[q]
         /\ \E c : Moved(c) /\ MainMoved(c)
<1>0. TypeOK /\ Safe
  BY DEF FixedInv, IInv
<1>1. Scanning
  BY DEF ScanOther, ScanParallel, ScanKept, ScanFar, NextDone, NextFailed, LeftSave,
         LeftCleanStop, Left, Covered, Ahead, Scan
<1>2. /\ rt \in Routes /\ cmd \in RouteCmds /\ unN \in Int
      /\ cmd.beginUn \in Int /\ cmd.endUn \in Int /\ cmd.last \in Int
      /\ cmd.good \in BOOLEAN
      /\ workCmds \in [Routes -> Seq(RouteCmds)]
  <2>1. rt \in Routes /\ cmd \in RouteCmds /\ unN \in Int
    BY <1>0, <1>1, UnderScan
  <2> QED
    BY <1>0, <2>1 DEF RouteCmds, TypeOK, CommandTypes
<1>3. ASSUME NEW c, Becomes(c), Moved(c)
      PROVE  /\ UNCHANGED <<linked, queueCmds>> /\ workCmds'[rt] # <<>>
             /\ \A q \in Routes \ {rt} : workCmds'[q] = workCmds[q] /\ genCom'[q] = genCom[q]
             /\ \E d : Moved(d) /\ MainMoved(d)
  <2>1. c \in RouteCmds
    BY <1>3 DEF Moved
  <2>2. MainMoved(c) /\ workCmds'[rt] # <<>>
    BY <1>1, <1>3, <2>1, BecomesMain
  <2>3. workCmds' = [workCmds EXCEPT ![rt] = Replaced(c)] /\ UNCHANGED <<linked, genCom, queueCmds>>
    BY <1>3 DEF Becomes
  <2> QED
    BY <1>2, <1>3, <2>2, <2>3
<1>4. CASE ScanOther
  <2>1. UNCHANGED <<linked, workCmds, genCom, queueCmds>> /\ ~Addressed
    BY <1>4 DEF ScanOther
  <2>2. working(rt)
    BY <1>0, <1>1, <1>2, ScannedWorks
  <2>3. MainMoved(cmd)
    BY <2>1 DEF MainMoved, mainAfter, main, cmd
  <2>4. Moved(cmd)
    BY <1>2, <2>1 DEF Moved, Addressed, Forward
  <2> QED
    BY <1>1, <2>1, <2>2, <2>3, <2>4 DEF working
<1>5. CASE ScanParallel
  <2> DEFINE seen == IF cmd.respCount <= count(cmd) THEN cmd.respCount + 1
                     ELSE cmd.respCount
             c == [cmd EXCEPT !.respCount = seen, !.last = unN,
                              !.good = @ /\ resp = cmd.name,
                              !.finCmd = @ \/ seen = count(cmd)]
  <2>1. Becomes(c) /\ cmd.type = "Parallel"
    BY <1>5 DEF ScanParallel
  <2>2. seen \in Nat
    BY <1>2 DEF RouteCmds, count
  <2> HIDE DEF seen
  <2>3. c \in RouteCmds /\ c.name = cmd.name
    BY <1>2, <2>2 DEF RouteCmds
  <2> HIDE DEF c
  <2>4. Moved(c)
    BY <2>1, <2>3, MovedOther
  <2> QED
    BY <1>1, <1>3, <2>1, <2>4
<1>6. CASE ScanKept
  <2>1. /\ Becomes(cmd) /\ resp = cmd.name
    BY <1>6 DEF ScanKept
  <2>2. CASE cmd.name = "RtCmToRoute"
    BY <1>1, <1>2, <1>3, <2>1, <2>2, MovedDown
  <2>3. CASE cmd.name # "RtCmToRoute"
    BY <1>1, <1>2, <1>3, <2>1, <2>3, MovedOther
  <2> QED
    BY <2>2, <2>3
<1>7. CASE ScanFar
  <2>1. Becomes(cmd) /\ ~covered(cmd, unN)
    BY <1>7 DEF ScanFar, Ahead
  <2>2. cmd.type = "DownStepByStep" => unN < cmd.last
    BY <1>2, <2>1 DEF covered
  <2>3. Moved(cmd)
    BY <1>2, <2>2, MovedDown
  <2> QED
    BY <1>1, <1>3, <2>1, <2>3
<1>8. CASE NextDone
  <2> DEFINE c == [cmd EXCEPT !.good = TRUE, !.last = unN]
             f == [c EXCEPT !.finCmd = TRUE]
  <2>1. /\ Scan /\ unN = next(cmd) /\ resp = cmd.name
        /\ Becomes(f) \/ Becomes(c)
    BY <1>8 DEF NextDone, Ahead
  <2>2. /\ c \in RouteCmds /\ f \in RouteCmds
        /\ c.name = cmd.name /\ f.name = cmd.name /\ c.type = cmd.type /\ f.type = cmd.type
        /\ c.beginUn = cmd.beginUn /\ f.beginUn = cmd.beginUn
        /\ c.endUn = cmd.endUn /\ f.endUn = cmd.endUn
        /\ c.last = unN /\ f.last = unN
    BY <1>2 DEF RouteCmds
  <2>3. cmd.beginUn <= unN
    BY <2>1 DEF Scan, Addressed
  <2>4. cmd.type = "DownStepByStep" => unN + 1 = cmd.last
    BY <1>2, <2>1 DEF next
  <2> HIDE DEF c, f
  <2>5. CASE cmd.name = "RtCmToRoute"
    <3>1. Moved(c) /\ Moved(f)
      BY <1>2, <2>1, <2>2, <2>3, <2>4, <2>5, MovedDown
    <3> QED
      BY <1>1, <1>3, <2>1, <3>1
  <2>6. CASE cmd.name # "RtCmToRoute"
    <3>1. Moved(c) /\ Moved(f)
      BY <2>2, <2>6, MovedOther
    <3> QED
      BY <1>1, <1>3, <2>1, <3>1
  <2> QED
    BY <2>5, <2>6
<1>9. CASE NextFailed
  <2> DEFINE good == cmd.good /\ cmd.name = "RtCmToRoutForClean"
             c == [cmd EXCEPT !.finCmd = TRUE, !.good = good]
             d == IF c.type = "UpStepByStep" THEN [c EXCEPT !.endUn = c.last]
                  ELSE [c EXCEPT !.beginUn = c.last]
  <2>1. Becomes(d) /\ unN = next(cmd)
    BY <1>9 DEF NextFailed
  <2>2. good \in BOOLEAN
    OBVIOUS
  <2> HIDE DEF good
  <2>3. c \in RouteCmds /\ c.name = cmd.name /\ c.type = cmd.type /\ c.last = cmd.last
        /\ c.endUn = cmd.endUn /\ c.beginUn = cmd.beginUn
    BY <1>2, <2>2 DEF RouteCmds
  <2> HIDE DEF c
  <2>4. /\ d \in RouteCmds /\ d.name = cmd.name
        /\ d.type = cmd.type /\ d.last = cmd.last
        /\ cmd.type = "DownStepByStep" => d.endUn = cmd.endUn /\ d.beginUn = cmd.last
    BY <1>2, <2>3 DEF RouteCmds
  <2>5. cmd.type = "DownStepByStep" => unN < cmd.last
    BY <1>2, <2>1 DEF next
  <2> HIDE DEF d
  <2>6. Moved(d)
    <3>1. CASE cmd.type = "DownStepByStep"
      BY <1>2, <2>4, <2>5, <3>1, MovedDown
    <3>2. CASE cmd.type # "DownStepByStep"
      BY <2>4, <3>2, MovedOther
    <3> QED
      BY <3>1, <3>2
  <2> QED
    BY <1>1, <1>3, <2>1, <2>6
<1>10. CASE LeftSave
  <2>1. Becomes(Short(cmd)) /\ cmd.name = "RtCmToSave"
    BY <1>10 DEF LeftSave
  <2>2. Moved(Short(cmd))
    BY <1>2, <2>1, ShortSame, MovedOther
  <2> QED
    BY <1>1, <1>3, <2>1, <2>2
<1>11. CASE LeftCleanStop
  <2> DEFINE f == Finished(cmd, TRUE, cmd.good)
  <2>1. Becomes(Short(f)) /\ cmd.name = "RtCmCleanStop"
    BY <1>11 DEF LeftCleanStop
  <2>2. f \in RouteCmds /\ f.name = cmd.name
    BY <1>2 DEF Finished, RouteCmds
  <2> HIDE DEF f
  <2>3. Moved(Short(f))
    BY <2>1, <2>2, ShortSame, MovedOther
  <2> QED
    BY <1>1, <1>3, <2>1, <2>3
<1> QED
  BY <1>4, <1>5, <1>6, <1>7, <1>8, <1>9, <1>10, <1>11

(* The scans that may start a command.  Only a bunker gets a new main      *)
(* command, and that one is no start.                                      *)
LEMMA LeftMain ==
  ASSUME FixedInv, \/ LeftForClean \/ LeftFailed \/ LeftSilos \/ LeftBunker
  PROVE  /\ Scanning /\ UNCHANGED linked /\ workCmds'[rt] # <<>>
         /\ \A q \in Routes \ {rt} : /\ workCmds'[q] = workCmds[q]
                                   /\ genCom'[q] = genCom[q]
                                   /\ queueCmds'[q] = queueCmds[q]
         /\ \/ UNCHANGED queueCmds /\ \E c : Moved(c) /\ MainMoved(c)
            \/ /\ mainAfter(rt).name = "RtCmToRoutForClean"
               /\ \A i \in DOMAIN queueCmds'[rt] :
                    queueCmds'[rt][i].name = "RtCmToRoute" =>
                      queueCmds'[rt][i].type = "DownStepByStep"
<1>0. TypeOK /\ Safe /\ Owned
  BY DEF FixedInv, IInv
<1>1. Scanning /\ cmd.type # "Parallel" /\ covered(cmd, unN)
  BY DEF LeftForClean, LeftFailed, LeftSilos, LeftBunker, ToRouteLeft, Left, Covered, Scan
<1>2. /\ rt \in Routes /\ cmd \in RouteCmds /\ unN \in Int
      /\ cmd.beginUn \in Int /\ cmd.endUn \in Int /\ cmd.last \in Int
      /\ cmd.good \in BOOLEAN
      /\ workCmds \in [Routes -> Seq(RouteCmds)]
      /\ queueCmds \in [Routes -> Seq(RouteCmds)]
  <2>1. rt \in Routes /\ cmd \in RouteCmds /\ unN \in Int
    BY <1>0, <1>1, UnderScan
  <2> QED
    BY <1>0, <2>1 DEF RouteCmds, TypeOK, CommandTypes
<1>3. ASSUME NEW c, Becomes(c), Moved(c)
      PROVE  /\ UNCHANGED <<linked, queueCmds>> /\ workCmds'[rt] # <<>>
             /\ \A q \in Routes \ {rt} : workCmds'[q] = workCmds[q] /\ genCom'[q] = genCom[q]
             /\ \E d : Moved(d) /\ MainMoved(d)
  <2>1. c \in RouteCmds
    BY <1>3 DEF Moved
  <2>2. MainMoved(c) /\ workCmds'[rt] # <<>>
    BY <1>1, <1>3, <2>1, BecomesMain
  <2>3. workCmds' = [workCmds EXCEPT ![rt] = Replaced(c)] /\ UNCHANGED <<linked, genCom, queueCmds>>
    BY <1>3 DEF Becomes
  <2> QED
    BY <1>2, <1>3, <2>2, <2>3
<1>4. ASSUME NEW c, Moved(c), NEW d \in RouteCmds, NEW gnrl \in BOOLEAN, ~gnrl,
             SetCommand(rt, Replaced(c), genCom[rt], d, gnrl), UNCHANGED queueCmds
      PROVE  /\ UNCHANGED <<linked, queueCmds>> /\ workCmds'[rt] # <<>>
             /\ \A q \in Routes \ {rt} : workCmds'[q] = workCmds[q] /\ genCom'[q] = genCom[q]
             /\ \E e : Moved(e) /\ MainMoved(e)
  <2>1. c \in RouteCmds
    BY <1>4 DEF Moved
  <2>2. MainMoved(c) /\ UNCHANGED linked /\ workCmds'[rt] # <<>>
    BY <1>1, <1>4, <2>1, SpawnMain
  <2>3. \A q \in Routes \ {rt} : workCmds'[q] = workCmds[q] /\ genCom'[q] = genCom[q]
    BY <1>0, <1>2, <1>4, SetOthers
  <2> QED
    BY <1>4, <2>2, <2>3
<1>5. ASSUME NEW c, Moved(c), NEW d \in RouteCmds,
             \/ SetCommand(rt, Replaced(c), genCom[rt], d, FALSE) /\ UNCHANGED queueCmds
             \/ Becomes(c)
      PROVE  /\ UNCHANGED <<linked, queueCmds>> /\ workCmds'[rt] # <<>>
             /\ \A q \in Routes \ {rt} : workCmds'[q] = workCmds[q] /\ genCom'[q] = genCom[q]
             /\ \E e : Moved(e) /\ MainMoved(e)
  <2>1. FALSE \in BOOLEAN /\ ~FALSE
    OBVIOUS
  <2> QED
    BY <1>3, <1>4, <1>5, <2>1, Zenon
<1>6. cmd.type = "DownStepByStep" => cmd.last <= unN
  BY <1>1, <1>2 DEF covered
<1>7. ASSUME NEW waf \in BOOLEAN, NEW good \in BOOLEAN
      PROVE  Moved(Short([Finished(cmd, waf, good) EXCEPT !.last = unN + 1]))
  <2> DEFINE g == [Finished(cmd, waf, good) EXCEPT !.last = unN + 1]
  <2>1. unN + 1 \in Int
    BY <1>2
  <2>2. /\ g \in RouteCmds /\ g.name = cmd.name /\ g.type = cmd.type
        /\ g.beginUn = cmd.beginUn /\ g.endUn = cmd.endUn /\ g.last = unN + 1
    BY <1>2, <2>1, FinishedMoved
  <2> HIDE DEF g
  <2>3. /\ Short(g) \in RouteCmds /\ Short(g).name = cmd.name /\ Short(g).type = cmd.type
        /\ Short(g).beginUn = cmd.beginUn /\ Short(g).endUn = cmd.endUn
        /\ Short(g).last = unN + 1
    BY <2>2, ShortSame
  <2>4. Moved(Short(g))
    BY <1>2, <1>6, <2>3, MovedDown
  <2> QED
    BY <2>4 DEF g
<1>70. ASSUME NEW name \in RouteCommands, NEW type \in CmdTypes, NEW waf \in BOOLEAN,
              NEW b \in {cmd.beginUn, cmd.last}
       PROVE  Cmd(name, type, waf, b, unN - 1) \in RouteCmds
  <2>1. b \in Int /\ unN - 1 \in Int
    BY <1>2
  <2> QED
    BY <2>1, CmdType
<1>71. cmd \in RouteCmds
  BY <1>2
<1>8. CASE LeftForClean
  <2> DEFINE stops == unN # cmd.last
             l == IF stops THEN unN + 1 ELSE cmd.last + 1
             gd == cmd.good /\ ~stops
             c == [cmd EXCEPT !.good = gd, !.last = l]
             d == Cmd("RtCmStopOnRouteAlarm", "Parallel", FALSE, cmd.last, unN - 1)
  <2>1. \/ SetCommand(rt, Replaced(Short(c)), genCom[rt], d, FALSE) /\ UNCHANGED queueCmds
        \/ Becomes(Short(c))
    BY <1>8 DEF LeftForClean
  <2>2. l \in Int /\ gd \in BOOLEAN /\ cmd.name = "RtCmToRoutForClean"
    BY <1>2, <1>8 DEF LeftForClean
  <2>3. d \in RouteCmds
    BY <1>70 DEF RouteCommands, CmdTypes
  <2> HIDE DEF l, gd, d
  <2>4. c \in RouteCmds /\ c.name = cmd.name
    <3>1. c \in RouteCmds
      BY <1>71, <2>2 DEF RouteCmds
    <3>2. c.name = cmd.name
      BY <1>71 DEF RouteCmds
    <3> QED
      BY <3>1, <3>2
  <2> HIDE DEF c
  <2>5. Moved(Short(c))
    BY <2>2, <2>4, ShortSame, MovedOther
  <2> QED
    BY <1>1, <1>5, <2>1, <2>3, <2>5
<1>9. CASE LeftFailed
  <2> DEFINE c == Short([Finished(cmd, TRUE, FALSE) EXCEPT !.last = unN + 1])
             d == Cmd("RtCmStopOnRouteAlarm", "Parallel", TRUE, cmd.beginUn, unN - 1)
  <2>1. Moved(c)
    BY <1>7
  <2>2. d \in RouteCmds
    BY <1>70 DEF RouteCommands, CmdTypes
  <2>3. \/ SetCommand(rt, Replaced(c), genCom[rt], d, FALSE) /\ UNCHANGED queueCmds
        \/ Becomes(c)
    BY <1>9 DEF LeftFailed
  <2> HIDE DEF c, d
  <2> QED
    BY <1>1, <1>5, <2>1, <2>2, <2>3
<1>10. CASE LeftSilos
  <2> DEFINE c == Short([Finished(cmd, FALSE, TRUE) EXCEPT !.last = unN + 1])
             d == Cmd("RtCmCleanStop", "UpStepByStep", FALSE, cmd.beginUn, unN - 1)
  <2>1. Moved(c)
    BY <1>7
  <2>2. d \in RouteCmds
    BY <1>70 DEF RouteCommands, CmdTypes
  <2>3. \/ SetCommand(rt, Replaced(c), genCom[rt], d, FALSE) /\ UNCHANGED queueCmds
        \/ Becomes(c)
    BY <1>10 DEF LeftSilos
  <2> HIDE DEF c, d
  <2> QED
    BY <1>1, <1>5, <2>1, <2>2, <2>3
<1>11. CASE LeftBunker
  <2> DEFINE c == Short(Finished(cmd, FALSE, TRUE))
             d == Cmd("RtCmToRoutForClean", "DownStepByStep", TRUE, cmd.beginUn, unN - 1)
             q1 == Cmd("RtCmCleanStop", "UpStepByStep", FALSE, cmd.beginUn, unN - 1)
             q2 == Cmd("RtCmToRoute", "DownStepByStep", TRUE, cmd.beginUn, unN)
  <2>1. /\ SetCommand(rt, Replaced(c), genCom[rt], d, TRUE)
        /\ queueCmds' = [queueCmds EXCEPT ![rt] = <<q1, q2>>]
    BY <1>11 DEF LeftBunker
  <2>3. c \in RouteCmds
    BY <1>2, FinishedType, ShortType
  <2>4. d \in RouteCmds /\ d.name = "RtCmToRoutForClean"
    <3>1. d \in RouteCmds
      BY <1>70 DEF RouteCommands, CmdTypes
    <3> QED
      BY <3>1 DEF Cmd
  <2>5. q1.name = "RtCmCleanStop" /\ q2.type = "DownStepByStep"
    BY DEF Cmd
  <2> HIDE DEF c, d, q1, q2
  <2>6. Replaced(c) \in Seq(RouteCmds) /\ working(rt)
    BY <1>0, <1>1, <2>3, ScannedWorks
  <2> DEFINE e == Resolved(rt, d)
  <2>7. e \in RouteCmds /\ e.name = d.name
    <3>1. e \in RouteCmds
      BY <1>0, <1>2, <2>4, ResolvedType DEF TypeOK
    <3> QED
      BY <2>4, <3>1 DEF Resolved, RouteCmds
  <2>8. /\ UNCHANGED linked
        /\ workCmds' = [workCmds EXCEPT ![rt] = Append(Replaced(c), e)]
        /\ genCom' = [genCom EXCEPT ![rt] = Len(Replaced(c)) + 1]
    <3> DEFINE w == Replaced(c)
               g0 == genCom[rt]
    <3>1. rt \in Routes /\ working(rt) /\ TypeOK /\ Owned /\ TRUE \in BOOLEAN
      BY <1>0, <1>2, <2>6
    <3> HIDE DEF w, g0
    <3>2. allConnected[rt]
      BY <3>1 DEF Owned
    <3>3. ASSUME NEW gnrl \in BOOLEAN, gnrl, SetCommand(rt, w, g0, d, gnrl)
          PROVE  /\ UNCHANGED linked
                 /\ workCmds' = [workCmds EXCEPT ![rt] = Append(w, Resolved(rt, d))]
                 /\ genCom' = [genCom EXCEPT ![rt] = Len(w) + 1]
      BY <3>2, <3>3 DEF SetCommand, linked, held
    <3> QED
      BY <2>1, <3>1, <3>3, Zenon DEF w, g0
  <2> HIDE DEF e
  <2>9. workCmds'[rt] # <<>> /\ mainAfter(rt) = e
    <3>1. workCmds'[rt] = Append(Replaced(c), e) /\ genCom'[rt] = Len(Replaced(c)) + 1
      BY <1>0, <1>2, <2>8 DEF TypeOK, CommandTypes
    <3> QED
      BY <2>6, <2>7, <3>1, AppendNonEmpty DEF mainAfter
  <2>10. queueCmds'[rt] = <<q1, q2>>
    BY <1>2, <2>1
  <2>11. \A q \in Routes \ {rt} : /\ workCmds'[q] = workCmds[q] /\ genCom'[q] = genCom[q]
                                /\ queueCmds'[q] = queueCmds[q]
    BY <1>0, <1>2, <2>1, <2>8 DEF TypeOK, CommandTypes
  <2> QED
    BY <1>1, <2>4, <2>5, <2>7, <2>8, <2>9, <2>10, <2>11
<1> QED
  BY <1>8, <1>9, <1>10, <1>11

(* A scan keeps what is known: what the start newly passes has just        *)
(* confirmed, and the confirmation is sound.                               *)
LEMMA ScanWatch ==
  ASSUME FixedInv, DistinctLists, WInv,
         \/ ScanOther    \/ ScanParallel  \/ ScanKept  \/ ScanFar
         \/ NextDone     \/ NextFailed    \/ LeftSave  \/ LeftCleanStop
         \/ LeftForClean \/ LeftFailed    \/ LeftSilos \/ LeftBunker
  PROVE  WInv'
<1>0. /\ TypeOK /\ Safe /\ Owned
      /\ routeQ \in Seq(Events) /\ pos \in Nat /\ genCom \in [Routes -> Nat]
      /\ \A r \in Routes : unitList[r] \in Seq(ListItems)
  BY DEF FixedInv, IInv, TypeOK, QueueTypes, CommandTypes, ListTypes
<1>1. /\ Scanning /\ UNCHANGED linked /\ workCmds'[rt] # <<>>
      /\ \A q \in Routes \ {rt} : /\ workCmds'[q] = workCmds[q]
                                /\ genCom'[q] = genCom[q]
                                /\ queueCmds'[q] = queueCmds[q]
      /\ \/ UNCHANGED queueCmds /\ \E c : Moved(c) /\ MainMoved(c)
         \/ /\ mainAfter(rt).name = "RtCmToRoutForClean"
            /\ \A i \in DOMAIN queueCmds'[rt] :
                 queueCmds'[rt][i].name = "RtCmToRoute" =>
                   queueCmds'[rt][i].type = "DownStepByStep"
  BY ScanMain, LeftMain
<1>2. /\ informed /\ known /\ pos' = pos + 1 /\ pos < Len(workCmds[rt])
      /\ UNCHANGED <<routeQ, unitList, others, myRoute, routeMode, routeCommand>>
  BY <1>1 DEF Scanning, aside, linked, held
<1>3. PICK p \in Routes, v \in Units, n \in Int :
        /\ p = rt /\ v = un /\ n = unN /\ working(p) /\ myRoute[v] = p
        /\ \A i \in DOMAIN unitList[p] : unitList[p][i].un = v <=> i - 1 = n
  <2>1. working(rt)
    <3>1. rt \in Routes
      BY <1>2, UnitInHand
    <3>2. workCmds[rt] \in Seq(RouteCmds)
      BY <1>0, <3>1 DEF TypeOK, CommandTypes
    <3> QED
      BY <1>0, <1>2, <3>2 DEF working
  <2> QED
    BY <1>2, <2>1, UnitInHand
<1>4. /\ \A q \in Routes : working(q)' <=> working(q)
      /\ \A u \in Units : /\ (driven(u)' <=> driven(u)) /\ (fit(u)' <=> fit(u))
                          /\ (lively(u)' <=> lively(u))
  BY <1>1, <1>2, <1>3 DEF working, driven, fit, lively, others
<1>5. \A r \in Routes, u \in Units, k \in Nat : Sound(r, u, k)' <=> Sound(r, u, k)
  BY <1>2, <1>4 DEF Sound, TakenBack, From
<1>6. OpFirst' /\ FreshStart' /\ ScanInHand'
  BY <1>2 DEF WInv, OpFirst, FreshStart, ScanInHand, informed, known, rt, un, unitsOf
<1>7. UnitsRest' /\ AlarmRefuses'
  BY <1>2, <1>4 DEF WInv, UnitsRest, AlarmRefuses, others
<1>8. Followed'
  <2>1. \A k \in DOMAIN routeQ : k \in Nat
    BY <1>0
  <2> QED
    BY <1>2, <1>4, <1>5, <2>1 DEF WInv, Followed, From
<1>9. \A q \in Routes \ {p} : main(q)' = main(q) /\ queueCmds'[q] = queueCmds[q]
  BY <1>1, <1>3 DEF main
<1>10. ASSUME working(p) PROVE Forward(main(p))
  BY <1>3 DEF WInv, ForwardCmds
<1>11. genCom[p] = pos + 1 => main(p) = cmd
  BY <1>3 DEF main, cmd
<1>12. ForwardCmds'
  <2>1. Forward(main(p))'
    <3>1. CASE mainAfter(p).name = "RtCmToRoutForClean"
      BY <3>1 DEF Forward, mainAfter, main
    <3>2. ASSUME NEW c, Moved(c), MainMoved(c) PROVE Forward(main(p))'
      <4>1. mainAfter(p) = IF genCom[p] = pos + 1 THEN c ELSE main(p)
        BY <1>3, <3>2 DEF MainMoved
      <4>2. genCom[p] = pos + 1 => Forward(c)
        BY <1>3, <1>10, <1>11, <3>2 DEF Moved, Forward
      <4>3. Forward(mainAfter(p))
        BY <1>3, <1>10, <4>1, <4>2
      <4> QED
        BY <4>3 DEF Forward, mainAfter, main
    <3> QED
      BY <1>1, <1>3, <3>1, <3>2
  <2>2. \A q \in Routes \ {p} : working(q)' => Forward(main(q))'
    BY <1>4, <1>9 DEF WInv, ForwardCmds, Forward
  <2>3. \A q \in Routes : \A i \in DOMAIN queueCmds'[q] :
          queueCmds'[q][i].name = "RtCmToRoute" => queueCmds'[q][i].type = "DownStepByStep"
    BY <1>1, <1>3, <1>9 DEF WInv, ForwardCmds
  <2> QED
    BY <2>1, <2>2, <2>3 DEF ForwardCmds
<1>13. Watched'
  <2> SUFFICES ASSUME NEW r \in Routes, working(r), main(r)'.name = "RtCmToRoute",
                      NEW i \in DOMAIN unitList[r], Passed(r, i)', driven(unitList[r][i].un)
               PROVE  Sound(r, unitList[r][i].un, read(r))'
    <3>1. \A r \in Routes : \A i \in DOMAIN unitList[r] : unitList[r][i].un \in Units
      <4>1. \A r \in Routes : \A i \in DOMAIN unitList[r] : unitList[r][i] \in ListItems
        BY <1>0
      <4> QED
        BY <4>1 DEF ListItems
    <3> QED
      BY <1>2, <1>4, <3>1 DEF Watched
  <2>1. PICK u \in Units : u = unitList[r][i].un
    <3>1. unitList[r][i] \in ListItems
      BY <1>0
    <3> QED
      BY <3>1 DEF ListItems
  <2>2. PICK b \in Nat : b = read(r)'
    BY DEF read
  <2>3. SUFFICES Sound(r, u, b)
    <3>1. Sound(r, u, b)'
      BY <1>5, <2>3
    <3>2. unitList'[r][i].un = u
      BY <1>2, <2>1
    <3> QED
      BY <2>2, <3>1, <3>2 DEF Sound, TakenBack, From, fit, lively
  <2>4. ASSUME main(r)' = main(r), read(r)' = read(r) PROVE Sound(r, u, b)
    BY <2>1, <2>2, <2>4 DEF WInv, Watched, Passed
  <2>5. CASE r # p
    <3>1. main(r)' = main(r) /\ genCom'[r] = genCom[r]
      BY <1>1, <1>3, <1>9, <2>5
    <3>2. read(r)' = read(r)
      BY <1>2, <1>3, <2>5 DEF read, rt
    <3> QED
      BY <2>4, <3>1, <3>2
  <2>6. CASE r = p
    <3>1. PICK c : Moved(c) /\ MainMoved(c)
      BY <1>1, <1>3, <2>6 DEF mainAfter, main
    <3>2. main(p)' = (IF genCom[p] = pos + 1 THEN c ELSE main(p)) /\ genCom'[p] = genCom[p]
      BY <1>3, <3>1 DEF MainMoved, mainAfter, main
    <3>3. CASE genCom[p] # pos + 1
      <4>1. genCom[p] \in Nat
        BY <1>0
      <4>2. read(p)' = read(p)
        BY <1>0, <1>2, <3>2, <3>3, <4>1 DEF read
      <4> QED
        BY <2>4, <2>6, <3>2, <3>3, <4>2
    <3>4. CASE genCom[p] = pos + 1
      <4>1. read(p) = 0 /\ b = 1
        BY <1>0, <1>2, <1>3, <2>2, <2>6, <3>2, <3>4 DEF read, rt
      <4>2. main(p)' = c /\ main(p) = cmd /\ cmd.name = "RtCmToRoute" /\ Forward(cmd)
        BY <1>3, <1>10, <1>11, <2>6, <3>1, <3>2, <3>4 DEF Moved
      <4>3. /\ i - 1 = n \/ i - 1 \in cmd.last .. cmd.endUn
            /\ i - 1 = n => resp = "RtCmToRoute"
        <5>1. i - 1 \in c.last .. c.endUn
          BY <2>6, <4>2 DEF Passed
        <5> QED
          BY <1>3, <3>1, <4>2, <5>1 DEF Moved
      <4>4. routeQ # <<>> /\ 1 \in DOMAIN routeQ /\ routeQ[1] = Head(routeQ)
        BY <1>0, <1>2 DEF informed
      <4>5. CASE i - 1 = n
        <5>1. u = v /\ From(routeQ[1], p, v) /\ routeQ[1].arg = "RtCmToRoute"
          BY <1>2, <1>3, <2>1, <2>6, <4>3, <4>4, <4>5 DEF From, informed, rt, un, resp
        <5>2. driven(v)
          BY <2>1, <5>1
        <5> QED
          BY <1>3, <2>6, <4>1, <4>4, <5>1, <5>2 DEF WInv, Followed
      <4>6. CASE i - 1 # n
        <5>1. u # v /\ Sound(p, u, 0)
          BY <1>3, <2>1, <2>6, <4>1, <4>2, <4>3, <4>6 DEF WInv, Watched, Passed
        <5>2. ~From(routeQ[1], p, u)
          BY <1>3, <4>4, <5>1 DEF From, un
        <5>3. TakenBack(p, u, 0) => TakenBack(p, u, 1)
          BY <1>0, <5>2 DEF TakenBack
        <5> QED
          BY <2>6, <4>1, <5>1, <5>3 DEF Sound
      <4> QED
        BY <4>5, <4>6
    <3> QED
      BY <3>3, <3>4
  <2> QED
    BY <2>5, <2>6
<1> QED
  BY <1>6, <1>7, <1>8, <1>12, <1>13 DEF WInv

-----------------------------------------------------------------------------
(* The end of an answer.                                                   *)

(* Of n places, the one before the g-th, counted beyond the i-th.          *)
LEMMA Beyond ==
  ASSUME NEW n \in Nat, NEW i \in 1 .. n, NEW g \in 1 .. n, g > i
  PROVE  /\ g - 1 \in 1 .. n - 1 /\ g - 1 \in 1 .. i - 1 + (n - i) /\ g - 1 > i - 1
         /\ g - 1 <= g /\ g - 1 - (i - 1) = g - i
         /\ g - i \in 1 .. n - i /\ i + (g - i) = g
  OBVIOUS

(* An element stays where Shifted says once another is removed.            *)
LEMMA RemovedElse ==
  ASSUME NEW S, NEW s \in Seq(S), NEW i \in DOMAIN s, NEW g \in DOMAIN s, g # i
  PROVE  /\ Shifted(g, i) \in 1 .. Len(s) - 1 /\ Shifted(g, i) <= g
         /\ RemoveAt(s, i)[Shifted(g, i)] = s[g]
<1>1. PICK n \in Nat : n = Len(s) /\ i \in 1 .. n /\ g \in 1 .. n
  OBVIOUS
<1>2. PICK m \in Nat, h \in Nat : m = i - 1 /\ m + 1 = i /\ h = n - i /\ i + 1 \in Int
  <2>1. i - 1 \in Nat /\ n - i \in Nat /\ i - 1 + 1 = i /\ i + 1 \in Int
    BY <1>1
  <2> QED
    BY <2>1
<1> DEFINE a == SubSeq(s, 1, i - 1)
           b == SubSeq(s, i + 1, Len(s))
<1>3. a \in Seq(S) /\ Len(a) = m /\ \A k \in 1 .. m : a[k] = s[k]
  <2>1. \A k \in 1 .. m : s[k] \in S
    BY <1>1, <1>2
  <2>2. a = SubSeq(s, 1, m)
    BY <1>1, <1>2
  <2> HIDE DEF a
  <2> QED
    BY <1>2, <2>1, <2>2, SubSeqProperties
<1>4. b \in Seq(S) /\ Len(b) = h /\ \A k \in 1 .. h : b[k] = s[i + k]
  <2> DEFINE j == i + 1
  <2>1. \A k \in j .. n : s[k] \in S
    BY <1>1
  <2>2. j \in Int /\ n \in Int /\ b = SubSeq(s, j, n)
    BY <1>1, <1>2
  <2> HIDE DEF b, j
  <2>3. /\ b \in Seq(S)
        /\ Len(b) = IF j <= n THEN n - j + 1 ELSE 0
        /\ \A k \in 1 .. n - j + 1 : b[k] = s[j + k - 1]
    BY <2>1, <2>2, SubSeqProperties
  <2>4. n - j + 1 = h /\ (j > n => h = 0)
    BY <1>1, <1>2 DEF j
  <2>5. \A k \in 1 .. h : j + k - 1 = i + k
    BY <1>1, <1>2 DEF j
  <2>6. \A k \in 1 .. h : b[k] = s[i + k]
    BY <2>3, <2>4, <2>5
  <2>7. Len(b) = h
    BY <1>1, <1>2, <2>2, <2>3, <2>4
  <2> QED
    BY <2>3, <2>6, <2>7
<1>5. RemoveAt(s, i) = a \o b
  BY DEF RemoveAt
<1> HIDE DEF a, b
<1>6. /\ Len(a \o b) = m + h
      /\ \A k \in 1 .. m + h : (a \o b)[k] = IF k <= m THEN a[k] ELSE b[k - m]
  BY <1>3, <1>4, ConcatProperties
<1>7. Shifted(g, i) = IF g < i THEN g ELSE g - 1
  BY <1>1 DEF Shifted
<1>8. CASE g < i
  <2>1. g \in 1 .. m /\ g \in 1 .. m + h /\ g \in 1 .. n - 1 /\ g <= m /\ g <= g
    BY <1>1, <1>2, <1>8
  <2>2. (a \o b)[g] = s[g]
    BY <1>3, <1>6, <2>1
  <2>3. Shifted(g, i) = g
    BY <1>7, <1>8
  <2> QED
    BY <1>1, <1>5, <2>1, <2>2, <2>3
<1>9. CASE g > i
  <2>1. PICK f \in Int, k \in Int : f = g - 1 /\ k = g - i
    BY <1>1
  <2>2. f \in 1 .. m + h /\ f \in 1 .. n - 1 /\ f > m /\ f <= g /\ f - m = k
    <3>1. /\ g - 1 \in 1 .. n - 1 /\ g - 1 \in 1 .. i - 1 + (n - i) /\ g - 1 > i - 1
          /\ g - 1 <= g /\ g - 1 - (i - 1) = g - i
      BY <1>1, <1>9, Beyond
    <3>2. m = i - 1 /\ h = n - i
      BY <1>2
    <3> QED
      BY <2>1, <3>1, <3>2
  <2>3. k \in 1 .. h /\ i + k = g
    BY <1>1, <1>2, <1>9, <2>1, Beyond
  <2>4. (a \o b)[f] = IF f <= m THEN a[f] ELSE b[f - m]
    BY <1>6, <2>2
  <2>5. ~(f <= m)
    BY <1>2, <2>1, <2>2
  <2>6. (a \o b)[f] = s[g]
    BY <1>4, <2>2, <2>3, <2>4, <2>5
  <2>7. Shifted(g, i) = f
    BY <1>1, <1>7, <1>9, <2>1
  <2> QED
    BY <1>1, <1>5, <2>2, <2>6, <2>7
<1> QED
  BY <1>1, <1>8, <1>9

(* A removal keeps the main command.                                       *)
LEMMA RemoveWatch ==
  ASSUME FixedInv, WInv, RemoveCommand
  PROVE  WInv'
<1>0. /\ TypeOK /\ Safe
      /\ routeQ \in Seq(Events) /\ pos \in Nat /\ genCom \in [Routes -> Nat]
      /\ workCmds \in [Routes -> Seq(RouteCmds)]
  BY DEF FixedInv, IInv, TypeOK, QueueTypes, CommandTypes
<1>1. /\ informed /\ known /\ pos' = pos /\ pos >= Len(workCmds[rt])
      /\ UNCHANGED <<routeQ, unitList, others, myRoute, routeMode, routeCommand, queueCmds>>
  BY DEF RemoveCommand, Scanned, aside, linked, held
<1>2. PICK p \in Routes, i \in DOMAIN workCmds[rt] :
        /\ p = rt /\ i # genCom[p]
        /\ workCmds' = [workCmds EXCEPT ![p] = RemoveAt(@, i)]
        /\ genCom' = [genCom EXCEPT ![p] = Shifted(@, i)]
  BY <1>0, <1>1, InHand DEF RemoveCommand, removable
<1>3. /\ working(p) /\ genCom[p] \in DOMAIN workCmds[p] /\ i \in DOMAIN workCmds[p]
      /\ workCmds[p] \in Seq(RouteCmds) /\ pos >= Len(workCmds[p])
  <2>1. workCmds[p] \in Seq(RouteCmds) /\ i \in DOMAIN workCmds[p]
    BY <1>0, <1>2
  <2>2. working(p)
    BY <2>1 DEF working
  <2>3. genCom[p] \in 0 .. Len(workCmds[p]) /\ genCom[p] # 0
    BY <1>0, <2>2 DEF Safe, GenComLive
  <2>4. pos >= Len(workCmds[p])
    BY <1>1, <1>2
  <2> QED
    BY <2>1, <2>2, <2>3, <2>4
<1>4. /\ workCmds'[p] = RemoveAt(workCmds[p], i) /\ genCom'[p] = Shifted(genCom[p], i)
      /\ \A q \in Routes \ {p} : workCmds'[q] = workCmds[q] /\ genCom'[q] = genCom[q]
  BY <1>0, <1>2
<1>5. /\ genCom'[p] \in 1 .. Len(workCmds[p]) - 1 /\ genCom'[p] <= genCom[p]
      /\ workCmds'[p][genCom'[p]] = workCmds[p][genCom[p]]
  BY <1>2, <1>3, <1>4, RemovedElse
<1>6. workCmds'[p] # <<>>
  <2>1. Len(workCmds'[p]) = Len(workCmds[p]) - 1
    BY <1>3, <1>4, Removal
  <2> QED
    BY <1>3, <1>5, <2>1
<1>7. \A q \in Routes : (working(q)' <=> working(q)) /\ main(q)' = main(q) /\ read(q)' = read(q)
  <2>1. genCom[p] <= pos /\ genCom'[p] <= pos
    <3>1. PICK n \in Nat : n = Len(workCmds[p])
      BY <1>3
    <3>2. genCom[p] \in 1 .. n /\ pos >= n
      BY <1>3, <3>1
    <3>3. genCom'[p] \in Int
      BY <1>5, <3>1
    <3> QED
      BY <1>0, <1>5, <3>2, <3>3
  <2> QED
    BY <1>1, <1>3, <1>4, <1>5, <1>6, <2>1 DEF working, main, read
<1>8. \A u \in Units : /\ (driven(u)' <=> driven(u)) /\ (fit(u)' <=> fit(u))
                       /\ (lively(u)' <=> lively(u))
  BY <1>1 DEF driven, fit, lively, others
<1>9. \A r \in Routes, u \in Units, k \in Nat : Sound(r, u, k)' <=> Sound(r, u, k)
  BY <1>1, <1>8 DEF Sound, TakenBack, From
<1>10. OpFirst' /\ FreshStart' /\ ScanInHand'
  BY <1>1 DEF WInv, OpFirst, FreshStart, ScanInHand, informed, known, rt, un, unitsOf
<1>11. UnitsRest' /\ AlarmRefuses'
  BY <1>1, <1>8 DEF WInv, UnitsRest, AlarmRefuses, others
<1>12. Followed'
  <2>1. \A k \in DOMAIN routeQ : k \in Nat
    BY <1>0
  <2> QED
    BY <1>1, <1>8, <1>9, <2>1 DEF WInv, Followed, From
<1>13. ForwardCmds'
  BY <1>1, <1>7 DEF WInv, ForwardCmds, Forward
<1>14. Watched'
  <2> SUFFICES ASSUME NEW r \in Routes, working(r), main(r).name = "RtCmToRoute",
                      NEW i1 \in DOMAIN unitList[r], Passed(r, i1), driven(unitList[r][i1].un)'
               PROVE  Sound(r, unitList[r][i1].un, read(r))'
    BY <1>1, <1>7 DEF Watched, Passed
  <2>1. PICK u \in Units, b \in Nat : u = unitList[r][i1].un /\ b = read(r)
    <3>1. unitList[r] \in Seq(ListItems)
      BY <1>0 DEF TypeOK, ListTypes
    <3>2. unitList[r][i1] \in ListItems
      BY <3>1
    <3> QED
      BY <3>2 DEF ListItems, read
  <2>2. unitList'[r][i1].un = u /\ read(r)' = b
    BY <1>1, <1>7, <2>1
  <2>3. driven(u)
    BY <1>8, <2>1, <2>2 DEF driven
  <2>4. Sound(r, u, b)'
    BY <1>9, <2>1, <2>3 DEF WInv, Watched
  <2> QED
    BY <2>2, <2>4 DEF Sound, TakenBack, From, fit, lively
<1> QED
  BY <1>10, <1>11, <1>12, <1>13, <1>14 DEF WInv

-----------------------------------------------------------------------------
(* The event in hand is dealt with.                                        *)

UnitKept(u) == /\ myRoute'[u] = myRoute[u] /\ routeMode'[u] = routeMode[u]
               /\ routeCommand'[u] = routeCommand[u]

NoAnswers(r) == \A k \in DOMAIN routeQ : routeQ[k].ev = "Inform" => routeQ[k].rt # r

(* A unit is kept, freed, or taken by the route of the event, which has no *)
(* old answers then.                                                       *)
Handed(p) ==
  \A u \in Units :
     \/ UnitKept(u)
     \/ routeCommand'[u] = "RtCmNo" /\ myRoute'[u] = NoRoute
     \/ /\ routeCommand'[u] = "RtCmNo" /\ myRoute[u] = NoRoute /\ myRoute'[u] = p
        /\ NoAnswers(p)

(* The route of the event has a new main command that has passed no unit,  *)
(* or keeps its own once that has seen the answer.                         *)
NewMain(p) ==
  /\ Forward(mainAfter(p))
  /\ mainAfter(p).name = "RtCmToRoute" =>
       \/ mainAfter(p).last .. mainAfter(p).endUn = {}
       \/ /\ informed /\ working(p) /\ mainAfter(p) = main(p)
          /\ read(p) = 1 \/ ~known

(* The event of the route p is out of the queue.                           *)
Taken(p) ==
  /\ routeQ # <<>> /\ routeQ' = Tail(routeQ) /\ pos' = 0
  /\ UNCHANGED <<others, unitList>>
  /\ \A q \in Routes \ {p} : /\ workCmds'[q] = workCmds[q] /\ genCom'[q] = genCom[q]
                           /\ queueCmds'[q] = queueCmds[q]
  /\ \A i \in DOMAIN queueCmds'[p] :
       queueCmds'[p][i].name = "RtCmToRoute" => queueCmds'[p][i].type = "DownStepByStep"
  /\ Handed(p) /\ (workCmds'[p] # <<>> => NewMain(p))

(* The rest of the queue.                                                  *)
LEMMA TailQueue ==
  ASSUME NEW S, NEW s \in Seq(S), s # <<>>, NEW t, t = Tail(s)
  PROVE  /\ 1 \in DOMAIN s /\ s[1] = Head(s)
         /\ \A k \in DOMAIN s : k \in Nat /\ (k # 1 => k - 1 \in DOMAIN t /\ t[k - 1] = s[k])
         /\ \A k \in DOMAIN t : k \in Nat /\ k > 0 /\ k + 1 \in DOMAIN s /\ t[k] = s[k + 1]
  OBVIOUS

(* An answer that is taken back is so when the queue has moved on, unless  *)
(* it is the one in hand that does it.                                     *)
LEMMA SoundLater ==
  ASSUME routeQ \in Seq(Events), routeQ # <<>>, routeQ' = Tail(routeQ),
         NEW r \in Routes, NEW u \in Units, UNCHANGED others,
         NEW n \in Nat, NEW m \in Nat, Sound(r, u, n),
         m + 1 = n \/ (m = 0 /\ n = 0 /\ ~From(Head(routeQ), r, u))
  PROVE  Sound(r, u, m)'
<1>1. /\ 1 \in DOMAIN routeQ /\ routeQ[1] = Head(routeQ)
      /\ \A k \in DOMAIN routeQ :
           k \in Nat /\ (k # 1 => k - 1 \in DOMAIN routeQ' /\ routeQ'[k - 1] = routeQ[k])
  <2> DEFINE t == routeQ'
  <2>1. t = Tail(routeQ)
    OBVIOUS
  <2> HIDE DEF t
  <2>2. /\ 1 \in DOMAIN routeQ /\ routeQ[1] = Head(routeQ)
        /\ \A k \in DOMAIN routeQ :
             k \in Nat /\ (k # 1 => k - 1 \in DOMAIN t /\ t[k - 1] = routeQ[k])
    BY <2>1, TailQueue
  <2> QED
    BY <2>2 DEF t
<1>2. TakenBack(r, u, n) => TakenBack(r, u, m)'
  <2> SUFFICES ASSUME NEW k \in DOMAIN routeQ, k > n, From(routeQ[k], r, u),
                      routeQ[k].arg # "RtCmToRoute"
               PROVE  TakenBack(r, u, m)'
    BY DEF TakenBack
  <2>1. k # 1
    BY <1>1
  <2>2. k - 1 \in DOMAIN routeQ' /\ routeQ'[k - 1] = routeQ[k] /\ k - 1 > m
    BY <1>1, <2>1
  <2> QED
    BY <2>2 DEF TakenBack, From
<1>3. (fit(u)' <=> fit(u)) /\ (lively(u)' <=> lively(u))
  BY DEF fit, lively, others
<1> QED
  BY <1>2, <1>3 DEF Sound

LEMMA TakenWatch ==
  ASSUME FixedInv, WInv, Owned', GenComLive', NEW p \in Routes, p = rt, Taken(p)
  PROVE  WInv'
<1>0. /\ TypeOK /\ Safe /\ Owned
      /\ routeQ \in Seq(Events) /\ pos \in Nat /\ genCom \in [Routes -> Nat]
      /\ \A r \in Routes : unitList[r] \in Seq(ListItems)
      /\ NoRoute \notin Routes
  BY UnitConstants DEF FixedInv, IInv, TypeOK, QueueTypes, CommandTypes, ListTypes
<1>2. /\ routeQ # <<>> /\ routeQ' = Tail(routeQ) /\ pos' = 0
      /\ UNCHANGED <<others, unitList>>
      /\ \A q \in Routes \ {p} : /\ workCmds'[q] = workCmds[q] /\ genCom'[q] = genCom[q]
                               /\ queueCmds'[q] = queueCmds[q]
      /\ Handed(p)
      /\ Head(routeQ).rt = p
  BY DEF Taken, rt
<1>3. /\ 1 \in DOMAIN routeQ /\ routeQ[1] = Head(routeQ)
      /\ \A k \in DOMAIN routeQ' : k \in Nat /\ k > 0 /\ k + 1 \in DOMAIN routeQ
                                   /\ routeQ'[k] = routeQ[k + 1]
  <2> DEFINE t == routeQ'
  <2>1. t = Tail(routeQ)
    BY <1>2
  <2> HIDE DEF t
  <2>2. /\ 1 \in DOMAIN routeQ /\ routeQ[1] = Head(routeQ)
        /\ \A k \in DOMAIN t : k \in Nat /\ k > 0 /\ k + 1 \in DOMAIN routeQ
                               /\ t[k] = routeQ[k + 1]
    BY <1>0, <1>2, <2>1, TailQueue
  <2> QED
    BY <2>2 DEF t
<1>4. \A u \in Units : (fit(u)' <=> fit(u)) /\ (lively(u)' <=> lively(u))
  BY <1>2 DEF fit, lively, others
<1>5. OpFirst' /\ FreshStart' /\ ScanInHand'
  <2>1. \A k \in DOMAIN routeQ' : routeQ'[k].ev # "Op"
    <3>1. \A k \in DOMAIN routeQ' : k + 1 # 1
      BY <1>3
    <3> QED
      BY <1>3, <3>1 DEF WInv, OpFirst
  <2>2. routeQ' # <<>> => 1 \in DOMAIN routeQ' /\ routeQ'[1] = Head(routeQ')
    BY <1>0, <1>2
  <2>3. OpFirst' /\ FreshStart'
    BY <2>1, <2>2 DEF OpFirst, FreshStart
  <2>4. ScanInHand'
    BY <1>2 DEF ScanInHand
  <2> QED
    BY <2>3, <2>4
<1>6. UnitsRest' /\ AlarmRefuses'
  <2>1. UnitsRest'
    BY <1>2, <1>4 DEF WInv, UnitsRest, others
  <2>2. ASSUME NEW u \in Units, driven(u)', alarm'[u], ~unheard'[u]
        PROVE  routeCommand'[u] # "RtCmToRoute"
    BY <1>2, <2>2 DEF WInv, AlarmRefuses, Handed, UnitKept, driven, others
  <2> QED
    BY <2>1, <2>2 DEF AlarmRefuses
<1>7. ForwardCmds'
  <2>1. working(p)' => Forward(main(p))'
    BY DEF Taken, NewMain, Forward, mainAfter, main, working
  <2>2. \A q \in Routes \ {p} : (working(q)' <=> working(q)) /\ main(q)' = main(q)
    BY <1>2 DEF working, main
  <2>3. \A q \in Routes : \A i \in DOMAIN queueCmds'[q] :
          queueCmds'[q][i].name = "RtCmToRoute" => queueCmds'[q][i].type = "DownStepByStep"
    BY <1>2 DEF WInv, ForwardCmds, Taken
  <2> QED
    BY <2>1, <2>2, <2>3 DEF WInv, ForwardCmds, Forward
<1>8. ASSUME NEW r \in Routes, NEW u \in Units, myRoute'[u] = r, driven(u)', ~NoAnswers(r)
      PROVE  myRoute[u] = r /\ driven(u)
  BY <1>0, <1>2, <1>8 DEF Handed, UnitKept, driven
<1>9. Followed'
  <2> SUFFICES ASSUME NEW r \in Routes, NEW u \in Units, myRoute'[u] = r, driven(u)',
                      NEW k \in DOMAIN routeQ', From(routeQ'[k], r, u),
                      routeQ'[k].arg = "RtCmToRoute"
               PROVE  Sound(r, u, k)'
    BY DEF Followed
  <2>1. k \in Nat /\ k + 1 \in DOMAIN routeQ /\ routeQ'[k] = routeQ[k + 1] /\ k + 1 \in Nat
    BY <1>3
  <2>2. myRoute[u] = r /\ driven(u)
    BY <1>8, <2>1 DEF NoAnswers, From
  <2>3. Sound(r, u, k + 1)
    BY <2>1, <2>2 DEF WInv, Followed
  <2> QED
    BY <1>0, <1>2, <2>1, <2>3, SoundLater
<1>10. Watched'
  <2> SUFFICES ASSUME NEW r \in Routes, working(r)', main(r)'.name = "RtCmToRoute",
                      NEW i \in DOMAIN unitList[r], Passed(r, i)', driven(unitList[r][i].un)'
               PROVE  Sound(r, unitList[r][i].un, read(r))'
    BY <1>2 DEF Watched
  <2>1. PICK u \in Units : u = unitList[r][i].un /\ u \in unitsOf(r)
    <3>1. unitList[r][i] \in ListItems
      BY <1>0
    <3> QED
      BY <3>1 DEF ListItems, unitsOf
  <2>2. unitList'[r][i].un = u /\ myRoute'[u] = r
    BY <1>2, <2>1 DEF Owned, unitsOf
  <2>3. read(r)' = 0
    <3>1. genCom'[r] # 0 /\ genCom'[r] \in Int /\ genCom'[r] >= 0
      BY DEF GenComLive
    <3> QED
      BY <1>2, <3>1 DEF read
  <2>4. SUFFICES Sound(r, u, 0)'
    BY <2>2, <2>3 DEF Sound, TakenBack, From, fit, lively
  <2>5. ASSUME working(r), main(r)' = main(r) PROVE Sound(r, u, read(r)) /\ driven(u)
    <3>1. myRoute[u] = r
      BY <2>1, <2>5, <1>0 DEF Owned
    <3>2. driven(u)
      BY <1>0, <1>2, <2>2, <3>1 DEF Handed, UnitKept, driven
    <3> QED
      BY <2>1, <2>5, <3>2 DEF WInv, Watched, Passed
  <2>6. CASE r # p
    <3>1. working(r) /\ main(r)' = main(r)
      BY <1>2, <2>6 DEF working, main
    <3>2. read(r) = 0 /\ ~From(Head(routeQ), r, u)
      BY <1>2, <2>6 DEF read, From
    <3> QED
      BY <1>0, <1>2, <2>5, <3>1, <3>2, SoundLater
  <2>7. CASE r = p
    <3>1. /\ mainAfter(p).name = "RtCmToRoute" /\ i - 1 \in mainAfter(p).last .. mainAfter(p).endUn
          /\ workCmds'[p] # <<>>
      BY <2>7 DEF mainAfter, main, Passed, working
    <3>2. working(p) /\ mainAfter(p) = main(p) /\ (read(p) = 1 \/ ~known)
      BY <3>1 DEF Taken, NewMain
    <3>3. Sound(p, u, read(p))
      BY <2>5, <2>7, <3>2 DEF mainAfter, main
    <3>4. CASE read(p) = 1
      <4>1. Sound(p, u, 1) /\ 0 + 1 = 1
        BY <3>3, <3>4
      <4>2. Sound(p, u, 0)'
        BY <1>0, <1>2, <4>1, SoundLater
      <4> QED
        BY <2>7, <4>2
    <3>5. CASE ~known /\ read(p) = 0
      <4>1. ~From(Head(routeQ), p, u)
        BY <2>1, <2>7, <3>5 DEF From, known, un, rt
      <4>2. Sound(p, u, 0)
        BY <3>3, <3>5
      <4>3. Sound(p, u, 0)'
        BY <1>0, <1>2, <4>1, <4>2, SoundLater
      <4> QED
        BY <2>7, <4>3
    <3> QED
      BY <3>2, <3>4, <3>5 DEF read
  <2> QED
    BY <2>6, <2>7
<1> QED
  BY <1>5, <1>6, <1>7, <1>9, <1>10 DEF WInv

(* An order for a route.  One that works keeps its units; one that takes   *)
(* them has no old answers in the queue.                                   *)
LEMMA RestartTaken ==
  ASSUME FixedInv, NoEmptyList, WInv, NEW r \in Routes, NEW op, Handle(r, op),
         NEW c \in Askable(units(r)), c.name = "RtCmToRoute" => c.type = "DownStepByStep",
         NEW gnrl, NEW queue, Restart(r, c, gnrl, queue),
         \A i \in DOMAIN queue :
           queue[i].name = "RtCmToRoute" => queue[i].type = "DownStepByStep"
  PROVE  r = rt /\ Taken(r)
<1>0. /\ TypeOK /\ Owned
      /\ queueCmds \in [Routes -> Seq(RouteCmds)] /\ workCmds \in [Routes -> Seq(RouteCmds)]
      /\ myRoute \in [Units -> Routes \cup {NoRoute}]
  BY DEF FixedInv, IInv, TypeOK, CommandTypes, HeldTypes
<1>1. /\ routeQ # <<>> /\ Head(routeQ).ev = "Op" /\ Head(routeQ).rt = r
      /\ routeQ' = Tail(routeQ) /\ UNCHANGED <<others, pos>>
  BY DEF Handle, Take
<1>2. pos' = 0
  BY <1>0, <1>1 DEF WInv, ScanInHand, informed, TypeOK, CommandTypes
<1>3. /\ SetCommand(r, <<>>, 0, c, gnrl) /\ UNCHANGED unitList
      /\ queueCmds' = [queueCmds EXCEPT ![r] = queue]
  BY DEF Restart
<1>4. \A q \in Routes \ {r} : /\ workCmds'[q] = workCmds[q] /\ genCom'[q] = genCom[q]
                            /\ queueCmds'[q] = queueCmds[q]
  BY <1>0, <1>3, SetOthers
<1>5. Handed(r)
  <2>1. CASE allConnected[r]
    <3>1. UNCHANGED <<myRoute, routeMode, routeCommand>>
      BY <1>3, <2>1 DEF SetCommand, held
    <3> QED
      BY <3>1 DEF Handed, UnitKept
  <2>2. CASE ~allConnected[r]
    <3>1. NoAnswers(r)
      BY <1>0, <1>1, <2>2 DEF Owned, WInv, FreshStart, NoAnswers
    <3>2. _ConnectUnit(r, freeOf(r)) \/ \E us : Release(us)
      BY <1>3, <2>2 DEF SetCommand, _ConnectAllUnits
    <3>3. CASE _ConnectUnit(r, freeOf(r))
      BY <3>1, <3>3 DEF _ConnectUnit, freeOf, HandOver, Handed, UnitKept
    <3>4. CASE \E us : Release(us)
      BY <3>4 DEF Release, HandOver, Handed, UnitKept
    <3> QED
      BY <3>2, <3>3, <3>4
  <2> QED
    BY <2>1, <2>2
<1>6. workCmds'[r] # <<>> => NewMain(r)
  BY <1>3, FreshMain DEF NewMain
<1>7. queueCmds'[r] = queue
  BY <1>0, <1>3
<1> QED
  BY <1>1, <1>2, <1>3, <1>4, <1>5, <1>6, <1>7 DEF Taken, rt

LEMMA OrderTaken ==
  ASSUME FixedInv, NoEmptyList, WInv, NEW r \in Routes,
         Start(r) \/ Stop(r) \/ CleanStop(r) \/ Freeze(r)
  PROVE  r = rt /\ Taken(r)
<1>1. /\ Cmd("RtCmToRoute", "DownStepByStep", TRUE, -1, -1).type = "DownStepByStep"
      /\ Cmd("RtCmStop", "Parallel", FALSE, -1, -1).name = "RtCmStop"
      /\ Cmd("RtCmToSave", "UpStepByStep", FALSE, -1, -1).name = "RtCmToSave"
      /\ Cmd("RtCmToRoutForClean", "DownStepByStep", TRUE, -1, -1).name = "RtCmToRoutForClean"
      /\ Cmd("RtCmCleanStop", "UpStepByStep", FALSE, -1, -1).name = "RtCmCleanStop"
  BY DEF Cmd
<1>2. /\ Cmd("RtCmToRoute", "DownStepByStep", TRUE, -1, -1) \in Askable(units(r))
      /\ Cmd("RtCmStop", "Parallel", FALSE, -1, -1) \in Askable(units(r))
      /\ Cmd("RtCmToSave", "UpStepByStep", FALSE, -1, -1) \in Askable(units(r))
      /\ Cmd("RtCmToRoutForClean", "DownStepByStep", TRUE, -1, -1) \in Askable(units(r))
  BY WholeList DEF RouteCommands, CmdTypes
<1>3. ASSUME NEW c, NEW op, Handle(r, op), NEW gnrl, Restart(r, c, gnrl, <<>>),
             c \in Askable(units(r)), c.name = "RtCmToRoute" => c.type = "DownStepByStep"
      PROVE  r = rt /\ Taken(r)
  <2> DEFINE queue == <<>>
  <2>1. \A i \in DOMAIN queue : queue[i].name = "RtCmToRoute" => queue[i].type = "DownStepByStep"
    OBVIOUS
  <2>2. Restart(r, c, gnrl, queue)
    BY <1>3
  <2> HIDE DEF queue
  <2> QED
    BY <1>3, <2>1, <2>2, RestartTaken
<1>4. CASE Start(r)
  BY <1>1, <1>2, <1>3, <1>4, Zenon DEF Start
<1>5. CASE Stop(r)
  BY <1>1, <1>2, <1>3, <1>5, Zenon DEF Stop
<1>6. CASE Freeze(r)
  BY <1>1, <1>2, <1>3, <1>6, Zenon DEF Freeze
<1>7. CASE CleanStop(r)
  <2> DEFINE d == Cmd("RtCmToRoutForClean", "DownStepByStep", TRUE, -1, -1)
             q1 == Cmd("RtCmCleanStop", "UpStepByStep", FALSE, -1, -1)
  <2>1. Handle(r, "CleanStop") /\ Restart(r, d, FALSE, <<q1>>)
    BY <1>7 DEF CleanStop
  <2>2. q1.name # "RtCmToRoute" /\ d.name # "RtCmToRoute" /\ d \in Askable(units(r))
    BY <1>1, <1>2
  <2> HIDE DEF q1, d
  <2> DEFINE queue == <<q1>>
  <2>3. \A i \in DOMAIN queue : queue[i].name = "RtCmToRoute" => queue[i].type = "DownStepByStep"
    BY <2>2
  <2>4. Restart(r, d, FALSE, queue)
    BY <2>1
  <2> HIDE DEF queue
  <2> QED
    BY <2>1, <2>2, <2>3, <2>4, RestartTaken
<1> QED
  BY <1>4, <1>5, <1>6, <1>7

(* The end of an answer of a unit.                                         *)
LEMMA EndingTaken ==
  ASSUME FixedInv, NoEmptyList, WInv,
         InformFromStranger \/ RouteDone \/ NextQueued \/ StillWorking
  PROVE  \E r \in Routes : r = rt /\ Taken(r)
<1>0. /\ TypeOK /\ Safe /\ Owned /\ InRanges
      /\ queueCmds \in [Routes -> Seq(RouteCmds)] /\ workCmds \in [Routes -> Seq(RouteCmds)]
      /\ genCom \in [Routes -> Nat]
      /\ myRoute \in [Units -> Routes \cup {NoRoute}]
  BY DEF FixedInv, IInv, TypeOK, CommandTypes, HeldTypes
<1>1. informed /\ routeQ' = Tail(routeQ) /\ UNCHANGED <<others, unitList>>
  BY DEF InformFromStranger, RouteDone, NextQueued, StillWorking, Ending, Scanned, aside
<1>2. PICK p \in Routes : p = rt /\ Head(routeQ).rt = p /\ routeQ # <<>>
  BY <1>0, <1>1, InHand DEF informed, rt
<1>3. pos' = 0
  <2>1. CASE InformFromStranger
    <3>1. pos' = pos /\ ~known /\ pos \in Nat
      BY <1>0, <2>1 DEF InformFromStranger, TypeOK, CommandTypes
    <3> QED
      BY <3>1 DEF WInv, ScanInHand
  <2> QED
    BY <2>1 DEF RouteDone, NextQueued, StillWorking, Ending
<1>4. SUFFICES /\ \A q \in Routes \ {p} : /\ workCmds'[q] = workCmds[q]
                                        /\ genCom'[q] = genCom[q]
                                        /\ queueCmds'[q] = queueCmds[q]
               /\ \A i \in DOMAIN queueCmds'[p] :
                    queueCmds'[p][i].name = "RtCmToRoute" =>
                      queueCmds'[p][i].type = "DownStepByStep"
               /\ Handed(p) /\ (workCmds'[p] # <<>> => NewMain(p))
  BY <1>1, <1>2, <1>3 DEF Taken
<1>5. working(p) => genCom[p] \in 1 .. Len(workCmds[p]) /\ Forward(main(p))
  BY <1>0 DEF Safe, GenComLive, WInv, ForwardCmds
<1>6. \A i \in DOMAIN queueCmds[p] :
        queueCmds[p][i].name = "RtCmToRoute" => queueCmds[p][i].type = "DownStepByStep"
  BY DEF WInv, ForwardCmds
<1>7. CASE InformFromStranger \/ StillWorking
  <2>1. UNCHANGED <<linked, workCmds, queueCmds, genCom>>
    BY <1>7 DEF InformFromStranger, StillWorking
  <2>2. Handed(p)
    BY <2>1 DEF Handed, UnitKept, linked, held
  <2>3. ASSUME working(p) PROVE read(p) = 1 \/ ~known
    <3>1. CASE InformFromStranger
      BY <3>1 DEF InformFromStranger
    <3>2. CASE StillWorking
      <4>1. pos >= Len(workCmds[p]) /\ workCmds[p] \in Seq(RouteCmds) /\ pos \in Nat
        BY <1>0, <1>2, <3>2 DEF StillWorking, Ending, Scanned, TypeOK, CommandTypes
      <4>2. genCom[p] <= pos
        BY <1>5, <2>3, <4>1
      <4> QED
        BY <1>2, <4>2 DEF read
    <3> QED
      BY <1>7, <3>1, <3>2
  <2>4. workCmds'[p] # <<>> => NewMain(p)
    BY <1>1, <1>5, <2>1, <2>3 DEF NewMain, mainAfter, main, working
  <2> QED
    BY <1>6, <2>1, <2>2, <2>4
<1>8. CASE RouteDone
  <2>1. /\ workCmds' = [workCmds EXCEPT ![p] = <<>>] /\ genCom' = [genCom EXCEPT ![p] = 0]
        /\ UNCHANGED queueCmds /\ Release(heldBy(p))
    BY <1>2, <1>8 DEF RouteDone, DisconnectAllUnit
  <2>2. Handed(p)
    BY <2>1 DEF Release, HandOver, Handed, UnitKept
  <2> QED
    BY <1>0, <1>6, <2>1, <2>2
<1>9. CASE NextQueued
  <2> DEFINE c == Head(queueCmds[p])
  <2>1. /\ genCom[p] # 0 /\ queueCmds[p] # <<>>
        /\ queueCmds' = [queueCmds EXCEPT ![p] = Tail(@)]
        /\ \E gnrl \in {TRUE} : SetCommand(p, <<>>, 0, c, gnrl)
    BY <1>2, <1>9 DEF NextQueued, genFinished, queued
  <2>2. working(p)
    BY <1>0, <2>1 DEF Safe, GenComLive
  <2>3. /\ queueCmds[p] \in Seq(Askable(units(p))) /\ 1 \in DOMAIN queueCmds[p]
        /\ c = queueCmds[p][1]
    BY <1>0, <2>1 DEF InRanges
  <2>4. c \in Askable(units(p)) /\ (c.name = "RtCmToRoute" => c.type = "DownStepByStep")
    BY <1>6, <2>3
  <2> HIDE DEF c
  <2> PICK gnrl \in {TRUE} : SetCommand(p, <<>>, 0, c, gnrl)
    BY <2>1
  <2>5. \A q \in Routes \ {p} : workCmds'[q] = workCmds[q] /\ genCom'[q] = genCom[q]
    BY <1>0, SetOthers
  <2>6. workCmds'[p] # <<>> => NewMain(p)
    BY <2>4, FreshMain DEF NewMain
  <2>7. Handed(p)
    <3>1. allConnected[p]
      BY <1>0, <2>2 DEF Owned
    <3>2. UNCHANGED <<myRoute, routeMode, routeCommand>>
      BY <3>1 DEF SetCommand, held
    <3> QED
      BY <3>2 DEF Handed, UnitKept
  <2>8. /\ queueCmds'[p] = Tail(queueCmds[p])
        /\ \A q \in Routes \ {p} : queueCmds'[q] = queueCmds[q]
    BY <1>0, <2>1
  <2>9. \A k \in DOMAIN queueCmds'[p] : k + 1 \in DOMAIN queueCmds[p]
                                        /\ queueCmds'[p][k] = queueCmds[p][k + 1]
    <3> DEFINE w == queueCmds[p]
               t == queueCmds'[p]
    <3>1. w \in Seq(RouteCmds) /\ w # <<>> /\ t = Tail(w)
      BY <1>0, <2>1, <2>8
    <3> HIDE DEF w, t
    <3>2. \A k \in DOMAIN t : k + 1 \in DOMAIN w /\ t[k] = w[k + 1]
      BY <3>1, TailQueue
    <3> QED
      BY <3>2 DEF w, t
  <2> QED
    BY <1>6, <2>5, <2>6, <2>7, <2>8, <2>9
<1> QED
  BY <1>7, <1>8, <1>9

-----------------------------------------------------------------------------
(* All steps.                                                              *)

(* A click.  The operator has waited: the queue is empty.                  *)
LEMMA ClickWatch ==
  ASSUME FixedInv, WInv, NEW r \in Routes, NEW op, Click(r, op), settled
  PROVE  WInv'
<1> DEFINE e == [ev |-> "Op", rt |-> r, un |-> NoUnit, arg |-> op]
<1>1. /\ routeQ' = <<e>> /\ routeQ = <<>>
      /\ UNCHANGED <<held, others, routeCommand, unitList, workCmds, queueCmds, genCom, pos>>
  BY DEF Click, settled
<1>2. e.ev = "Op"
  OBVIOUS
<1> HIDE DEF e
<1>3. DOMAIN routeQ' = {1} /\ routeQ'[1] = e
  BY <1>1
<1>4. OpFirst' /\ FreshStart' /\ Followed'
  BY <1>2, <1>3 DEF OpFirst, FreshStart, Followed, From
<1>5. pos = 0
  BY <1>1 DEF WInv, ScanInHand, informed, FixedInv, IInv, TypeOK, CommandTypes
<1>6. ScanInHand'
  BY <1>1, <1>5 DEF ScanInHand
<1>7. UnitsRest' /\ AlarmRefuses' /\ ForwardCmds'
  BY <1>1 DEF WInv, UnitsRest, AlarmRefuses, ForwardCmds, lively, driven, others, held,
              working, main
<1>8. ASSUME NEW q \in Routes, working(q) PROVE read(q) = 0 /\ read(q)' = 0
  <2>1. genCom[q] # 0 /\ genCom[q] \in Nat
    BY <1>8 DEF FixedInv, IInv, Safe, GenComLive, TypeOK, CommandTypes
  <2> QED
    BY <1>1, <1>5, <2>1 DEF read
<1>9. \A u : (driven(u)' <=> driven(u)) /\ (fit(u)' <=> fit(u)) /\ (lively(u)' <=> lively(u))
  BY <1>1 DEF driven, fit, lively, held, others
<1>10. Watched'
  <2> SUFFICES ASSUME NEW q \in Routes, working(q), main(q).name = "RtCmToRoute",
                      NEW i \in DOMAIN unitList[q], Passed(q, i), driven(unitList[q][i].un)
               PROVE  Sound(q, unitList[q][i].un, read(q))'
    BY <1>1, <1>9 DEF Watched, working, main, Passed
  <2>1. PICK u : u = unitList[q][i].un
    OBVIOUS
  <2>2. Sound(q, u, 0)
    BY <1>8, <2>1 DEF WInv, Watched
  <2>3. fit(u)
    BY <1>1, <2>2 DEF Sound, TakenBack
  <2> QED
    BY <1>1, <1>9, <2>1, <2>3 DEF Sound
<1> QED
  BY <1>4, <1>6, <1>7, <1>10 DEF WInv

(* The window.                                                             *)
LEMMA ShowWatch ==
  ASSUME WInv, UNCHANGED <<unitVars, unitList, workCmds, queueCmds, genCom, pos>>
  PROVE  WInv'
  BY DEF WInv, OpFirst, FreshStart, ScanInHand, UnitsRest, AlarmRefuses, ForwardCmds,
         Followed, Watched, Sound, TakenBack, From, read, Passed, Forward, main, working,
         driven, fit, lively, informed, known, rt, un, unitsOf, unitVars, held, plant

LEMMA WatchNext ==
  ASSUME FixedLists, NoEmptyList, DistinctLists, FixedInv, WInv, [PatientNext]_vars,
         Owned', GenComLive'
  PROVE  WInv'
<1>0. TypeOK /\ NoEdits
  BY DEF FixedInv, IInv
<1>1. CASE UNCHANGED vars
  BY <1>1, ShowWatch DEF vars, routeVars
<1>2. CASE (UnitThread \/ UnitPlant) /\ UNCHANGED routeVars
  BY <1>0, <1>2, UnitsStep, UnitsWatch DEF WInv
<1>3. CASE RouteThread
  <2>1. CASE InformStep
    <3>1. CASE InformFromStranger \/ RouteDone \/ NextQueued \/ StillWorking
      BY <3>1, EndingTaken, TakenWatch
    <3> QED
      BY <2>1, <3>1, RemoveWatch, ScanWatch DEF InformStep
  <2>2. ASSUME NEW r \in Routes, Start(r) \/ Stop(r) \/ CleanStop(r) \/ Freeze(r)
        PROVE  WInv'
    BY <2>2, OrderTaken, TakenWatch
  <2> QED
    BY <1>0, <1>3, <2>1, <2>2, HandlersFixed
<1>4. ASSUME NEW r \in Routes, Operator(r), ops' # ops => settled PROVE WInv'
  <2>1. ASSUME NEW op \in OpNames, Click(r, op) PROVE WInv'
    <3>1. ops' # ops
      BY <1>0, <2>1 DEF Click, TypeOK, ListTypes
    <3> QED
      BY <1>4, <2>1, <3>1, ClickWatch
  <2>2. ASSUME NEW u, NEW m, AddInRoute(r, u, m) PROVE FALSE
    BY <2>2 DEF AddInRoute, FixedLists
  <2> QED
    BY <1>4, <2>1, <2>2 DEF Operator
<1>5. ASSUME NEW r \in Routes, Show(r) PROVE WInv'
  BY <1>5, ShowWatch DEF Show
<1> QED
  BY <1>1, <1>2, <1>3, <1>4, <1>5 DEF PatientNext, Next

LEMMA InitWatch ==
  ASSUME Init
  PROVE  WInv
<1>1. routeQ = <<>> /\ pos = 0 /\ \A r \in Routes : ~working(r) /\ queueCmds[r] = <<>>
  BY DEF Init, UnitInit, working
<1>2. UnitsRest /\ AlarmRefuses
  BY DEF Init, UnitInit, UnitsRest, AlarmRefuses, driven, lively
<1> QED
  BY <1>1, <1>2 DEF WInv, OpFirst, FreshStart, ScanInHand, ForwardCmds, Followed, Watched

(* What is watched is sound, and what is sound runs or is taken back.      *)
LEMMA WatchCovers ==
  ASSUME FixedInv, WInv
  PROVE  CoveredRuns
<1> SUFFICES ASSUME NEW r \in Routes, working(r), main(r).name = "RtCmToRoute",
                    NEW i \in DOMAIN unitList[r], Passed(r, i), driven(unitList[r][i].un)
             PROVE  LET u == unitList[r][i].un
                    IN  \/ out[u] \/ unheard[u] \/ sensed[u] = "yes" \/ due[u] > 0
                        \/ \E k \in DOMAIN routeQ :
                             /\ routeQ[k].ev = "Inform" /\ routeQ[k].un = u
                             /\ routeQ[k].arg # "RtCmToRoute"
  BY DEF CoveredRuns, Passed, driven
<1>1. Sound(r, unitList[r][i].un, read(r))
  BY DEF WInv, Watched
<1> QED
  BY <1>1 DEF Sound, TakenBack, From, fit, lively

(* All of this holds for an operator who waits.                            *)
LEMMA PatientInductive ==
  ASSUME FixedLists, NoEmptyList, DistinctLists
  PROVE  PatientSpec => [](IInv /\ NoEdits /\ InRanges /\ Owned /\ WInv)
<1>1. Init => IInv /\ NoEdits /\ InRanges /\ Owned /\ WInv
  <2> SUFFICES ASSUME Init PROVE NoEdits /\ InRanges /\ Owned
    BY InitTypes, InitSafe, InitWatch DEF IInv
  <2> QED
    BY DEF Init, UnitInit, NoEdits, InRanges, Owned, working
<1>2. IInv /\ NoEdits /\ InRanges /\ Owned /\ WInv /\ [PatientNext]_vars =>
        IInv' /\ NoEdits' /\ InRanges' /\ Owned' /\ WInv'
  <2> SUFFICES ASSUME IInv, NoEdits, InRanges, Owned, WInv, [PatientNext]_vars
               PROVE  IInv' /\ NoEdits' /\ InRanges' /\ Owned' /\ WInv'
    OBVIOUS
  <2>1. [Next]_vars
    BY DEF PatientNext
  <2>2. IInv' /\ NoEdits' /\ Owned'
    BY <2>1, NextTypes, NextSafe, FixedNext, StepReserves DEF IInv
  <2>3. InRanges'
    BY <2>1, RangeNext DEF IInv, RInv
  <2>4. GenComLive'
    BY <2>2 DEF IInv, Safe
  <2>5. FixedInv
    BY DEF FixedInv
  <2>6. WInv'
    BY <2>2, <2>4, <2>5, WatchNext
  <2> QED
    BY <2>2, <2>3, <2>6
<1> QED
  BY <1>1, <1>2, PTL DEF PatientSpec, PatientNext

(* No failure of a started unit goes unnoticed by its route, whatever      *)
(* fails on the way, as long as the operator waits for the line to settle  *)
(* (InformFromUnit, commandFromRoute, setCurrentMode); but a unit in alarm *)
(* by nothing but a refused reset (Unit::_resetAlarm) may fail unnoticed.  *)
THEOREM StartsWatched ==
  ASSUME FixedLists, NoEmptyList, DistinctLists PROVE PatientSpec => []CoveredRuns
<1>1. IInv /\ NoEdits /\ InRanges /\ Owned /\ WInv => CoveredRuns
  BY WatchCovers DEF FixedInv
<1> QED
  BY <1>1, PatientInductive, PTL
=============================================================================
