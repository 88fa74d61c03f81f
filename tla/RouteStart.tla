----------------------------- MODULE RouteStart -----------------------------
(***************************************************************************)
(* Proof that a line starts from its end (StartInOrder of RouteProps), for *)
(* lists of distinct units that are not edited, when the operator waits    *)
(* for the line to settle before the next click and nothing else disturbs  *)
(* it.                                                                     *)
(*                                                                         *)
(* The argument follows the one order of a start that is on its way: the   *)
(* units behind it have confirmed theirs and stay as the start wants them, *)
(* the units ahead of it rest.  A start that finds every unit at rest does *)
(* not fail on the way, so that it ends with every engine of the line on   *)
(* (StartedRuns), if the lists agree on which engines run.                 *)
(***************************************************************************)
EXTENDS RouteOrder

Begins == {"RtCmToRoute", "RtCmToRoutForClean"}
Quits  == {"RtCmToSave", "RtCmStop", "RtCmCleanStop"}

(* The route is being started, or was and nothing has been told it since.  *)
starting(r) == working(r) /\ workCmds[r][1].name \in Begins

-----------------------------------------------------------------------------
(* What is known of units.                                                 *)

Rest(u) == due[u] = 0 /\ (hasEngine(u) => (out[u] <=> sensed[u] = "yes"))

(* A unit that rests knows its state. *)
Known(u) ==
  hasEngine(u) /\ Rest(u) =>
    IF out[u] THEN eng[u] = "EngForvard" /\ mode[u] = "UnMdStart"
    ELSE eng[u] = "EngStoped" /\ mode[u] = "UnMdStop"

(* An engine follows a start only in a mode that it has. *)
Sensible(u) ==
  hasEngine(u) /\ routeCommand[u] \in Begins => routeMode[u] \in {"UnMdStart", "UnMdStop"}

(* What nobody has disturbed. *)
Untroubled(u) == ~alarm[u] /\ mayReset[u] /\ (~hasEngine(u) => due[u] = 0)

UnitsKnown == \A u \in Units : Known(u) /\ Sensible(u) /\ Untroubled(u)

(* u has done what the start named n asks of it. *)
Steady(u, n) ==
  /\ routeCommand[u] = n
  /\ hasEngine(u) => /\ out[u] <=> sensed[u] = "yes"
                     /\ routeMode[u] = IF out[u] THEN "UnMdStart" ELSE "UnMdStop"

(* A click is handled on a line that has settled. *)
ClickRests == clicked => unitQ = <<>> /\ Len(routeQ) = 1 /\ \A u \in Units : Rest(u)

-----------------------------------------------------------------------------
(* What is known of routes.                                                *)

(* No command has spawned another one. *)
OneCommand(r) ==
  /\ Len(workCmds[r]) <= 1
  /\ working(r) => workCmds[r][1].name \in Begins \cup Quits
  /\ \A i \in DOMAIN queueCmds[r] : queueCmds[r][i].name \in Quits

OrdersOwned ==
  \A k \in DOMAIN unitQ :
    \/ unitQ[k].cmd \in Quits
    \/ \E r \in Routes : starting(r) /\ unitQ[k].un \in unitsOf(r)

(* Of a route r with the start c:                                          *)
Heading(r, c) ==
  /\ c.type = "DownStepByStep" /\ c.endUn = Len(unitList[r]) - 1
  /\ c.finCmd => c.last <= c.beginUn

(* the units that it has passed are as it wants them,                      *)
BehindSteady(r, c) ==
  \A i \in DOMAIN unitList[r] : i - 1 >= c.last => Steady(unitList[r][i].un, c.name)

(* those before the next one rest,                                         *)
AheadRests(r, c) ==
  \A i \in DOMAIN unitList[r] : i - 1 < c.last - 1 => Rest(unitList[r][i].un)

(* answers come from the others and are true,                              *)
AnswersTrue(r, c) ==
  \A k \in DOMAIN routeQ, i \in DOMAIN unitList[r] :
    From(routeQ[k], r, unitList[r][i].un) =>
      /\ i - 1 >= c.last - 1
      /\ routeQ[k].arg = c.name <=> routeCommand[unitList[r][i].un] = c.name
      /\ routeQ[k].arg = c.name => Steady(unitList[r][i].un, c.name)

(* and the one order on its way goes to the next unit, which still rests.  *)
OrdersNext(r, c) ==
  \A k \in DOMAIN unitQ, i \in DOMAIN unitList[r] :
    unitQ[k].un = unitList[r][i].un =>
      /\ i - 1 = c.last - 1 /\ unitQ[k].cmd = c.name /\ ~c.finCmd
      /\ Rest(unitQ[k].un)
      /\ \A l \in DOMAIN unitQ : unitQ[l].un = unitQ[k].un => l = k
      /\ \A l \in DOMAIN routeQ : ~From(routeQ[l], r, unitQ[k].un)

InLine(r, c) ==
  /\ Heading(r, c) /\ BehindSteady(r, c) /\ AheadRests(r, c)
  /\ AnswersTrue(r, c) /\ OrdersNext(r, c)

StartsInLine == \A r \in Routes : starting(r) => InLine(r, workCmds[r][1])

BInv ==
  undisturbed => /\ UnitsKnown /\ ClickRests
                 /\ \A r \in Routes : OneCommand(r)
                 /\ OrdersOwned /\ StartsInLine

-----------------------------------------------------------------------------
(* The units thread and the plant: a unit hears an order, or looks at its  *)
(* tags, or its contactor follows.                                         *)

Same(w) == /\ out'[w] = out[w] /\ due'[w] = due[w] /\ sensed'[w] = sensed[w]
           /\ mode'[w] = mode[w] /\ eng'[w] = eng[w] /\ routeCommand'[w] = routeCommand[w]

OwnStep(u) ==
  /\ UNCHANGED <<held, alarm>>
  /\ \A w \in Units : mayReset[w] => mayReset'[w]
  /\ \A w \in Units \ {u} : Same(w)
  /\ Known(u)' /\ Sensible(u)' /\ Untroubled(u)'

(* The answer x says whether u does what the start n asks of it.           *)
Truthful(u, x, n) ==
  /\ x = n <=> routeCommand'[u] = n
  /\ x = n => Steady(u, n)'

Heard(u) ==
  /\ unitQ # <<>> /\ unitQ' = Tail(unitQ) /\ Head(unitQ).un = u
  /\ \E x \in RouteCommands :
       /\ routeQ' \in {routeQ, routeQ \o informToRoute(u, x)}
       /\ Head(unitQ).cmd \in Begins /\ Rest(u) =>
            routeQ' = routeQ \/ Truthful(u, x, Head(unitQ).cmd)

Looked(u) ==
  /\ unitQ' = unitQ /\ ~Rest(u)
  /\ \A n \in Begins : /\ Steady(u, n) => Steady(u, n)'
                       /\ routeCommand'[u] = n => routeCommand[u] = n
  /\ \E x \in RouteCommands :
       /\ routeQ' \in {routeQ, routeQ \o informToRoute(u, x)}
       /\ \A n \in Begins : routeQ' = routeQ \/ Truthful(u, x, n)

LEMMA ContactorStarts ==
  ASSUME TypeOK, UnitsKnown, NEW u \in Units, Contactor(u)
  PROVE  OwnStep(u) /\ Looked(u)
<1>1. /\ UNCHANGED <<held, routeCommand, mode, eng, out, alarm, unitQ, routeQ>>
      /\ hasEngine(u) /\ out[u] # (sensed[u] = "yes")
      /\ sensed' = [sensed EXCEPT ![u] = IF out[u] THEN "yes" ELSE "no"]
      /\ due' = [due EXCEPT ![u] = IF @ < MaxDue THEN @ + 1 ELSE @]
      /\ \A w \in Units : mayReset[w] => mayReset'[w]
  BY DEF Contactor, Report, TypeOK, PlantTypes
<1>2. /\ due \in [Units -> 0 .. MaxDue] /\ sensed \in [Units -> {"no", "mid", "yes"}]
      /\ out \in [Units -> BOOLEAN] /\ routeCommand \in [Units -> RouteCommands]
      /\ "RtCmNo" \in RouteCommands
  BY DEF TypeOK, PlantTypes, HeldTypes, RouteCommands
<1>3. due'[u] > 0
  BY <1>1, <1>2 DEF MaxDue
<1>4. ~Rest(u) /\ ~Rest(u)' /\ \A n : ~Steady(u, n)
  BY <1>1, <1>2, <1>3 DEF Rest, Steady
<1>5. OwnStep(u)
  <2>1. \A w \in Units \ {u} : Same(w)
    BY <1>1, <1>2 DEF Same
  <2>2. Known(u)'
    BY <1>4 DEF Known
  <2>3. Sensible(u)' /\ Untroubled(u)'
    BY <1>1 DEF UnitsKnown, Sensible, Untroubled, held
  <2> QED
    BY <1>1, <2>1, <2>2, <2>3 DEF OwnStep
<1>6. Looked(u)
  BY <1>1, <1>2, <1>4 DEF Looked
<1> QED
  BY <1>5, <1>6

LEMMA ObserveStarts ==
  ASSUME TypeOK, UnitsKnown, UnitsRest, NEW u \in Units, Observe(u)
  PROVE  OwnStep(u) /\ Looked(u)
<1>0. /\ due \in [Units -> 0 .. MaxDue] /\ sensed \in [Units -> {"no", "mid", "yes"}]
      /\ out \in [Units -> BOOLEAN] /\ routeCommand \in [Units -> RouteCommands]
      /\ mode \in [Units -> UnitModes] /\ eng \in [Units -> EngineStates]
      /\ "RtCmNo" \in RouteCommands /\ "RtCmNo" \notin Begins
  BY DEF TypeOK, PlantTypes, HeldTypes, RouteCommands, Begins
<1>1. /\ due[u] > 0 /\ UNCHANGED <<held, sensed, alarm, out, unitQ>>
      /\ due' = [due EXCEPT ![u] = @ - 1]
      /\ eng' = [eng EXCEPT ![u] = IF hasEngine(u) THEN engineState(u) ELSE @]
      /\ \/ \E m \in settledModes(u) : setCurrentMode(u, m)
         \/ settledModes(u) = {} /\ UNCHANGED <<mode, routeCommand, routeQ>>
      /\ \A w \in Units : mayReset[w] => mayReset'[w]
  BY DEF Observe, plant, TypeOK, PlantTypes
<1>2. hasEngine(u) /\ ~alarm[u] /\ mayReset'[u]
  BY <1>0, <1>1 DEF UnitsKnown, Untroubled
<1>3. ~Rest(u)
  BY <1>0, <1>1 DEF Rest
<1>4. /\ routeMode' = routeMode /\ sensed[u] # "mid"
      /\ eng'[u] = engineState(u)
      /\ \A w \in Units \ {u} : due'[w] = due[w] /\ eng'[w] = eng[w]
  BY <1>0, <1>1, <1>2 DEF UnitsRest, held
<1> DEFINE on == out[u] /\ sensed[u] = "yes"
           off == ~out[u] /\ sensed[u] = "no"
<1>5. /\ on => engineState(u) = "EngForvard" /\ settledModes(u) = {"UnMdStart"}
      /\ off => engineState(u) = "EngStoped" /\ settledModes(u) = {"UnMdStop"}
      /\ ~on /\ ~off => settledModes(u) \subseteq {"UnMdNoDef"}
      /\ on \/ off <=> (out[u] <=> sensed[u] = "yes")
  BY <1>0, <1>2, <1>4 DEF settledModes, engineState
<1>6. CASE settledModes(u) = {} /\ UNCHANGED <<mode, routeCommand, routeQ>>
  <2>1. ~on /\ ~off
    BY <1>5, <1>6
  <2>2. OwnStep(u)
    BY <1>0, <1>1, <1>2, <1>4, <1>5, <1>6, <2>1
    DEF OwnStep, Same, Known, Rest, Sensible, UnitsKnown, Untroubled
  <2>3. Looked(u)
    BY <1>0, <1>1, <1>2, <1>3, <1>5, <1>6, <2>1 DEF Looked, Steady
  <2> QED
    BY <2>2, <2>3
<1>7. ASSUME NEW m \in settledModes(u), setCurrentMode(u, m)
      PROVE  OwnStep(u) /\ Looked(u)
  <2> DEFINE c == routeCommand[u]
             reached == icvalModes(ModeOfCommand(u, m, c), m)
  <2>1. /\ mode' = [mode EXCEPT ![u] = m]
        /\ routeCommand' = IF myRoute[u] # NoRoute /\ ~reached
                           THEN [routeCommand EXCEPT ![u] = "RtCmNo"] ELSE routeCommand
        /\ routeQ' = IF reached THEN routeQ \o informToRoute(u, c)
                     ELSE routeQ \o informToRoute(u, "RtCmNo")
    BY <1>2, <1>7 DEF setCurrentMode
  <2>2. c \in RouteCommands /\ m \in {"UnMdStart", "UnMdStop", "UnMdNoDef"}
    BY <1>0, <1>5, <1>7
  <2>3. ASSUME c \in Begins
        PROVE  /\ reached <=> routeMode[u] = m
               /\ routeMode[u] \in {"UnMdStart", "UnMdStop"}
               /\ reached => (on /\ m = "UnMdStart") \/ (off /\ m = "UnMdStop")
    <3>1. ModeOfCommand(u, m, c) = routeMode[u] /\ routeMode[u] \in {"UnMdStart", "UnMdStop"}
      BY <1>2, <2>3 DEF ModeOfCommand, Begins, UnitsKnown, Sensible
    <3>2. reached <=> routeMode[u] = m
      BY <2>2, <3>1 DEF icvalModes
    <3> QED
      BY <1>5, <1>7, <3>1, <3>2
  <2>4. ASSUME NEW n \in Begins, Steady(u, n)
        PROVE  c = n /\ reached
    <3>1. /\ c = n /\ (on \/ off)
          /\ routeMode[u] = IF out[u] THEN "UnMdStart" ELSE "UnMdStop"
      BY <1>2, <1>5, <2>4 DEF Steady
    <3>2. routeMode[u] = m
      BY <1>5, <1>7, <3>1
    <3> QED
      BY <2>3, <3>1, <3>2
  <2> HIDE DEF reached
  <2>5. /\ routeCommand'[u] \in {c, "RtCmNo"} /\ (reached => routeCommand'[u] = c)
        /\ myRoute[u] # NoRoute /\ ~reached => routeCommand'[u] = "RtCmNo"
        /\ mode'[u] = m
        /\ \A w \in Units \ {u} : mode'[w] = mode[w] /\ routeCommand'[w] = routeCommand[w]
    BY <1>0, <2>1
  <2>6. OwnStep(u)
    <3>1. \A w \in Units \ {u} : Same(w)
      BY <1>1, <1>4, <2>5 DEF Same
    <3>2. Known(u)'
      BY <1>1, <1>4, <1>5, <1>7, <2>5 DEF Known, Rest
    <3>3. Sensible(u)'
      BY <1>0, <1>4, <2>5 DEF UnitsKnown, Sensible
    <3> QED
      BY <1>1, <1>2, <3>1, <3>2, <3>3 DEF OwnStep, Untroubled
  <2>7. ASSUME NEW n \in Begins, routeCommand'[u] = n, reached PROVE Steady(u, n)'
    BY <1>0, <1>1, <1>4, <2>3, <2>5, <2>7 DEF Steady
  <2>8. ASSUME NEW n \in Begins
        PROVE  /\ Steady(u, n) => Steady(u, n)'
               /\ routeCommand'[u] = n => c = n
    BY <1>0, <2>4, <2>5, <2>7, <2>8
  <2>9. \E x \in RouteCommands :
           /\ routeQ' \in {routeQ, routeQ \o informToRoute(u, x)}
           /\ \A n \in Begins : routeQ' = routeQ \/ Truthful(u, x, n)
    <3>1. CASE reached
      <4>1. routeQ' = routeQ \o informToRoute(u, c) /\ routeCommand'[u] = c
        BY <2>1, <2>5, <3>1
      <4>2. \A n \in Begins : Truthful(u, c, n)
        BY <2>7, <3>1, <4>1 DEF Truthful
      <4> QED
        BY <2>2, <4>1, <4>2
    <3>2. CASE ~reached
      <4>1. routeQ' = routeQ \o informToRoute(u, "RtCmNo")
        BY <2>1, <3>2
      <4>2. CASE myRoute[u] = NoRoute
        <5>1. informToRoute(u, "RtCmNo") = <<>> /\ routeQ \in Seq(Events)
          BY <4>2 DEF informToRoute, TypeOK, QueueTypes
        <5>2. routeQ' = routeQ
          BY <4>1, <5>1
        <5> QED
          BY <1>0, <5>2
      <4>3. CASE myRoute[u] # NoRoute
        <5>1. \A n \in Begins : Truthful(u, "RtCmNo", n)
          BY <1>0, <2>5, <3>2, <4>3 DEF Truthful
        <5> QED
          BY <1>0, <4>1, <5>1
      <4> QED
        BY <4>2, <4>3
    <3> QED
      BY <3>1, <3>2
  <2>10. Looked(u)
    BY <1>1, <1>3, <2>8, <2>9 DEF Looked
  <2> QED
    BY <2>6, <2>10
<1> QED
  BY <1>1, <1>6, <1>7

LEMMA CommandStarts ==
  ASSUME TypeOK, UnitsKnown, commandFromRoute
  PROVE  \E u \in Units : OwnStep(u) /\ Heard(u)
<1>0. /\ due \in [Units -> 0 .. MaxDue] /\ sensed \in [Units -> {"no", "mid", "yes"}]
      /\ out \in [Units -> BOOLEAN] /\ routeCommand \in [Units -> RouteCommands]
      /\ mode \in [Units -> UnitModes] /\ eng \in [Units -> EngineStates]
      /\ "RtCmNo" \in RouteCommands /\ "RtCmNo" \notin Begins
      /\ unitQ \in Seq(UnitCommands) /\ routeQ \in Seq(Events)
  BY DEF TypeOK, PlantTypes, HeldTypes, QueueTypes, RouteCommands, Begins
<1>1. PICK u \in Units, c \in RouteCommands :
        /\ unitQ # <<>> /\ Head(unitQ).un = u /\ Head(unitQ).cmd = c
        /\ \/ myRoute[u] = NoRoute /\ Ignore
           \/ myRoute[u] # NoRoute /\ routeCommand[u] = c /\ RepeatCommand(u, c)
           \/ myRoute[u] # NoRoute /\ routeCommand[u] # c /\ AcceptCommand(u, c)
  <2>1. unitQ # <<>>
    BY DEF commandFromRoute
  <2>2. Head(unitQ) \in UnitCommands
    BY <1>0, <2>1
  <2>3. Head(unitQ).un \in Units /\ Head(unitQ).cmd \in RouteCommands
    BY <2>2 DEF UnitCommands
  <2> QED
    BY <2>1, <2>3, Zenon DEF commandFromRoute
<1>2. /\ unitQ' = Tail(unitQ) /\ UNCHANGED <<held, sensed, alarm, mayReset, mode, eng>>
      /\ UNCHANGED <<myRoute, routeMode>>
  BY DEF commandFromRoute, plant, held
<1>3. Known(u) /\ Sensible(u) /\ Untroubled(u)
  BY DEF UnitsKnown
<1>4. ASSUME UNCHANGED <<routeCommand, out, due>> PROVE OwnStep(u)
  BY <1>2, <1>3, <1>4 DEF OwnStep, Same, Known, Sensible, Untroubled, Rest
<1>5. ASSUME routeQ' = routeQ PROVE Heard(u)
  BY <1>0, <1>1, <1>2, <1>5 DEF Heard
<1>6. CASE myRoute[u] = NoRoute /\ Ignore
  BY <1>4, <1>5, <1>6 DEF Ignore
<1>7. CASE routeCommand[u] = c /\ RepeatCommand(u, c)
  <2>1. OwnStep(u)
    BY <1>4, <1>7 DEF RepeatCommand
  <2>2. ASSUME routeQ' # routeQ PROVE Heard(u)
    <3>1. /\ mode[u] = ModeOfCommand(u, mode[u], c) /\ routeQ' = routeQ \o informToRoute(u, c)
          /\ UNCHANGED <<routeCommand, out, due>>
      BY <1>7, <2>2 DEF RepeatCommand
    <3>2. ASSUME c \in Begins, Rest(u) PROVE Truthful(u, c, c)
      <4>1. mode[u] = routeMode[u]
        BY <3>1, <3>2 DEF ModeOfCommand, Begins
      <4>2. Steady(u, c)'
        BY <1>0, <1>1, <1>2, <1>3, <1>7, <3>1, <3>2, <4>1 DEF Steady, Known, Rest
      <4> QED
        BY <4>2 DEF Truthful, Steady
    <3> QED
      BY <1>1, <1>2, <3>1, <3>2 DEF Heard
  <2> QED
    BY <1>1, <1>5, <2>1, <2>2
<1>8. CASE routeCommand[u] # c /\ AcceptCommand(u, c)
  <2> DEFINE m == ModeOfCommand(u, mode[u], c)
             rs == setModeResp(u, m)
             value == outAfter(u, m)
  <2>1. /\ Write(u, value)
        /\ routeCommand' = IF rs = "Rejected" THEN routeCommand
                           ELSE [routeCommand EXCEPT ![u] = c]
        /\ routeQ' = CASE rs = "Rejected" -> routeQ \o informToRoute(u, "RtCmNo")
                       [] rs = "DoneAlready" -> routeQ \o informToRoute(u, c)
                       [] OTHER -> routeQ
    BY <1>8 DEF AcceptCommand
  <2>2. value \in BOOLEAN /\ (~hasEngine(u) => value = out[u])
    BY <1>0, <1>1 DEF outAfter
  <2>3. hasEngine(u) /\ rs # "Rejected" => m \in {"UnMdStart", "UnMdStop"}
    BY DEF setModeResp, LevelModes
  <2>4. c \in Begins => m = routeMode[u]
    BY DEF ModeOfCommand, Begins
  <2>5. ASSUME hasEngine(u), Rest(u), rs = "DoneAlready"
        PROVE  value = out[u] /\ m = IF out[u] THEN "UnMdStart" ELSE "UnMdStop"
    <3>1. \/ m = "UnMdStop" /\ eng[u] = "EngStoped"
          \/ m = "UnMdStart" /\ eng[u] = "EngForvard"
      BY <2>5 DEF setModeResp
    <3>2. IF out[u] THEN eng[u] = "EngForvard" ELSE eng[u] = "EngStoped"
      BY <1>3, <2>5 DEF Known
    <3> QED
      BY <1>0, <1>1, <2>5, <3>1, <3>2 DEF outAfter
  <2> HIDE DEF m, rs, value
  <2>6. /\ out' = [out EXCEPT ![u] = value]
        /\ due' = [due EXCEPT ![u] = IF value # out[u] THEN MaxDue ELSE @]
    BY <2>1 DEF Write
  <2>7. /\ \A w \in Units \ {u} : out'[w] = out[w] /\ due'[w] = due[w]
                                  /\ routeCommand'[w] = routeCommand[w]
        /\ out'[u] = value /\ due'[u] = IF value # out[u] THEN 2 ELSE due[u]
        /\ routeCommand'[u] = IF rs = "Rejected" THEN routeCommand[u] ELSE c
    BY <1>0, <1>1, <2>1, <2>6 DEF MaxDue
  <2>8. OwnStep(u)
    <3>1. \A w \in Units \ {u} : Same(w)
      BY <1>2, <2>7 DEF Same
    <3>2. Known(u)'
      BY <1>0, <1>1, <1>2, <1>3, <2>2, <2>7 DEF Known, Rest
    <3>3. Sensible(u)'
      BY <1>2, <1>3, <2>3, <2>4, <2>7 DEF Sensible
    <3>4. Untroubled(u)'
      BY <1>2, <1>3, <2>2, <2>7 DEF Untroubled
    <3> QED
      BY <1>2, <3>1, <3>2, <3>3, <3>4 DEF OwnStep
  <2>9. CASE rs = "Rejected"
    <3>1. routeQ' = routeQ \o informToRoute(u, "RtCmNo") /\ routeCommand'[u] # c
      BY <1>8, <2>1, <2>7, <2>9
    <3>2. c \in Begins => Truthful(u, "RtCmNo", c)
      BY <1>0, <3>1 DEF Truthful
    <3>3. Heard(u)
      BY <1>0, <1>1, <1>2, <3>1, <3>2 DEF Heard
    <3> QED
      BY <1>1, <2>8, <3>3
  <2>10. CASE rs = "DoneAlready"
    <3>1. routeQ' = routeQ \o informToRoute(u, c) /\ routeCommand'[u] = c
      BY <2>1, <2>7, <2>10
    <3>2. ASSUME c \in Begins, Rest(u) PROVE Truthful(u, c, c)
      <4>1. Steady(u, c)'
        BY <1>2, <2>4, <2>5, <2>7, <2>10, <3>1, <3>2 DEF Steady, Rest
      <4> QED
        BY <3>1, <4>1 DEF Truthful
    <3>3. Heard(u)
      BY <1>1, <1>2, <3>1, <3>2 DEF Heard
    <3> QED
      BY <1>1, <2>8, <3>3
  <2>11. CASE rs \notin {"Rejected", "DoneAlready"}
    BY <1>1, <1>5, <2>1, <2>8, <2>11
  <2> QED
    BY <2>9, <2>10, <2>11
<1> QED
  BY <1>1, <1>6, <1>7, <1>8

(* In an undisturbed line nothing but contactors moves by itself.          *)
LEMMA PlantStarts ==
  ASSUME TypeOK, UnitsKnown, UnitPlant, undisturbed'
  PROVE  \E u \in Units : Contactor(u)
<1>1. ~Disturb
  BY UnitConstants DEF Disturb, undisturbed, TypeOK, PlantTypes
<1>2. \A u \in Units : ~resetAlarm(u)
  BY DEF resetAlarm, UnitsKnown, Untroubled
<1> QED
  BY <1>1, <1>2 DEF UnitPlant, LevelChange, Rescan, Bounce, detectAlarm, UserSetMode

(* A step of a unit keeps the start of its route in line.                  *)
LEMMA UnitInLine ==
  ASSUME TypeOK, NEW u \in Units, OwnStep(u), Heard(u) \/ Looked(u),
         NEW r \in Routes, UNCHANGED unitList, NEW c \in RouteCmds, c.name \in Begins,
         InLine(r, c),
         \A i \in DOMAIN unitList[r] : unitList[r][i].un \in Units
  PROVE  InLine(r, c)'
<1>1. /\ unitQ \in Seq(UnitCommands) /\ routeQ \in Seq(Events)
      /\ UNCHANGED routeMode
  BY DEF TypeOK, QueueTypes, OwnStep, held
<1>2. PICK x \in RouteCommands :
        /\ routeQ' \in {routeQ, routeQ \o informToRoute(u, x)}
        /\ Heard(u) /\ Head(unitQ).cmd \in Begins /\ Rest(u) =>
             routeQ' = routeQ \/ Truthful(u, x, Head(unitQ).cmd)
        /\ ~Heard(u) => \A n \in Begins : routeQ' = routeQ \/ Truthful(u, x, n)
  BY DEF Heard, Looked
<1>3. \A k \in DOMAIN routeQ' :
        \/ k \in DOMAIN routeQ /\ routeQ'[k] = routeQ[k]
        \/ /\ k \notin DOMAIN routeQ /\ routeQ' # routeQ
           /\ routeQ'[k] = [ev |-> "Inform", rt |-> myRoute[u], un |-> u, arg |-> x]
  <2>1. routeQ \in Seq(Events)
    BY <1>1
  <2>2. routeQ' \in {routeQ, routeQ \o informToRoute(u, x)}
    BY <1>2
  <2> QED
    BY <2>1, <2>2, AnswerAdded
<1>4. \A w \in Units \ {u} : /\ Rest(w)' <=> Rest(w)
                             /\ Steady(w, c.name)' <=> Steady(w, c.name)
                             /\ routeCommand'[w] = routeCommand[w]
  BY <1>1 DEF OwnStep, Same, Rest, Steady
<1>5. /\ BehindSteady(r, c) /\ AheadRests(r, c) /\ AnswersTrue(r, c) /\ OrdersNext(r, c)
      /\ Heading(r, c)
  BY DEF InLine
<1>6. ASSUME Heard(u)
      PROVE  /\ 1 \in DOMAIN unitQ /\ unitQ[1] = Head(unitQ) /\ unitQ[1].un = u
             /\ \A k \in DOMAIN unitQ' : k + 1 \in DOMAIN unitQ /\ k + 1 # 1 /\ k \in Nat
                                         /\ unitQ'[k] = unitQ[k + 1]
  <2> DEFINE t == unitQ'
  <2>1. unitQ # <<>> /\ t = Tail(unitQ) /\ Head(unitQ).un = u
    BY <1>6 DEF Heard
  <2> HIDE DEF t
  <2>2. /\ 1 \in DOMAIN unitQ /\ unitQ[1] = Head(unitQ)
        /\ \A k \in DOMAIN t : k \in Nat /\ k > 0 /\ k + 1 \in DOMAIN unitQ /\ t[k] = unitQ[k + 1]
    BY <1>1, <2>1, TailQueue
  <2>3. \A k \in DOMAIN t : k + 1 \in DOMAIN unitQ /\ k + 1 # 1 /\ k \in Nat /\ t[k] = unitQ[k + 1]
    BY <2>2
  <2> QED
    BY <2>1, <2>2, <2>3 DEF t
(* The unit itself, if it is in the list. *)
<1>7. ASSUME NEW i \in DOMAIN unitList[r], unitList[r][i].un = u, Heard(u)
      PROVE  /\ i - 1 = c.last - 1 /\ Rest(u)
             /\ routeQ' = routeQ \/ Truthful(u, x, c.name)
             /\ \A l \in DOMAIN unitQ : unitQ[l].un = u => l = 1
             /\ \A l \in DOMAIN routeQ : ~From(routeQ[l], r, u)
  <2>1. /\ i - 1 = c.last - 1 /\ unitQ[1].cmd = c.name /\ Rest(u)
        /\ \A l \in DOMAIN unitQ : unitQ[l].un = u => l = 1
        /\ \A l \in DOMAIN routeQ : ~From(routeQ[l], r, u)
    BY <1>5, <1>6, <1>7 DEF OrdersNext
  <2> QED
    BY <1>2, <1>6, <1>7, <2>1
<1>8. ASSUME ~Heard(u)
      PROVE  /\ ~Rest(u) /\ unitQ' = unitQ
             /\ Steady(u, c.name) => Steady(u, c.name)'
             /\ routeCommand'[u] = c.name => routeCommand[u] = c.name
             /\ routeQ' = routeQ \/ Truthful(u, x, c.name)
  BY <1>2, <1>8 DEF Looked
<1>9. c.last \in Int /\ \A i \in DOMAIN unitList[r] : i \in Nat
  BY DEF RouteCmds, TypeOK, ListTypes
<1>10. BehindSteady(r, c)'
  <2> SUFFICES ASSUME NEW i \in DOMAIN unitList[r], i - 1 >= c.last
               PROVE  Steady(unitList[r][i].un, c.name)'
    BY DEF BehindSteady
  <2> DEFINE w == unitList[r][i].un
  <2>1. Steady(w, c.name) /\ w \in Units
    BY <1>5 DEF BehindSteady
  <2>2. CASE w # u
    BY <1>4, <2>1, <2>2
  <2>3. CASE w = u
    <3>1. ~Heard(u)
      BY <1>7, <1>9, <2>3
    <3> QED
      BY <1>8, <2>1, <2>3, <3>1
  <2> QED
    BY <2>2, <2>3
<1>11. AheadRests(r, c)'
  <2> SUFFICES ASSUME NEW i \in DOMAIN unitList[r], i - 1 < c.last - 1
               PROVE  Rest(unitList[r][i].un)'
    BY DEF AheadRests
  <2> DEFINE w == unitList[r][i].un
  <2>1. Rest(w) /\ w \in Units
    BY <1>5 DEF AheadRests
  <2>2. w # u
    <3>1. ASSUME w = u PROVE ~Heard(u)
      BY <1>7, <1>9, <3>1
    <3> QED
      BY <1>8, <2>1, <3>1
  <2> QED
    BY <1>4, <2>1, <2>2
<1>12. AnswersTrue(r, c)'
  <2> SUFFICES ASSUME NEW k \in DOMAIN routeQ', NEW i \in DOMAIN unitList[r],
                      NEW w \in Units, w = unitList[r][i].un, From(routeQ'[k], r, w)
               PROVE  /\ i - 1 >= c.last - 1
                      /\ routeQ'[k].arg = c.name <=> routeCommand'[w] = c.name
                      /\ routeQ'[k].arg = c.name => Steady(w, c.name)'
    BY DEF AnswersTrue, From
  <2>1. CASE k \in DOMAIN routeQ /\ routeQ'[k] = routeQ[k]
    <3>1. /\ i - 1 >= c.last - 1
          /\ routeQ'[k].arg = c.name <=> routeCommand[w] = c.name
          /\ routeQ'[k].arg = c.name => Steady(w, c.name)
      BY <1>5, <2>1 DEF AnswersTrue
    <3>2. CASE w # u
      BY <1>4, <3>1, <3>2
    <3>3. CASE w = u
      <4>1. ~Heard(u)
        BY <1>7, <2>1, <3>3
      <4>2. /\ Steady(u, c.name) => Steady(u, c.name)'
            /\ routeCommand'[u] = c.name => routeCommand[u] = c.name
        BY <1>8, <4>1
      <4>3. Steady(u, c.name)' => routeCommand'[u] = c.name
        BY DEF Steady
      <4> QED
        BY <3>1, <3>3, <4>2, <4>3
    <3> QED
      BY <3>2, <3>3
  <2>2. CASE /\ routeQ' # routeQ
             /\ routeQ'[k] = [ev |-> "Inform", rt |-> myRoute[u], un |-> u, arg |-> x]
    <3>1. w = u /\ routeQ'[k].arg = x
      BY <2>2 DEF From
    <3>2. Truthful(u, x, c.name)
      BY <1>7, <1>8, <2>2, <3>1
    <3>3. i - 1 >= c.last - 1
      <4>1. CASE Heard(u)
        <5>1. i - 1 = c.last - 1
          BY <1>7, <3>1, <4>1
        <5> QED
          BY <1>9, <5>1
      <4>2. CASE ~Heard(u)
        <5>1. ~(i - 1 < c.last - 1)
          BY <1>5, <1>8, <3>1, <4>2 DEF AheadRests
        <5> QED
          BY <1>9, <5>1
      <4> QED
        BY <4>1, <4>2
    <3> QED
      BY <3>1, <3>2, <3>3 DEF Truthful
  <2> QED
    BY <1>3, <2>1, <2>2
<1>13. OrdersNext(r, c)'
  <2> SUFFICES ASSUME NEW k \in DOMAIN unitQ', NEW i \in DOMAIN unitList[r],
                      unitQ'[k].un = unitList[r][i].un,
                      NEW w \in Units, w = unitList[r][i].un
               PROVE  /\ i - 1 = c.last - 1 /\ unitQ'[k].cmd = c.name /\ ~c.finCmd
                      /\ Rest(w)'
                      /\ \A l \in DOMAIN unitQ' : unitQ'[l].un = w => l = k
                      /\ \A l \in DOMAIN routeQ' : ~From(routeQ'[l], r, w)
    BY DEF OrdersNext, From, Rest
  <2>1. ASSUME NEW n \in DOMAIN unitQ, unitQ[n] = unitQ'[k]
        PROVE  /\ i - 1 = c.last - 1 /\ unitQ'[k].cmd = c.name /\ ~c.finCmd
               /\ Rest(w)
               /\ \A l \in DOMAIN unitQ : unitQ[l].un = w => l = n
               /\ \A l \in DOMAIN routeQ : ~From(routeQ[l], r, w)
    BY <1>5, <2>1 DEF OrdersNext
  <2>2. /\ w # u
        /\ \A l \in DOMAIN unitQ' : unitQ'[l].un = w => l = k
        /\ \E n \in DOMAIN unitQ : unitQ[n] = unitQ'[k]
    <3>1. CASE Heard(u)
      <4>1. k + 1 \in DOMAIN unitQ /\ unitQ[k + 1] = unitQ'[k] /\ k + 1 # 1 /\ k \in Nat
        BY <1>6, <3>1
      <4>2. \A l \in DOMAIN unitQ : unitQ[l].un = w => l = k + 1
        BY <2>1, <4>1
      <4>3. w # u
        BY <1>6, <3>1, <4>1, <4>2
      <4>4. ASSUME NEW l \in DOMAIN unitQ', unitQ'[l].un = w PROVE l = k
        <5>1. l + 1 \in DOMAIN unitQ /\ unitQ[l + 1] = unitQ'[l] /\ l \in Nat
          BY <1>6, <3>1
        <5>2. l + 1 = k + 1
          BY <4>2, <4>4, <5>1
        <5> QED
          BY <4>1, <5>1, <5>2
      <4> QED
        BY <4>1, <4>3, <4>4
    <3>2. CASE ~Heard(u)
      BY <1>8, <2>1, <3>2
    <3> QED
      BY <3>1, <3>2
  <2>3. \A l \in DOMAIN routeQ' : ~From(routeQ'[l], r, w)
    BY <1>3, <2>1, <2>2 DEF From
  <2> QED
    BY <1>4, <2>1, <2>2, <2>3
<1>14. Heading(r, c)'
  BY <1>5 DEF Heading
<1> QED
  BY <1>10, <1>11, <1>12, <1>13, <1>14 DEF InLine

LEMMA UnitsBegin ==
  ASSUME FixedInv, BInv, undisturbed, NEW u \in Units, OwnStep(u), Heard(u) \/ Looked(u),
         UNCHANGED routeVars
  PROVE  BInv'
<1>1. /\ TypeOK /\ unitQ \in Seq(UnitCommands) /\ routeQ \in Seq(Events)
      /\ workCmds \in [Routes -> Seq(RouteCmds)]
      /\ UNCHANGED <<unitList, workCmds, queueCmds>>
      /\ UNCHANGED <<myRoute, routeMode, alarm>>
  BY DEF FixedInv, IInv, TypeOK, QueueTypes, CommandTypes, OwnStep, held, routeVars
<1>2. /\ UnitsKnown /\ ClickRests /\ OrdersOwned /\ StartsInLine
      /\ \A r \in Routes : OneCommand(r)
  BY DEF BInv
<1>3. UnitsKnown'
  <2> SUFFICES ASSUME NEW w \in Units PROVE Known(w)' /\ Sensible(w)' /\ Untroubled(w)'
    BY DEF UnitsKnown
  <2>1. CASE w = u
    BY <2>1 DEF OwnStep
  <2>2. CASE w # u
    BY <1>1, <1>2, <2>2 DEF OwnStep, Same, UnitsKnown, Known, Rest, Sensible, Untroubled
  <2> QED
    BY <2>1, <2>2
<1>4. ~clicked
  BY <1>2 DEF ClickRests, Heard, Looked
<1>5. ~clicked'
  <2>1. PICK x \in RouteCommands : routeQ' \in {routeQ, routeQ \o informToRoute(u, x)}
    BY DEF Heard, Looked
  <2>2. \A k \in DOMAIN routeQ' :
          (k \in DOMAIN routeQ /\ routeQ'[k] = routeQ[k]) \/ routeQ'[k].ev = "Inform"
    <3>1. \A k \in DOMAIN routeQ' :
            \/ k \in DOMAIN routeQ /\ routeQ'[k] = routeQ[k]
            \/ /\ k \notin DOMAIN routeQ /\ routeQ' # routeQ
               /\ routeQ'[k] = [ev |-> "Inform", rt |-> myRoute[u], un |-> u, arg |-> x]
      <4>1. routeQ \in Seq(Events)
        BY <1>1
      <4> QED
        BY <2>1, <4>1, AnswerAdded
    <3> QED
      BY <3>1
  <2>3. routeQ' # <<>> => 1 \in DOMAIN routeQ' /\ Head(routeQ') = routeQ'[1]
    BY <1>1, <2>1, InformTypes DEF TypeOK
  <2>4. 1 \in DOMAIN routeQ => routeQ # <<>> /\ Head(routeQ) = routeQ[1]
    BY <1>1
  <2> QED
    BY <1>4, <2>2, <2>3, <2>4 DEF clicked
<1>6. \A r \in Routes : OneCommand(r)'
  BY <1>1, <1>2 DEF OneCommand, working
<1>7. \A r \in Routes : starting(r)' <=> starting(r)
  BY <1>1 DEF starting, working
<1>8. OrdersOwned'
  <2> DEFINE q == unitQ'
  <2>1. q = unitQ \/ (unitQ # <<>> /\ q = Tail(unitQ))
    BY DEF Heard, Looked
  <2> HIDE DEF q
  <2>2. \A k \in DOMAIN q : \E n \in DOMAIN unitQ : unitQ[n] = q[k]
    <3>1. CASE q = unitQ
      BY <3>1
    <3>2. CASE unitQ # <<>> /\ q = Tail(unitQ)
      <4>1. \A k \in DOMAIN q : k \in Nat /\ k > 0 /\ k + 1 \in DOMAIN unitQ /\ q[k] = unitQ[k + 1]
        BY <1>1, <3>2, TailQueue
      <4> QED
        BY <4>1
    <3> QED
      BY <2>1, <3>1, <3>2
  <2>3. \A k \in DOMAIN q :
          q[k].cmd \in Quits \/ \E r \in Routes : starting(r) /\ q[k].un \in unitsOf(r)
    BY <1>2, <2>2 DEF OrdersOwned
  <2>4. \A r \in Routes : (starting(r)' /\ unitsOf(r)' = unitsOf(r)) \/ ~starting(r)
    BY <1>1, <1>7 DEF unitsOf
  <2> QED
    BY <2>3, <2>4 DEF q, OrdersOwned
<1>9. StartsInLine'
  <2> SUFFICES ASSUME NEW r \in Routes, starting(r), NEW c, c = workCmds[r][1]
               PROVE  InLine(r, c)'
    BY <1>1, <1>7 DEF StartsInLine
  <2>1. InLine(r, c) /\ c.name \in Begins
    BY <1>2 DEF StartsInLine, starting
  <2>2. c \in RouteCmds
    BY <1>1 DEF starting, working
  <2>3. \A i \in DOMAIN unitList[r] : unitList[r][i].un \in Units
    BY HeldUnit
  <2> QED
    BY <1>1, <2>1, <2>2, <2>3, UnitInLine
<1> QED
  BY <1>3, <1>5, <1>6, <1>8, <1>9 DEF BInv, ClickRests

-----------------------------------------------------------------------------
(* The routes thread.                                                      *)

(* A start whose command, units, answers and orders stay is still in line. *)
LEMMA InLineKept ==
  ASSUME NEW r, NEW c, InLine(r, c), UNCHANGED <<unitList, out, due, sensed>>,
         \A i \in DOMAIN unitList[r] :
           /\ routeCommand'[unitList[r][i].un] = routeCommand[unitList[r][i].un]
           /\ routeMode'[unitList[r][i].un] = routeMode[unitList[r][i].un],
         \A k \in DOMAIN routeQ' : \E n \in DOMAIN routeQ : routeQ[n] = routeQ'[k],
         \A k \in DOMAIN unitQ', i \in DOMAIN unitList[r] :
           unitQ'[k].un = unitList[r][i].un => k \in DOMAIN unitQ /\ unitQ'[k] = unitQ[k]
  PROVE  InLine(r, c)'
<1>1. /\ BehindSteady(r, c) /\ AheadRests(r, c) /\ AnswersTrue(r, c) /\ OrdersNext(r, c)
      /\ Heading(r, c)
  BY DEF InLine
<1>2. Heading(r, c)' /\ BehindSteady(r, c)' /\ AheadRests(r, c)'
  BY <1>1 DEF Heading, BehindSteady, AheadRests, Steady, Rest
<1>3. AnswersTrue(r, c)'
  <2> SUFFICES ASSUME NEW k \in DOMAIN routeQ', NEW i \in DOMAIN unitList[r],
                      NEW w, w = unitList[r][i].un, From(routeQ'[k], r, w)
               PROVE  /\ i - 1 >= c.last - 1
                      /\ routeQ'[k].arg = c.name <=> routeCommand'[w] = c.name
                      /\ routeQ'[k].arg = c.name => Steady(w, c.name)'
    BY DEF AnswersTrue, From
  <2>1. PICK n \in DOMAIN routeQ : routeQ[n] = routeQ'[k]
    OBVIOUS
  <2>2. /\ i - 1 >= c.last - 1
        /\ routeQ[n].arg = c.name <=> routeCommand[w] = c.name
        /\ routeQ[n].arg = c.name => Steady(w, c.name)
    BY <1>1, <2>1 DEF AnswersTrue
  <2>3. Steady(w, c.name) => Steady(w, c.name)'
    BY DEF Steady
  <2> QED
    BY <2>1, <2>2, <2>3
<1>4. OrdersNext(r, c)'
  <2> SUFFICES ASSUME NEW k \in DOMAIN unitQ', NEW i \in DOMAIN unitList[r],
                      unitQ'[k].un = unitList[r][i].un,
                      NEW w, w = unitList[r][i].un
               PROVE  /\ i - 1 = c.last - 1 /\ unitQ'[k].cmd = c.name /\ ~c.finCmd
                      /\ Rest(w)'
                      /\ \A l \in DOMAIN unitQ' : unitQ'[l].un = w => l = k
                      /\ \A l \in DOMAIN routeQ' : ~From(routeQ'[l], r, w)
    BY DEF OrdersNext, From, Rest
  <2>1. k \in DOMAIN unitQ /\ unitQ'[k] = unitQ[k]
    OBVIOUS
  <2>2. /\ i - 1 = c.last - 1 /\ unitQ'[k].cmd = c.name /\ ~c.finCmd
        /\ Rest(w)
        /\ \A l \in DOMAIN unitQ : unitQ[l].un = w => l = k
        /\ \A l \in DOMAIN routeQ : ~From(routeQ[l], r, w)
    BY <1>1, <2>1 DEF OrdersNext
  <2>3. \A l \in DOMAIN unitQ' : unitQ'[l].un = w => l = k
    BY <2>2
  <2>4. \A l \in DOMAIN routeQ' : ~From(routeQ'[l], r, w)
    BY <2>2 DEF From
  <2> QED
    BY <2>2, <2>3, <2>4 DEF Rest
<1> QED
  BY <1>2, <1>3, <1>4 DEF InLine

LEMMA AnswersLeft ==
  ASSUME FixedInv, NEW p, RouteStep(p)
  PROVE  \A k \in DOMAIN routeQ' : \E n \in DOMAIN routeQ : routeQ[n] = routeQ'[k]
  BY QueueTaken

(* What becomes of the other routes.                                       *)
LEMMA ElseBegins ==
  ASSUME FixedInv, Owned', NEW p \in Routes, RouteStep(p),
         NEW r \in Routes, r # p, starting(r), NEW c, c = workCmds[r][1], InLine(r, c)
  PROVE  InLine(r, c)'
<1>1. /\ unitQ \in Seq(UnitCommands) /\ UNCHANGED <<unitList, out, due, sensed>>
      /\ workCmds'[r] = workCmds[r] /\ NoRoute # r
  BY UnitConstants DEF FixedInv, IInv, TypeOK, QueueTypes, RouteStep, others
<1>2. working(r) /\ working(r)' /\ unitsOf(r)' = unitsOf(r) /\ unitsOf(p)' = unitsOf(p)
  BY <1>1 DEF starting, working, unitsOf
<1>3. \A w \in unitsOf(r) : myRoute[w] = r /\ myRoute'[w] = r
  BY <1>2 DEF FixedInv, Owned
<1>4. \A i \in DOMAIN unitList[r] : unitList[r][i].un \in Units /\ unitList[r][i].un \in unitsOf(r)
  BY HeldUnit
<1>5. \A i \in DOMAIN unitList[r] :
        /\ routeCommand'[unitList[r][i].un] = routeCommand[unitList[r][i].un]
        /\ routeMode'[unitList[r][i].un] = routeMode[unitList[r][i].un]
  BY <1>1, <1>3, <1>4 DEF RouteStep, Handed, UnitKept
<1>6. \A k \in DOMAIN unitQ', i \in DOMAIN unitList[r] :
        unitQ'[k].un = unitList[r][i].un => k \in DOMAIN unitQ /\ unitQ'[k] = unitQ[k]
  <2>1. CASE unitQ' = unitQ
    BY <2>1
  <2>2. CASE unitQ' # unitQ
    <3> DEFINE q == unitQ'
    <3>1. PICK s \in Seq(UnitCommands) : q = unitQ \o s /\ \A k \in DOMAIN s : s[k].un \in unitsOf(p)
      BY DEF RouteStep, Addresses
    <3>2. \A u \in unitsOf(p) : u \notin unitsOf(r)
      <4>1. working(p)'
        BY <2>2 DEF RouteStep, working
      <4>2. \A u \in unitsOf(p) : myRoute'[u] = p
        BY <1>2, <4>1 DEF Owned
      <4> QED
        BY <1>3, <4>2
    <3> HIDE DEF q
    <3>3. /\ \A k \in DOMAIN unitQ : k \in DOMAIN q /\ q[k] = unitQ[k]
          /\ \A k \in DOMAIN q : k \in DOMAIN unitQ \/ q[k].un \in unitsOf(p)
      BY <1>1, <3>1, ConcatQueue
    <3>4. \A k \in DOMAIN q, i \in DOMAIN unitList[r] :
            q[k].un = unitList[r][i].un => k \in DOMAIN unitQ /\ q[k] = unitQ[k]
      BY <1>4, <3>2, <3>3
    <3> QED
      BY <3>4 DEF q
  <2> QED
    BY <2>1, <2>2
<1> QED
  BY <1>1, <1>5, <1>6, AnswersLeft, InLineKept

(* The whole invariant from what becomes of the route p.                   *)
LEMMA RouteBegins ==
  ASSUME FixedInv, WInv, BInv, undisturbed, Owned', NEW p \in Routes, RouteStep(p),
         OneCommand(p)',
         NEW d, starting(p)' => d = workCmds'[p][1] /\ InLine(p, d)',
         \A k \in DOMAIN unitQ' :
           \/ k \in DOMAIN unitQ /\ unitQ'[k] = unitQ[k]
           \/ unitQ'[k].cmd \in Quits
           \/ starting(p)' /\ unitQ'[k].un \in unitsOf(p),
         starting(p) /\ ~starting(p)' =>
           \A k \in DOMAIN unitQ : unitQ[k].un \notin unitsOf(p)
  PROVE  BInv'
<1>1. /\ UNCHANGED <<others, unitList, mode, eng, out, due, sensed, alarm, mayReset>>
      /\ \A q \in Routes \ {p} : workCmds'[q] = workCmds[q] /\ queueCmds'[q] = queueCmds[q]
  BY DEF RouteStep, others
<1>2. /\ UnitsKnown /\ OrdersOwned /\ StartsInLine
      /\ \A r \in Routes : OneCommand(r)
  BY DEF BInv
<1>3. UnitsKnown'
  <2>1. \A u \in Units : routeCommand'[u] = "RtCmNo"
                         \/ (routeMode'[u] = routeMode[u] /\ routeCommand'[u] = routeCommand[u])
    BY DEF RouteStep, Handed, UnitKept
  <2>2. "RtCmNo" \notin Begins
    BY DEF Begins
  <2> QED
    BY <1>1, <1>2, <2>1, <2>2 DEF UnitsKnown, Known, Rest, Sensible, Untroubled
<1>4. ClickRests'
  BY ClickTaken DEF ClickRests
<1>5. \A r \in Routes : OneCommand(r)'
  BY <1>1, <1>2 DEF OneCommand, working
<1>6. \A r \in Routes \ {p} : starting(r)' <=> starting(r)
  BY <1>1 DEF starting, working
<1>7. OrdersOwned'
  <2>1. \A r \in Routes : unitsOf(r)' = unitsOf(r)
    BY <1>1 DEF unitsOf
  <2>2. \A k \in DOMAIN unitQ' :
          \/ unitQ'[k].cmd \in Quits
          \/ \E r \in Routes : starting(r)' /\ unitQ'[k].un \in unitsOf(r)
    BY <1>2, <1>6 DEF OrdersOwned
  <2> QED
    BY <2>1, <2>2 DEF OrdersOwned
<1>8. StartsInLine'
  <2> SUFFICES ASSUME NEW r \in Routes, starting(r)', NEW c, c = workCmds'[r][1]
               PROVE  InLine(r, c)'
    BY DEF StartsInLine
  <2>1. CASE r = p
    BY <2>1
  <2>2. CASE r # p
    <3>1. starting(r) /\ c = workCmds[r][1]
      BY <1>1, <1>6, <2>2
    <3>2. InLine(r, c)
      BY <1>2, <3>1 DEF StartsInLine
    <3> QED
      BY <2>2, <3>1, <3>2, ElseBegins
  <2> QED
    BY <2>1, <2>2
<1> QED
  BY <1>3, <1>4, <1>5, <1>7, <1>8 DEF BInv

-----------------------------------------------------------------------------
(* Orders for a route.                                                     *)

LEMMA FreshCommand ==
  ASSUME TypeOK, NEW r \in Routes, NEW c \in RouteCmds, NEW gnrl,
         SetCommand(r, <<>>, 0, c, gnrl)
  PROVE  \/ workCmds'[r] = <<>> /\ unitQ' = unitQ
         \/ /\ workCmds'[r] = <<Resolved(r, c)>>
            /\ c.type # "Parallel" => Send(r, next(Resolved(r, c)), c.name)
<1> DEFINE d == Resolved(r, c)
<1>1. d.name = c.name /\ d.type = c.type /\ workCmds \in [Routes -> Seq(RouteCmds)]
  BY DEF Resolved, RouteCmds, TypeOK, CommandTypes
<1> HIDE DEF d
<1>2. CASE allConnected[r] \/ canConnect(r)
  <2>1. /\ workCmds' = [workCmds EXCEPT ![r] = Append(<<>>, d)]
        /\ d.type # "Parallel" => Send(r, next(d), d.name)
    BY <1>2 DEF SetCommand, d
  <2>2. workCmds'[r] = <<d>>
    BY <1>1, <2>1
  <2> QED
    BY <1>1, <2>1, <2>2 DEF d
<1>3. CASE ~(allConnected[r] \/ canConnect(r))
  <2>1. workCmds' = [workCmds EXCEPT ![r] = <<>>] /\ unitQ' = unitQ
    BY <1>3 DEF SetCommand
  <2> QED
    BY <1>1, <2>1
<1> QED
  BY <1>2, <1>3

(* A start is told to the last unit of a line that rests.                  *)
LEMMA StartOrders ==
  ASSUME FixedInv, NoEmptyList, DistinctLists, NEW r \in Routes,
         NEW c \in RouteCmds, c.type = "DownStepByStep", c.beginUn = -1, c.endUn = -1, ~c.finCmd,
         NEW gnrl, SetCommand(r, <<>>, 0, c, gnrl),
         unitQ = <<>>, routeQ' = <<>>, UNCHANGED unitList, \A u \in Units : Rest(u)',
         workCmds'[r] # <<>>, NEW d, d = workCmds'[r][1]
  PROVE  InLine(r, d)'
<1> DEFINE n == Len(unitList[r])
<1>1. /\ TypeOK /\ unitList = InitList
      /\ unitList[r] \in Seq(ListItems) /\ n \in Nat /\ n > 0 /\ DOMAIN unitList[r] = 1 .. n
  BY UnitsCount DEF FixedInv, IInv, TypeOK, ListTypes, NoEdits, units
<1>2. /\ workCmds'[r] = <<Resolved(r, c)>> /\ Send(r, next(Resolved(r, c)), c.name)
  BY <1>1, FreshCommand
<1>3. d = Resolved(r, c)
  BY <1>2
<1>4. /\ d.name = c.name /\ d.type = "DownStepByStep" /\ d.endUn = n - 1 /\ d.last = n
      /\ d.finCmd = c.finCmd
  BY <1>1, <1>3 DEF Resolved, RouteCmds
<1>5. next(d) = n - 1
  BY <1>1, <1>4 DEF next
<1>6. Send(r, n - 1, d.name)
  BY <1>2, <1>3, <1>4, <1>5
<1>7. \A i \in DOMAIN unitList[r] : /\ i \in Nat /\ i <= n /\ ~(i - 1 >= n)
                                    /\ unitList[r][i].un \in Units
  BY <1>1, HeldUnit
<1>8. Heading(r, d)' /\ BehindSteady(r, d)' /\ AheadRests(r, d)' /\ AnswersTrue(r, d)'
  <2>1. Heading(r, d)'
    BY <1>4 DEF Heading
  <2>2. BehindSteady(r, d)'
    BY <1>4, <1>7 DEF BehindSteady
  <2>3. AheadRests(r, d)'
    BY <1>7 DEF AheadRests
  <2> QED
    BY <2>1, <2>2, <2>3 DEF AnswersTrue
<1>9. OrdersNext(r, d)'
  <2> DEFINE q == unitQ'
             x == ToUnit(r, n - 1, d.name)
  <2>1. q = <<>> \/ q = Append(<<>>, x)
    BY <1>6 DEF Send
  <2>2. x.un = unitList[r][n].un /\ x.cmd = d.name
    <3>1. n - 1 + 1 = n
      BY <1>1
    <3> HIDE DEF n
    <3> QED
      BY <3>1 DEF ToUnit
  <2> HIDE DEF q, x
  <2>3. \A k \in DOMAIN q : k = 1 /\ q[k].un = unitList[r][n].un /\ q[k].cmd = d.name
    BY <2>1, <2>2
  <2>4. \A i \in DOMAIN unitList[r] : unitList[r][i].un = unitList[r][n].un => i = n
    BY <1>1 DEF DistinctLists
  <2>5. \A k \in DOMAIN q, i \in DOMAIN unitList[r] :
          q[k].un = unitList[r][i].un =>
            /\ i = n /\ q[k].cmd = d.name /\ q[k].un \in Units
            /\ \A l \in DOMAIN q : l = k
    BY <1>7, <2>3, <2>4
  <2> SUFFICES ASSUME NEW k \in DOMAIN q, NEW i \in DOMAIN unitList[r],
                      q[k].un = unitList[r][i].un
               PROVE  /\ i - 1 = d.last - 1 /\ q[k].cmd = d.name /\ ~d.finCmd
                      /\ Rest(unitList[r][i].un)'
                      /\ \A l \in DOMAIN q : q[l].un = q[k].un => l = k
    BY DEF OrdersNext, q, Rest
  <2> QED
    BY <1>4, <1>7, <2>5
<1> QED
  BY <1>8, <1>9 DEF InLine

LEMMA OrderBegins ==
  ASSUME FixedInv, NoEmptyList, DistinctLists, WInv, BInv, undisturbed, Owned', NEW r \in Routes,
         Start(r) \/ Stop(r) \/ CleanStop(r) \/ Freeze(r)
  PROVE  /\ BInv' /\ RouteStep(r)
         /\ starting(r)' => /\ workCmds'[r][1].beginUn = 0 /\ routeQ' = <<>>
                            /\ \A u \in Units : Rest(u)'
<1>1. Taken(r)
  BY OrderTaken
<1> DEFINE stop  == Cmd("RtCmStop", "Parallel", FALSE, -1, -1)
           save  == Cmd("RtCmToSave", "UpStepByStep", FALSE, -1, -1)
           start == Cmd("RtCmToRoute", "DownStepByStep", TRUE, -1, -1)
           clean == Cmd("RtCmToRoutForClean", "DownStepByStep", TRUE, -1, -1)
           quit  == Cmd("RtCmCleanStop", "UpStepByStep", FALSE, -1, -1)
<1>2. stop \in RouteCmds /\ save \in RouteCmds /\ start \in RouteCmds /\ clean \in RouteCmds
  <2>1. /\ {"RtCmStop", "RtCmToSave", "RtCmToRoute", "RtCmToRoutForClean"} \subseteq RouteCommands
        /\ {"Parallel", "UpStepByStep", "DownStepByStep"} \subseteq CmdTypes /\ -1 \in Int
    BY DEF RouteCommands, CmdTypes
  <2>2. stop \in RouteCmds
    BY <2>1, CmdType
  <2>3. save \in RouteCmds
    BY <2>1, CmdType
  <2>4. start \in RouteCmds
    BY <2>1, CmdType
  <2>5. clean \in RouteCmds
    BY <2>1, CmdType
  <2> QED
    BY <2>2, <2>3, <2>4, <2>5
<1>3. /\ stop.name \in Quits /\ save.name \in Quits /\ quit.name \in Quits
      /\ start.name \in Begins /\ clean.name \in Begins
      /\ \A c \in {start, clean} : /\ c.type = "DownStepByStep" /\ c.beginUn = -1 /\ c.endUn = -1
                                   /\ ~c.finCmd
  BY DEF Cmd, Begins, Quits
<1>4. Begins \cap Quits = {}
  BY DEF Begins, Quits
<1> HIDE DEF stop, save, start, clean, quit
<1>5. ASSUME NEW op, Handle(r, op), NEW gnrl, NEW c \in {stop, save, start, clean},
             NEW queue \in {<<>>, <<quit>>}, Restart(r, c, gnrl, queue)
      PROVE  /\ BInv' /\ RouteStep(r)
             /\ starting(r)' => /\ workCmds'[r][1].beginUn = 0 /\ routeQ' = <<>>
                                /\ \A u \in Units : Rest(u)'
  <2>1. c \in RouteCmds /\ c.name \in Begins \cup Quits
        /\ (c.name \in Begins => c \in {start, clean})
    BY <1>2, <1>3, <1>4, <1>5
  <2>2. RouteStep(r) /\ clicked
    BY <1>1, <1>5, <2>1, RestartStep
  <2>3. unitQ = <<>> /\ Len(routeQ) = 1 /\ \A u \in Units : Rest(u)
    BY <2>2 DEF BInv, ClickRests
  <2>4. routeQ' = <<>> /\ UNCHANGED unitList /\ \A u \in Units : Rest(u)'
    <3>1. routeQ \in Seq(Events) /\ routeQ' = Tail(routeQ)
      BY <2>2 DEF FixedInv, IInv, TypeOK, QueueTypes, RouteStep
    <3>2. routeQ' = <<>>
      BY <2>3, <3>1
    <3> QED
      BY <2>2, <2>3, <3>2 DEF RouteStep, others, Rest
  <2>5. TypeOK /\ SetCommand(r, <<>>, 0, c, gnrl) /\ queueCmds'[r] = queue
    BY <1>5 DEF Restart, FixedInv, IInv, TypeOK, CommandTypes
  <2>6. /\ workCmds'[r] = <<>> \/ (workCmds'[r] = <<Resolved(r, c)>> /\ Resolved(r, c).name = c.name)
        /\ Orders(r, c.name)
    <3>1. Resolved(r, c).name = c.name
      BY <2>1 DEF Resolved, RouteCmds
    <3>2. workCmds'[r] = <<>> \/ workCmds'[r] = <<Resolved(r, c)>>
      BY <2>1, <2>5, FreshCommand
    <3>3. Orders(r, c.name)
      <4> DEFINE w == <<>>
      <4>1. SetCommand(r, w, 0, c, gnrl)
        BY <2>5
      <4> HIDE DEF w
      <4> QED
        BY <2>1, <2>5, <4>1, SetAddresses
    <3> QED
      BY <3>1, <3>2, <3>3
  <2>7. OneCommand(r)'
    <3>1. \A i \in DOMAIN queueCmds'[r] : queueCmds'[r][i].name \in Quits
      BY <1>3, <1>5, <2>5
    <3> DEFINE w == workCmds'[r]
               rc == Resolved(r, c)
    <3>2. w = <<>> \/ (w = <<rc>> /\ rc.name = c.name)
      BY <2>6
    <3> HIDE DEF w, rc
    <3>3. Len(w) <= 1 /\ (w # <<>> => w[1].name = c.name)
      BY <3>2
    <3> QED
      BY <2>1, <3>1, <3>3 DEF OneCommand, working, w
  <2>8. \E d : d = workCmds'[r][1]
    OBVIOUS
  <2>9. PICK d : d = workCmds'[r][1]
    BY <2>8
  <2>10. starting(r)' => InLine(r, d)'
    <3> SUFFICES ASSUME workCmds'[r] # <<>>, c \in {start, clean}
                 PROVE  InLine(r, d)'
      BY <2>1, <2>6 DEF starting, working
    <3>1. c.type = "DownStepByStep" /\ c.beginUn = -1 /\ c.endUn = -1 /\ ~c.finCmd
      BY <1>3
    <3> QED
      BY <2>1, <2>3, <2>4, <2>5, <2>9, <3>1, StartOrders
  <2>11. \A k \in DOMAIN unitQ' :
           \/ unitQ'[k].cmd \in Quits
           \/ starting(r)' /\ unitQ'[k].un \in unitsOf(r)
    <3> DEFINE q == unitQ'
    <3>1. PICK s \in Seq(UnitCommands) :
            q = unitQ \o s /\ \A k \in DOMAIN s : s[k].un \in unitsOf(r) /\ s[k].cmd = c.name
      BY <2>6 DEF Orders
    <3>2. q # <<>> => working(r)'
      BY <2>2, <2>3 DEF RouteStep, working
    <3> HIDE DEF q
    <3>3. q = s
      BY <2>3, <3>1
    <3>4. q # <<>> /\ c.name \in Begins => starting(r)'
      BY <2>6, <3>2 DEF starting, working
    <3>5. \A k \in DOMAIN q : q # <<>> /\ q[k].un \in unitsOf(r) /\ q[k].cmd = c.name
      BY <3>1, <3>3
    <3>6. \A k \in DOMAIN q : \/ q[k].cmd \in Quits
                              \/ starting(r)' /\ q[k].un \in unitsOf(r)
      BY <2>1, <3>4, <3>5
    <3> QED
      BY <3>6 DEF q
  <2>12. \A k \in DOMAIN unitQ : unitQ[k].un \notin unitsOf(r)
    BY <2>3
  <2>13. BInv'
    BY <2>2, <2>7, <2>9, <2>10, <2>11, <2>12, RouteBegins
  <2>14. ASSUME starting(r)' PROVE d.beginUn = 0
    <3> DEFINE w == workCmds'[r]
               rc == Resolved(r, c)
    <3>1. w = <<>> \/ w = <<rc>>
      BY <2>6
    <3>2. c \in {start, clean} /\ w # <<>> /\ d = w[1]
      BY <2>1, <2>6, <2>9, <2>14 DEF starting, working
    <3>3. rc.beginUn = 0
      BY <1>3, <2>1, <3>2 DEF Resolved, RouteCmds
    <3> HIDE DEF w, rc
    <3> QED
      BY <3>1, <3>2, <3>3
  <2> QED
    BY <2>2, <2>4, <2>9, <2>13, <2>14
<1>6. CASE Start(r)
  BY <1>5, <1>6 DEF Start, start
<1>7. CASE CleanStop(r)
  BY <1>5, <1>7 DEF CleanStop, clean, quit
<1>8. CASE Stop(r)
  BY <1>5, <1>8 DEF Stop, stop, save
<1>9. CASE Freeze(r)
  BY <1>5, <1>9 DEF Freeze, stop
<1> QED
  BY <1>6, <1>7, <1>8, <1>9

-----------------------------------------------------------------------------
(* Answers to a route with one command.                                    *)

LEMMA OneStands ==
  ASSUME FixedInv, NEW p \in Routes, OneCommand(p), working(p)
  PROVE  /\ genCom[p] = 1 /\ DOMAIN workCmds[p] = {1}
         /\ workCmds[p] = <<workCmds[p][1]>> /\ workCmds[p][1] \in RouteCmds
<1>1. /\ workCmds[p] \in Seq(RouteCmds) /\ workCmds[p] # <<>>
      /\ genCom[p] \in 0 .. Len(workCmds[p]) /\ genCom[p] # 0
  BY DEF FixedInv, IInv, TypeOK, CommandTypes, Safe, GenComLive, working
<1> DEFINE s == workCmds[p]
<1>2. s \in Seq(RouteCmds) /\ s # <<>> /\ Len(s) <= 1
  BY <1>1 DEF OneCommand
<1> HIDE DEF s
<1>3. Len(s) = 1 /\ DOMAIN s = {1} /\ s = <<s[1]>> /\ s[1] \in RouteCmds
  BY <1>2
<1> QED
  BY <1>1, <1>3 DEF s

(* The command of the route p moves on, under its name. *)
LEMMA CommandMoves ==
  ASSUME FixedInv, WInv, BInv, undisturbed, Owned', NEW p \in Routes, RouteStep(p), working(p),
         NEW c, workCmds'[p] = <<c>>, c.name = workCmds[p][1].name, queueCmds'[p] = queueCmds[p],
         starting(p) => InLine(p, c)',
         \A k \in DOMAIN unitQ' :
           \/ k \in DOMAIN unitQ /\ unitQ'[k] = unitQ[k]
           \/ unitQ'[k].cmd \in Quits
           \/ starting(p) /\ unitQ'[k].un \in unitsOf(p)
  PROVE  BInv' /\ (starting(p)' <=> starting(p)) /\ workCmds'[p][1] = c
<1> DEFINE q == workCmds'[p]
<1>1. q = <<c>>
  OBVIOUS
<1> HIDE DEF q
<1>2. q # <<>> /\ Len(q) = 1 /\ q[1] = c
  BY <1>1
<1>3. OneCommand(p)'
  BY <1>2 DEF q, BInv, OneCommand, working
<1>4. starting(p)' <=> starting(p)
  BY <1>2 DEF q, starting, working
<1> QED
  BY <1>2, <1>3, <1>4, RouteBegins DEF q

(* What an answer to a starting route tells.                               *)
LEMMA AnswerNews ==
  ASSUME FixedInv, DistinctLists, BInv, undisturbed, Scanning, NEW p \in Routes, p = rt,
         starting(p), NEW w, w = workCmds[p][1]
  PROVE  /\ resp = w.name <=> routeCommand[un] = w.name
         /\ resp = w.name => Steady(un, w.name)
         /\ unN >= w.last - 1
         /\ unN >= w.last => resp = w.name
         /\ unN = w.last - 1 =>
              \A k \in DOMAIN unitQ, i \in DOMAIN unitList[p] : unitQ[k].un # unitList[p][i].un
<1>1. InLine(p, w)
  BY DEF BInv, StartsInLine
<1>2. /\ un \in Units /\ unN \in Int
      /\ \A i \in DOMAIN unitList[p] : unitList[p][i].un = un <=> i - 1 = unN
  BY UnitInHand DEF Scanning
<1>3. PICK j \in DOMAIN unitList[p] : unitList[p][j].un = un
  BY DEF Scanning, known, unitsOf
<1>4. 1 \in DOMAIN routeQ /\ From(routeQ[1], p, un) /\ routeQ[1].arg = resp
  <2>1. routeQ \in Seq(Events) /\ routeQ # <<>> /\ Head(routeQ).ev = "Inform"
    BY DEF Scanning, informed, FixedInv, IInv, TypeOK, QueueTypes
  <2>2. 1 \in DOMAIN routeQ /\ routeQ[1] = Head(routeQ)
    BY <2>1
  <2> QED
    BY <2>1, <2>2 DEF From, rt, un, resp
<1>5. /\ unN >= w.last - 1
      /\ resp = w.name <=> routeCommand[un] = w.name
      /\ resp = w.name => Steady(un, w.name)
  BY <1>1, <1>2, <1>3, <1>4 DEF InLine, AnswersTrue
<1>6. ASSUME unN >= w.last PROVE resp = w.name
  BY <1>1, <1>2, <1>3, <1>5, <1>6 DEF InLine, BehindSteady, Steady
<1>7. ASSUME unN = w.last - 1, NEW k \in DOMAIN unitQ, NEW i \in DOMAIN unitList[p],
             unitQ[k].un = unitList[p][i].un
      PROVE  FALSE
  <2>1. i - 1 = w.last - 1 /\ \A l \in DOMAIN routeQ : ~From(routeQ[l], p, unitQ[k].un)
    BY <1>1, <1>7 DEF InLine, OrdersNext
  <2>2. unitQ[k].un = un
    BY <1>2, <1>7, <2>1
  <2> QED
    BY <1>4, <2>1, <2>2
<1> QED
  BY <1>5, <1>6, <1>7

(* The next unit has done what the start asks: the start passes it, and    *)
(* the order goes on to the unit before it, which rests.                   *)
LEMMA StartMoves ==
  ASSUME FixedInv, DistinctLists, NEW p \in Routes, NEW w \in RouteCmds, InLine(p, w),
         UNCHANGED <<unitList, out, due, sensed, routeMode, routeCommand, routeQ>>,
         NEW c \in RouteCmds, c.name = w.name, c.type = w.type, c.endUn = w.endUn,
         c.beginUn = w.beginUn, c.last = w.last - 1,
         \A i \in DOMAIN unitList[p] : i - 1 = c.last => Steady(unitList[p][i].un, w.name),
         \A k \in DOMAIN unitQ, i \in DOMAIN unitList[p] : unitQ[k].un # unitList[p][i].un,
         \/ unitQ' = unitQ /\ (c.finCmd => c.last <= c.beginUn)
         \/ /\ ~c.finCmd /\ InRange(p, c.last - 1)
            /\ unitQ' = Append(unitQ, ToUnit(p, c.last - 1, c.name))
  PROVE  InLine(p, c)'
<1>1. /\ unitQ \in Seq(UnitCommands) /\ unitList[p] \in Seq(ListItems) /\ unitList = InitList
      /\ w.last \in Int /\ c.last \in Int /\ w.beginUn \in Int
  BY DEF FixedInv, IInv, NoEdits, TypeOK, QueueTypes, ListTypes, RouteCmds
<1>2. /\ BehindSteady(p, w) /\ AheadRests(p, w) /\ AnswersTrue(p, w) /\ Heading(p, w)
      /\ \A i \in DOMAIN unitList[p] : i \in Nat
  BY <1>1 DEF InLine
<1>3. Heading(p, c)'
  BY <1>2 DEF Heading
<1>4. \A u, n : (Steady(u, n)' <=> Steady(u, n)) /\ (Rest(u)' <=> Rest(u))
  BY DEF Steady, Rest
<1>5. BehindSteady(p, c)'
  <2> SUFFICES ASSUME NEW i \in DOMAIN unitList[p], i - 1 >= c.last
               PROVE  Steady(unitList[p][i].un, w.name)
    BY DEF BehindSteady, Steady
  <2>1. i - 1 = c.last \/ i - 1 >= w.last
    BY <1>1, <1>2
  <2> QED
    BY <1>2, <2>1 DEF BehindSteady
<1>6. AheadRests(p, c)'
  <2> SUFFICES ASSUME NEW i \in DOMAIN unitList[p], i - 1 < c.last - 1
               PROVE  Rest(unitList[p][i].un)
    BY DEF AheadRests, Rest
  <2>1. i - 1 < w.last - 1
    BY <1>1, <1>2
  <2> QED
    BY <1>2, <2>1 DEF AheadRests
<1>7. AnswersTrue(p, c)'
  <2> SUFFICES ASSUME NEW k \in DOMAIN routeQ, NEW i \in DOMAIN unitList[p],
                      NEW u, u = unitList[p][i].un, From(routeQ[k], p, u)
               PROVE  /\ i - 1 >= c.last - 1
                      /\ routeQ[k].arg = w.name <=> routeCommand[u] = w.name
                      /\ routeQ[k].arg = w.name => Steady(u, w.name)
    BY DEF AnswersTrue, From, Steady
  <2>1. /\ i - 1 >= w.last - 1
        /\ routeQ[k].arg = w.name <=> routeCommand[u] = w.name
        /\ routeQ[k].arg = w.name => Steady(u, w.name)
    BY <1>2 DEF AnswersTrue
  <2> QED
    BY <1>1, <1>2, <2>1
<1>8. OrdersNext(p, c)'
  <2>1. CASE unitQ' = unitQ
    BY <2>1 DEF OrdersNext
  <2>2. CASE /\ ~c.finCmd /\ InRange(p, c.last - 1)
             /\ unitQ' = Append(unitQ, ToUnit(p, c.last - 1, c.name))
    <3> DEFINE x == ToUnit(p, c.last - 1, c.name)
               q == unitQ'
    <3>1. /\ c.last \in DOMAIN unitList[p]
          /\ x.un = unitList[p][c.last].un /\ x.cmd = c.name
      <4>1. c.last - 1 + 1 = c.last /\ c.last - 1 \in 0 .. Len(unitList[p]) - 1
        BY <1>1, <2>2 DEF InRange
      <4>2. c.last \in DOMAIN unitList[p]
        BY <1>1, <4>1
      <4> QED
        BY <4>1, <4>2 DEF ToUnit
    <3>2. q = Append(unitQ, x)
      BY <2>2
    <3> HIDE DEF q, x
    <3>3. \A k \in DOMAIN q :
            \/ k \in DOMAIN unitQ /\ q[k] = unitQ[k]
            \/ k = Len(unitQ) + 1 /\ q[k] = x
      BY <1>1, <3>2
    <3>4. ASSUME NEW i \in DOMAIN unitList[p], unitList[p][i].un = x.un
          PROVE  i = c.last /\ Rest(x.un) /\ \A l \in DOMAIN routeQ : ~From(routeQ[l], p, x.un)
      <4>1. i = c.last
        BY <1>1, <3>1, <3>4 DEF DistinctLists
      <4>2. i - 1 < w.last - 1 /\ ~(i - 1 >= w.last - 1)
        BY <1>1, <4>1
      <4>3. Rest(x.un)
        BY <1>2, <3>4, <4>2 DEF AheadRests
      <4>4. \A l \in DOMAIN routeQ : ~From(routeQ[l], p, x.un)
        BY <1>2, <3>4, <4>2 DEF AnswersTrue
      <4> QED
        BY <4>1, <4>3, <4>4
    <3>5. \A k \in DOMAIN q, i \in DOMAIN unitList[p] :
            q[k].un = unitList[p][i].un => k = Len(unitQ) + 1 /\ q[k] = x
      BY <3>3
    <3> SUFFICES ASSUME NEW k \in DOMAIN q, NEW i \in DOMAIN unitList[p],
                        NEW u, u = unitList[p][i].un, q[k].un = u
                 PROVE  /\ i - 1 = c.last - 1 /\ q[k].cmd = c.name /\ ~c.finCmd
                        /\ Rest(u)
                        /\ \A l \in DOMAIN q : q[l].un = u => l = k
                        /\ \A l \in DOMAIN routeQ : ~From(routeQ[l], p, u)
      BY DEF OrdersNext, q, Rest, From
    <3>6. k = Len(unitQ) + 1 /\ q[k] = x /\ x.un = u
      BY <3>5
    <3>7. \A l \in DOMAIN q : q[l].un = u => l = k
      BY <3>5, <3>6
    <3> QED
      BY <2>2, <3>1, <3>4, <3>6, <3>7
  <2> QED
    BY <2>1, <2>2
<1> QED
  BY <1>3, <1>5, <1>6, <1>7, <1>8 DEF InLine

LEMMA ScanOne ==
  ASSUME FixedInv, NEW p \in Routes, p = rt, OneCommand(p), Scanning
  PROVE  /\ working(p) /\ cmd = workCmds[p][1] /\ cmd \in RouteCmds
         /\ workCmds[p] = <<cmd>>
         /\ \A c : Becomes(c) => workCmds'[p] = <<c>> /\ queueCmds'[p] = queueCmds[p]
<1>1. working(p) /\ pos < Len(workCmds[p]) /\ pos \in Nat
      /\ workCmds \in [Routes -> Seq(RouteCmds)]
  BY ReplacedWorks DEF Scanning, FixedInv, IInv, TypeOK, CommandTypes
<1>2. workCmds[p] = <<workCmds[p][1]>> /\ workCmds[p][1] \in RouteCmds
  BY <1>1, OneStands
<1> DEFINE q == workCmds[p]
           w == q[1]
<1>3. q = <<w>> /\ pos < Len(q)
  BY <1>1, <1>2
<1> HIDE DEF w
<1>4. pos = 0
  <2> HIDE DEF q
  <2> QED
    BY <1>1, <1>3
<1>5. cmd = w
  BY <1>4 DEF cmd, w
<1>6. ASSUME NEW c, Becomes(c) PROVE workCmds'[p] = <<c>> /\ queueCmds'[p] = queueCmds[p]
  <2>1. workCmds'[p] = [q EXCEPT ![pos + 1] = c] /\ queueCmds'[p] = queueCmds[p]
    BY <1>1, <1>6 DEF Becomes, Replaced
  <2> HIDE DEF q
  <2>2. [q EXCEPT ![pos + 1] = c] = <<c>>
    BY <1>3, <1>4
  <2> QED
    BY <2>1, <2>2
<1> QED
  BY <1>1, <1>2, <1>3, <1>5, <1>6 DEF w

(* A route that is told to stop tells stops. *)
LEMMA QuitScans ==
  ASSUME FixedInv, WInv, BInv, undisturbed, Owned', NEW p \in Routes, p = rt, ~starting(p),
         RouteStep(p), Scanning,
         \/ ScanOther    \/ ScanParallel  \/ ScanKept  \/ ScanFar
         \/ NextDone     \/ NextFailed    \/ LeftSave  \/ LeftCleanStop
         \/ LeftForClean \/ LeftFailed    \/ LeftSilos \/ LeftBunker
  PROVE  BInv' /\ ~starting(p)'
<1>0. TypeOK
  BY DEF FixedInv, IInv
<1>1. OneCommand(p)
  BY DEF BInv
<1>2. /\ working(p) /\ cmd = workCmds[p][1] /\ cmd \in RouteCmds /\ workCmds[p] = <<cmd>>
      /\ \A c : Becomes(c) => workCmds'[p] = <<c>> /\ queueCmds'[p] = queueCmds[p]
  BY <1>1, ScanOne
<1>3. cmd.name \in Quits /\ cmd.name \notin {"RtCmToRoute", "RtCmToRoutForClean"}
      /\ "RtCmStop" \in Quits
  BY <1>1, <1>2 DEF OneCommand, starting, Begins, Quits
<1>4. unN \in Int
  BY <1>0, UnderScan
<1>5. ASSUME NEW c, workCmds'[p] = <<c>>, queueCmds'[p] = queueCmds[p], c.name = cmd.name,
             NEW name \in Quits, Orders(p, name)
      PROVE  BInv' /\ ~starting(p)'
  <2> DEFINE q == unitQ'
  <2>1. PICK s \in Seq(UnitCommands) :
          q = unitQ \o s /\ \A k \in DOMAIN s : s[k].un \in unitsOf(p) /\ s[k].cmd = name
    BY <1>5 DEF Orders
  <2>2. unitQ \in Seq(UnitCommands)
    BY <1>0 DEF TypeOK, QueueTypes
  <2> HIDE DEF q
  <2>3. \A k \in DOMAIN q : (k \in DOMAIN unitQ /\ q[k] = unitQ[k]) \/ q[k].cmd \in Quits
    <3>1. \A k \in DOMAIN unitQ : q[k] = unitQ[k]
      BY <2>1, <2>2, ConcatQueue
    <3>2. \A k \in DOMAIN q : k \in DOMAIN unitQ \/ q[k].cmd = name
      BY <2>1, <2>2, ConcatQueue
    <3> QED
      BY <1>5, <3>1, <3>2
  <2>4. c.name = workCmds[p][1].name
    BY <1>2, <1>5
  <2> QED
    BY <1>2, <1>5, <2>3, <2>4, CommandMoves DEF q
<1>6. ASSUME UNCHANGED unitQ PROVE Orders(p, "RtCmStop")
  BY <1>0, <1>6, NoOrder
<1>7. ASSUME NEW n, NEW name \in {"RtCmStop", cmd.name}, Send(p, n, name)
      PROVE  name \in Quits /\ Orders(p, name)
  <2>1. name \in Quits /\ name \in RouteCommands
    BY <1>3, <1>7 DEF RouteCommands, Quits
  <2> QED
    BY <1>0, <1>7, <2>1, SendAddresses
<1>8. CASE ScanOther
  <2>1. UNCHANGED <<unitQ, workCmds, queueCmds>>
    BY <1>8 DEF ScanOther
  <2> QED
    BY <1>2, <1>3, <1>5, <1>6, <2>1
<1>9. ASSUME NEW c, Becomes(c), c.name = cmd.name, UNCHANGED unitQ PROVE BInv' /\ ~starting(p)'
  BY <1>2, <1>3, <1>5, <1>6, <1>9
<1>10. CASE ScanKept \/ ScanFar
  BY <1>9, <1>10 DEF ScanKept, ScanFar
<1>11. CASE ScanParallel
  <2> DEFINE seen == IF cmd.respCount <= count(cmd) THEN cmd.respCount + 1
                     ELSE cmd.respCount
             c == [cmd EXCEPT !.respCount = seen, !.last = unN,
                              !.good = @ /\ resp = cmd.name,
                              !.finCmd = @ \/ seen = count(cmd)]
  <2>1. UNCHANGED unitQ /\ Becomes(c)
    BY <1>11 DEF ScanParallel
  <2>2. c.name = cmd.name
    BY <1>2 DEF RouteCmds
  <2> HIDE DEF c
  <2> QED
    BY <1>9, <2>1, <2>2
<1>12. CASE NextFailed
  <2> DEFINE good == cmd.good /\ cmd.name = "RtCmToRoutForClean"
             c == [cmd EXCEPT !.finCmd = TRUE, !.good = good]
             d == IF c.type = "UpStepByStep" THEN [c EXCEPT !.endUn = c.last]
                  ELSE [c EXCEPT !.beginUn = c.last]
  <2>1. UNCHANGED unitQ /\ Becomes(d)
    BY <1>12 DEF NextFailed
  <2> HIDE DEF good
  <2>2. d.name = cmd.name
    BY <1>2 DEF RouteCmds
  <2> HIDE DEF d
  <2> QED
    BY <1>9, <2>1, <2>2
<1>13. CASE NextDone
  <2> DEFINE f == [cmd EXCEPT !.good = TRUE, !.last = unN]
             g == [f EXCEPT !.finCmd = TRUE]
             n == next(f)
  <2>1. \/ Becomes(g) /\ UNCHANGED unitQ
        \/ Becomes(f) /\ Send(p, n, f.name)
    BY <1>13 DEF NextDone
  <2>2. f.name = cmd.name /\ g.name = cmd.name
    BY <1>2 DEF RouteCmds
  <2> HIDE DEF f, g, n
  <2>3. ASSUME Becomes(f), Send(p, n, f.name) PROVE BInv' /\ ~starting(p)'
    BY <1>2, <1>5, <1>7, <2>2, <2>3
  <2> QED
    BY <1>9, <2>1, <2>2, <2>3
<1>14. CASE LeftSave
  <2>1. Becomes(Short(cmd)) /\ Send(p, unN, "RtCmStop") /\ Short(cmd).name = cmd.name
    BY <1>2, <1>14, ShortSame DEF LeftSave
  <2> QED
    BY <1>2, <1>5, <1>7, <2>1
<1>15. CASE LeftCleanStop
  <2> DEFINE c == Finished(cmd, TRUE, cmd.good)
  <2>1. Becomes(Short(c)) /\ Send(p, unN, "RtCmStop")
    BY <1>15 DEF LeftCleanStop
  <2>2. c \in RouteCmds /\ c.name = cmd.name
    BY <1>2 DEF Finished, RouteCmds
  <2> HIDE DEF c
  <2>3. Short(c).name = cmd.name
    BY <2>2, ShortSame
  <2> QED
    BY <1>2, <1>5, <1>7, <2>1, <2>3
<1>16. CASE LeftForClean \/ LeftFailed \/ LeftSilos \/ LeftBunker
  BY <1>3, <1>16 DEF LeftForClean, LeftFailed, LeftSilos, LeftBunker, ToRouteLeft
<1> QED
  BY <1>8, <1>10, <1>11, <1>12, <1>13, <1>14, <1>15, <1>16

(* The start of p keeps its place or moves on by one unit, unless the next *)
(* one has failed.                                                         *)
Goes(p) ==
  LET w == workCmds[p][1]
      c == workCmds'[p][1]
  IN  /\ c.name = w.name
      /\ \/ c.beginUn = w.beginUn /\ c.last \in {w.last, w.last - 1}
         \/ unN = w.last - 1 /\ resp # w.name

(* A starting route hears nothing that is not so, and goes on by one unit. *)
LEMMA StartScans ==
  ASSUME FixedInv, DistinctLists, WInv, BInv, undisturbed, Owned', NEW p \in Routes, p = rt,
         starting(p), RouteStep(p), Scanning, UNCHANGED linked,
         \/ ScanOther    \/ ScanParallel  \/ ScanKept  \/ ScanFar
         \/ NextDone     \/ NextFailed    \/ LeftSave  \/ LeftCleanStop
         \/ LeftForClean \/ LeftFailed    \/ LeftSilos \/ LeftBunker
  PROVE  BInv' /\ Goes(p)
<1>0. TypeOK
  BY DEF FixedInv, IInv
<1>1. OneCommand(p) /\ starting(p)
  BY DEF BInv
<1>2. /\ working(p) /\ cmd = workCmds[p][1] /\ cmd \in RouteCmds /\ workCmds[p] = <<cmd>>
      /\ \A c : Becomes(c) => workCmds'[p] = <<c>> /\ queueCmds'[p] = queueCmds[p]
  BY <1>1, ScanOne
<1>3. PICK w \in RouteCmds : w = cmd
  BY <1>2
<1>4. /\ InLine(p, w) /\ w.name \in Begins /\ w.type = "DownStepByStep"
      /\ (w.finCmd => w.last <= w.beginUn)
      /\ w.last \in Int /\ w.beginUn \in Int /\ w.endUn \in Int
  BY <1>1, <1>2, <1>3 DEF BInv, StartsInLine, starting, InLine, Heading, RouteCmds
<1>5. /\ resp = w.name <=> routeCommand[un] = w.name
      /\ resp = w.name => Steady(un, w.name)
      /\ unN >= w.last - 1
      /\ unN >= w.last => resp = w.name
      /\ unN = w.last - 1 =>
           \A k \in DOMAIN unitQ, i \in DOMAIN unitList[p] : unitQ[k].un # unitList[p][i].un
  BY <1>1, <1>2, <1>3, AnswerNews
<1>6. /\ unN \in Int /\ unitQ \in Seq(UnitCommands)
      /\ \A i \in DOMAIN unitList[p] : unitList[p][i].un = un <=> i - 1 = unN
      /\ UNCHANGED <<unitList, out, due, sensed, routeMode, routeCommand, routeQ>>
  BY <1>0, UnitInHand DEF Scanning, TypeOK, QueueTypes, RouteStep, others, linked, held
<1>7. \A k \in DOMAIN routeQ' : \E n \in DOMAIN routeQ : routeQ[n] = routeQ'[k]
  BY <1>6
<1>8. ASSUME UNCHANGED unitQ, workCmds'[p] = <<w>>, queueCmds'[p] = queueCmds[p]
      PROVE  BInv' /\ Goes(p)
  <2>1. InLine(p, w)'
    BY <1>4, <1>6, <1>7, <1>8, InLineKept
  <2> QED
    BY <1>2, <1>3, <1>8, <2>1, CommandMoves DEF Goes
<1>9. CASE ScanOther
  <2>1. UNCHANGED <<unitQ, workCmds, queueCmds>>
    BY <1>9 DEF ScanOther
  <2> QED
    BY <1>2, <1>3, <1>8, <2>1
<1>10. CASE ScanKept \/ ScanFar
  <2>1. Becomes(cmd) /\ UNCHANGED unitQ
    BY <1>10 DEF ScanKept, ScanFar
  <2> QED
    BY <1>2, <1>3, <1>8, <2>1
<1>11. CASE \/ ScanParallel \/ LeftSave  \/ LeftCleanStop
            \/ LeftForClean \/ LeftFailed \/ LeftSilos \/ LeftBunker
  <2>1. ~Left
    BY <1>3, <1>4, <1>5 DEF Left, Covered, covered
  <2>2. ~ScanParallel
    BY <1>3, <1>4 DEF ScanParallel
  <2> QED
    BY <1>11, <2>1, <2>2
    DEF LeftSave, LeftCleanStop, LeftForClean, ToRouteLeft, LeftFailed, LeftSilos, LeftBunker
<1>12. CASE NextFailed
  <2> DEFINE good == w.good /\ w.name = "RtCmToRoutForClean"
             c == [w EXCEPT !.finCmd = TRUE, !.good = good]
             e == [c EXCEPT !.beginUn = c.last]
  <2>1. UNCHANGED unitQ /\ unN = w.last - 1
    BY <1>3, <1>4, <1>12 DEF NextFailed, next
  <2>2. c.type = "DownStepByStep"
    BY <1>4 DEF RouteCmds
  <2>3. Becomes(e)
    BY <1>3, <1>12, <2>2 DEF NextFailed
  <2>4. e.name = w.name /\ e.type = w.type /\ e.endUn = w.endUn /\ e.last = w.last
        /\ e.beginUn = w.last
    BY DEF RouteCmds
  <2> HIDE DEF e
  <2>5. PICK d : d = e
    <3>1. \E d : d = e
      OBVIOUS
    <3> QED
      BY <3>1
  <2>6. InLine(p, w)'
    BY <1>4, <1>6, <1>7, <2>1, InLineKept
  <2>7. OrdersNext(p, d)'
    <3>1. \A k \in DOMAIN unitQ, i \in DOMAIN unitList[p] : unitQ[k].un # unitList[p][i].un
      BY <1>5, <2>1
    <3> QED
      BY <1>6, <2>1, <3>1 DEF OrdersNext
  <2>8. InLine(p, d)'
    <3>1. d.name = w.name /\ d.type = w.type /\ d.endUn = w.endUn /\ d.last = w.last
          /\ d.last <= d.beginUn
      BY <1>4, <2>4, <2>5
    <3>2. Heading(p, w)' /\ BehindSteady(p, w)' /\ AheadRests(p, w)' /\ AnswersTrue(p, w)'
      BY <2>6 DEF InLine
    <3>3. Heading(p, d)'
      BY <3>1, <3>2 DEF Heading
    <3>4. BehindSteady(p, d)' /\ AheadRests(p, d)'
      BY <3>1, <3>2 DEF BehindSteady, AheadRests, Steady
    <3>5. AnswersTrue(p, d)'
      BY <3>1, <3>2 DEF AnswersTrue, Steady
    <3> QED
      BY <2>7, <3>3, <3>4, <3>5 DEF InLine
  <2>9. workCmds'[p] = <<d>> /\ queueCmds'[p] = queueCmds[p] /\ d.name = workCmds[p][1].name
    BY <1>2, <1>3, <2>3, <2>4, <2>5
  <2> QED
    <3>1. BInv' /\ workCmds'[p][1] = d
      BY <1>2, <2>1, <2>8, <2>9, CommandMoves
    <3>2. resp # w.name
      BY <1>3, <1>12 DEF NextFailed
    <3> QED
      BY <1>2, <1>3, <2>1, <2>4, <2>5, <3>1, <3>2 DEF Goes
<1>13. CASE NextDone
  <2> DEFINE f == [w EXCEPT !.good = TRUE, !.last = unN]
             g == [f EXCEPT !.finCmd = TRUE]
             n == next(f)
  <2>1. /\ unN = w.last - 1 /\ resp = w.name
        /\ IF atEnd(f) THEN Becomes(g) /\ UNCHANGED unitQ
           ELSE Becomes(f) /\ Send(p, n, f.name)
    BY <1>3, <1>4, <1>13 DEF NextDone, next
  <2>2. /\ f \in RouteCmds /\ f.name = w.name /\ f.type = w.type /\ f.endUn = w.endUn
        /\ f.last = unN /\ f.beginUn = w.beginUn /\ f.finCmd = w.finCmd
        /\ g \in RouteCmds /\ g.name = w.name /\ g.type = w.type /\ g.endUn = w.endUn
        /\ g.last = unN /\ g.beginUn = w.beginUn
    BY <1>6 DEF RouteCmds
  <2>3. n = f.last - 1 /\ (atEnd(f) <=> f.last <= f.beginUn)
    BY <1>4, <2>2 DEF next, atEnd
  <2>4. /\ \A i \in DOMAIN unitList[p] : i - 1 = unN => Steady(unitList[p][i].un, w.name)
        /\ \A k \in DOMAIN unitQ, i \in DOMAIN unitList[p] : unitQ[k].un # unitList[p][i].un
    BY <1>5, <1>6, <2>1
  <2> HIDE DEF f, g, n
  <2>5. ASSUME NEW c \in {f, g}, Becomes(c),
               \/ unitQ' = unitQ /\ (c.finCmd => c.last <= c.beginUn)
               \/ /\ ~c.finCmd /\ InRange(p, c.last - 1)
                  /\ unitQ' = Append(unitQ, ToUnit(p, c.last - 1, c.name))
        PROVE  BInv' /\ Goes(p)
    <3>1. /\ c \in RouteCmds /\ c.name = w.name /\ c.type = w.type /\ c.endUn = w.endUn
          /\ c.last = w.last - 1 /\ c.beginUn = w.beginUn
      BY <2>1, <2>2
    <3>2. \A i \in DOMAIN unitList[p] : i - 1 = c.last => Steady(unitList[p][i].un, w.name)
      BY <2>1, <2>4, <3>1
    <3>3. InLine(p, c)'
      BY <1>4, <1>6, <2>4, <2>5, <3>1, <3>2, StartMoves
    <3>4. workCmds'[p] = <<c>> /\ queueCmds'[p] = queueCmds[p] /\ c.name = workCmds[p][1].name
      BY <1>2, <1>3, <2>5, <3>1
    <3>5. \A k \in DOMAIN unitQ' :
            \/ k \in DOMAIN unitQ /\ unitQ'[k] = unitQ[k]
            \/ unitQ'[k].un \in unitsOf(p)
      <4> DEFINE q == unitQ'
      <4>1. PICK s \in Seq(UnitCommands) :
              q = unitQ \o s /\ \A k \in DOMAIN s : s[k].un \in unitsOf(p)
        BY DEF RouteStep, Addresses
      <4> HIDE DEF q
      <4>2. \A k \in DOMAIN unitQ : q[k] = unitQ[k]
        BY <1>6, <4>1, ConcatQueue
      <4>3. \A k \in DOMAIN q : k \in DOMAIN unitQ \/ q[k].un \in unitsOf(p)
        BY <1>6, <4>1, ConcatQueue
      <4> QED
        BY <4>2, <4>3 DEF q
    <3> QED
      <4>1. BInv' /\ workCmds'[p][1] = c
        BY <1>1, <1>2, <3>3, <3>4, <3>5, CommandMoves
      <4> QED
        BY <1>2, <1>3, <3>1, <4>1 DEF Goes
  <2>6. CASE atEnd(f)
    BY <2>1, <2>2, <2>3, <2>5, <2>6
  <2>7. CASE ~atEnd(f)
    <3>1. ~f.finCmd
      BY <1>4, <1>6, <2>1, <2>2, <2>3, <2>7
    <3> QED
      BY <2>1, <2>3, <2>5, <2>7, <3>1 DEF Send
  <2> QED
    BY <2>6, <2>7
<1> QED
  BY <1>9, <1>10, <1>11, <1>12, <1>13

LEMMA ScansBegin ==
  ASSUME FixedInv, DistinctLists, WInv, BInv, undisturbed, Owned',
         \/ ScanOther    \/ ScanParallel  \/ ScanKept  \/ ScanFar
         \/ NextDone     \/ NextFailed    \/ LeftSave  \/ LeftCleanStop
         \/ LeftForClean \/ LeftFailed    \/ LeftSilos \/ LeftBunker
  PROVE  /\ BInv' /\ Scanning /\ UNCHANGED linked
         /\ \E p \in Routes : /\ p = rt /\ RouteStep(p)
                              /\ IF starting(p) THEN Goes(p) ELSE ~starting(p)'
<1>1. PICK p \in Routes : p = rt /\ RouteStep(p)
  BY ScanSteps
<1>2. Scanning /\ UNCHANGED linked
  BY ScanMain, LeftMain
<1>3. CASE starting(p)
  BY <1>1, <1>2, <1>3, StartScans
<1>4. CASE ~starting(p)
  BY <1>1, <1>2, <1>4, QuitScans
<1> QED
  BY <1>3, <1>4

(* One command leaves nothing to remove.                                   *)
LEMMA NoneRemoved ==
  ASSUME FixedInv, BInv, undisturbed, RemoveCommand
  PROVE  FALSE
<1>1. TypeOK /\ informed /\ \E i \in DOMAIN workCmds[rt] : i # genCom[rt]
  BY DEF FixedInv, IInv, RemoveCommand, Scanned, removable
<1>2. PICK p \in Routes : p = rt
  BY <1>1, InHand
<1>3. OneCommand(p) /\ workCmds[p] \in Seq(RouteCmds)
  BY <1>1 DEF BInv, TypeOK, CommandTypes
<1>4. working(p)
  BY <1>1, <1>2, <1>3 DEF working
<1>5. genCom[p] = 1 /\ DOMAIN workCmds[p] = {1}
  BY <1>3, <1>4, OneStands
<1> QED
  BY <1>1, <1>2, <1>5

(* At the end of its command a route has no start on its way.              *)
LeavesAlone == UNCHANGED <<workCmds, myRoute, routeMode, routeCommand>>

LEMMA EndingBegins ==
  ASSUME FixedInv, NoEmptyList, DistinctLists, WInv, BInv, undisturbed, Owned',
         InformFromStranger \/ RouteDone \/ NextQueued \/ StillWorking
  PROVE  BInv' /\ \E p \in Routes : RouteStep(p) /\ (~starting(p)' \/ LeavesAlone)
<1>0. /\ TypeOK /\ Safe
      /\ queueCmds \in [Routes -> Seq(RouteCmds)] /\ workCmds \in [Routes -> Seq(RouteCmds)]
  BY DEF FixedInv, IInv, TypeOK, CommandTypes
<1>1. PICK p \in Routes : p = rt /\ Taken(p)
  BY EndingTaken
<1> SUFFICES BInv' /\ RouteStep(p) /\ (~starting(p)' \/ LeavesAlone)
  OBVIOUS
<1>2. /\ UNCHANGED <<others, unitList, lastOp>> /\ routeQ # <<>> /\ routeQ' = Tail(routeQ)
      /\ Head(routeQ).rt = p
  BY <1>1 DEF Taken, InformFromStranger, RouteDone, NextQueued, StillWorking, Ending, aside, rt
<1>3. OneCommand(p)
  BY DEF BInv
<1>4. CASE InformFromStranger \/ StillWorking
  <2>1. UNCHANGED <<unitQ, workCmds, queueCmds, myRoute, routeMode, routeCommand>>
    BY <1>4 DEF InformFromStranger, StillWorking, linked, held
  <2>2. RouteStep(p)
    <3>1. Addresses(p)
      BY <1>0, <2>1, NoOrder
    <3> QED
      BY <1>1, <1>2, <2>1, <3>1 DEF RouteStep, Taken
  <2>3. (starting(p)' <=> starting(p)) /\ OneCommand(p)'
    BY <1>3, <2>1 DEF starting, working, OneCommand
  <2>4. PICK d : d = workCmds[p][1]
    <3>1. \E d : d = workCmds[p][1]
      OBVIOUS
    <3> QED
      BY <3>1
  <2>5. ASSUME starting(p) PROVE InLine(p, d)'
    <3>1. InLine(p, d)
      BY <2>4, <2>5 DEF BInv, StartsInLine
    <3>2. UNCHANGED <<unitList, out, due, sensed>>
      BY <1>2 DEF others
    <3>3. \A k \in DOMAIN routeQ' : \E n \in DOMAIN routeQ : routeQ[n] = routeQ'[k]
      BY <2>2, AnswersLeft
    <3> QED
      BY <2>1, <3>1, <3>2, <3>3, InLineKept
  <2> QED
    BY <2>1, <2>2, <2>3, <2>4, <2>5, RouteBegins DEF LeavesAlone
<1>5. ASSUME genFinished
      PROVE  starting(p) => \A k \in DOMAIN unitQ : unitQ[k].un \notin unitsOf(p)
  <2> SUFFICES ASSUME starting(p), NEW k \in DOMAIN unitQ, NEW i \in DOMAIN unitList[p],
                      unitQ[k].un = unitList[p][i].un
               PROVE  FALSE
    BY DEF unitsOf
  <2>1. working(p)
    BY DEF starting
  <2>2. genCom[p] = 1
    BY <1>3, <2>1, OneStands
  <2>3. workCmds[p][1].finCmd
    BY <1>1, <1>5, <2>2 DEF genFinished, gen
  <2> QED
    BY <2>3 DEF BInv, StartsInLine, InLine, OrdersNext
<1>6. CASE RouteDone
  <2>1. UNCHANGED <<unitQ, queueCmds>> /\ workCmds'[p] = <<>> /\ genFinished
    BY <1>0, <1>1, <1>6 DEF RouteDone
  <2>2. RouteStep(p)
    <3>1. Addresses(p)
      BY <1>0, <2>1, NoOrder
    <3> QED
      BY <1>1, <1>2, <2>1, <3>1 DEF RouteStep, Taken
  <2>3. ~starting(p)' /\ OneCommand(p)'
    <3>1. Len(workCmds'[p]) <= 1
      BY <2>1
    <3> QED
      BY <1>3, <2>1, <3>1 DEF starting, working, OneCommand
  <2> QED
    BY <1>5, <2>1, <2>2, <2>3, RouteBegins
<1>7. CASE NextQueued
  <2> DEFINE c == Head(queueCmds[p])
             w == <<>>
             t == queueCmds'[p]
             q == unitQ'
  <2>1. /\ genFinished /\ queueCmds[p] # <<>>
        /\ \E gnrl \in {TRUE} : SetCommand(p, w, 0, c, gnrl)
        /\ t = Tail(queueCmds[p])
    BY <1>0, <1>1, <1>7 DEF NextQueued, queued
  <2>2. c \in RouteCmds /\ w \in Seq(RouteCmds)
    BY <1>0, <2>1
  <2>3. queueCmds[p] \in Seq(RouteCmds)
    BY <1>0
  <2> HIDE DEF t
  <2>4. /\ 1 \in DOMAIN queueCmds[p] /\ queueCmds[p][1] = c
        /\ \A k \in DOMAIN t : k + 1 \in DOMAIN queueCmds[p] /\ t[k] = queueCmds[p][k + 1]
    BY <2>1, <2>3, TailQueue
  <2>5. c.name \in Quits /\ c.name \notin Begins /\ \A k \in DOMAIN t : t[k].name \in Quits
    <3>1. Quits \cap Begins = {}
      BY DEF Quits, Begins
    <3> QED
      BY <1>3, <2>4, <3>1 DEF OneCommand
  <2>6. workCmds'[p] = <<>> \/ workCmds'[p] = <<Resolved(p, c)>>
    BY <1>0, <2>1, <2>2, FreshCommand
  <2> HIDE DEF c, w
  <2>7. Addresses(p) /\ Orders(p, c.name) /\ (unitQ' # unitQ => workCmds'[p] # <<>>)
    BY <1>0, <2>1, <2>2, SetAddresses
  <2>8. RouteStep(p)
    BY <1>1, <1>2, <2>7 DEF RouteStep, Taken
  <2> DEFINE x == workCmds'[p]
             rc == Resolved(p, c)
  <2>9. rc.name = c.name
    BY <2>2 DEF Resolved, RouteCmds
  <2>13. x = <<>> \/ x = <<rc>>
    BY <2>6
  <2> HIDE DEF x, rc
  <2>10. Len(x) <= 1 /\ (x # <<>> => x[1].name = c.name)
    BY <2>9, <2>13
  <2>11. ~starting(p)' /\ OneCommand(p)'
    BY <2>5, <2>10 DEF x, t, starting, working, OneCommand
  <2>12. \A k \in DOMAIN q : (k \in DOMAIN unitQ /\ q[k] = unitQ[k]) \/ q[k].cmd \in Quits
    <3>1. unitQ \in Seq(UnitCommands)
      BY <1>0 DEF TypeOK, QueueTypes
    <3>2. PICK s \in Seq(UnitCommands) :
            q = unitQ \o s /\ \A k \in DOMAIN s : s[k].un \in unitsOf(p) /\ s[k].cmd = c.name
      BY <2>7 DEF Orders
    <3> HIDE DEF q
    <3>3. \A k \in DOMAIN unitQ : q[k] = unitQ[k]
      BY <3>1, <3>2, ConcatQueue
    <3>4. \A k \in DOMAIN q : k \in DOMAIN unitQ \/ q[k].cmd = c.name
      BY <3>1, <3>2, ConcatQueue
    <3> QED
      BY <2>5, <3>3, <3>4
  <2> QED
    BY <1>5, <2>1, <2>8, <2>11, <2>12, RouteBegins
<1> QED
  BY <1>4, <1>6, <1>7

-----------------------------------------------------------------------------
(* All steps.                                                              *)

(* The window only looks.                                                  *)
LEMMA ShowBegins ==
  ASSUME BInv, UNCHANGED <<unitVars, unitList, workCmds, queueCmds>>
  PROVE  BInv'
<1> SUFFICES ASSUME undisturbed'
             PROVE  /\ UnitsKnown' /\ ClickRests' /\ (\A r \in Routes : OneCommand(r)')
                    /\ OrdersOwned' /\ StartsInLine'
  BY DEF BInv
<1>1. /\ UNCHANGED <<unitList, workCmds, queueCmds>>
      /\ UNCHANGED <<myRoute, routeMode, routeCommand, mode, eng, out, due, sensed, alarm,
                     mayReset>>
      /\ UNCHANGED <<unitQ, routeQ, disturb>>
  BY DEF unitVars
<1>2. /\ UnitsKnown /\ ClickRests /\ (\A r \in Routes : OneCommand(r))
      /\ OrdersOwned /\ StartsInLine
  BY <1>1 DEF BInv, undisturbed
<1>3. UnitsKnown'
  BY <1>1, <1>2 DEF UnitsKnown, Known, Rest, Sensible, Untroubled
<1>4. ClickRests'
  BY <1>1, <1>2 DEF ClickRests, clicked, Rest
<1>5. \A r \in Routes : OneCommand(r)' /\ (starting(r)' <=> starting(r))
  BY <1>1, <1>2 DEF OneCommand, working, starting
<1>6. OrdersOwned'
  BY <1>1, <1>2, <1>5 DEF OrdersOwned, unitsOf
<1>7. StartsInLine'
  <2> SUFFICES ASSUME NEW r \in Routes, starting(r), NEW c, c = workCmds[r][1]
               PROVE  InLine(r, c)'
    BY <1>1, <1>5 DEF StartsInLine
  <2>1. InLine(r, c)
    BY <1>2 DEF StartsInLine
  <2> QED
    BY <1>1, <2>1, InLineKept
<1> QED
  BY <1>3, <1>4, <1>5, <1>6, <1>7

(* The operator clicks on a line that has settled.                         *)
LEMMA ClickBegins ==
  ASSUME FixedInv, BInv, NEW r \in Routes, NEW op, Click(r, op), settled
  PROVE  BInv'
<1>1. /\ UNCHANGED <<held, others, routeCommand, unitQ, unitList, workCmds, queueCmds, lastOp>>
      /\ unitQ = <<>> /\ routeQ = <<>>
      /\ routeQ' = Append(routeQ, [ev |-> "Op", rt |-> r, un |-> NoUnit, arg |-> op])
      /\ \A u \in Units : Rest(u)
  BY DEF Click, settled, Rest
<1>2. /\ UNCHANGED <<myRoute, routeMode, routeCommand, mode, eng, out, due, sensed, alarm,
                     mayReset>>
      /\ UNCHANGED <<unitQ, disturb, unitList, workCmds, queueCmds>>
  BY <1>1 DEF held, others
<1> SUFFICES ASSUME undisturbed'
             PROVE  /\ UnitsKnown' /\ ClickRests' /\ (\A q \in Routes : OneCommand(q)')
                    /\ OrdersOwned' /\ StartsInLine'
  BY DEF BInv
<1>3. /\ UnitsKnown /\ ClickRests /\ (\A q \in Routes : OneCommand(q))
      /\ OrdersOwned /\ StartsInLine
  BY <1>2 DEF BInv, undisturbed
<1>4. UnitsKnown'
  BY <1>2, <1>3 DEF UnitsKnown, Known, Rest, Sensible, Untroubled
<1>5. ClickRests'
  BY <1>1, <1>2 DEF ClickRests, Rest
<1>6. \A q \in Routes : OneCommand(q)' /\ (starting(q)' <=> starting(q))
  BY <1>2, <1>3 DEF OneCommand, working, starting
<1>7. OrdersOwned'
  BY <1>1, <1>2 DEF OrdersOwned
<1>8. StartsInLine'
  <2> SUFFICES ASSUME NEW q \in Routes, starting(q), NEW c, c = workCmds[q][1]
               PROVE  InLine(q, c)'
    BY <1>2, <1>6 DEF StartsInLine
  <2>1. InLine(q, c)
    BY <1>3 DEF StartsInLine
  <2>2. \A k \in DOMAIN routeQ' : routeQ'[k].ev = "Op"
    BY <1>1
  <2>3. AnswersTrue(q, c)'
    BY <2>2 DEF AnswersTrue, From
  <2>4. OrdersNext(q, c)'
    BY <1>1, <1>2 DEF OrdersNext
  <2>5. Heading(q, c)' /\ BehindSteady(q, c)' /\ AheadRests(q, c)'
    BY <1>2, <2>1 DEF InLine, Heading, BehindSteady, AheadRests, Steady, Rest
  <2> QED
    BY <2>3, <2>4, <2>5 DEF InLine
<1> QED
  BY <1>4, <1>5, <1>6, <1>7, <1>8

LEMMA InitBegins ==
  ASSUME Init
  PROVE  BInv
<1>1. /\ routeQ = <<>> /\ unitQ = <<>>
      /\ \A r \in Routes : workCmds[r] = <<>> /\ queueCmds[r] = <<>>
  BY DEF Init, UnitInit
<1>2. UnitsKnown
  BY DEF Init, UnitInit, UnitsKnown, Known, Rest, Sensible, Untroubled, Begins
<1>3. \A r \in Routes : OneCommand(r) /\ ~starting(r)
  BY <1>1 DEF OneCommand, working, starting
<1>4. ClickRests /\ OrdersOwned /\ StartsInLine
  BY <1>1, <1>3 DEF ClickRests, clicked, OrdersOwned, StartsInLine
<1> QED
  BY <1>2, <1>3, <1>4 DEF BInv

LEMMA BeginNext ==
  ASSUME FixedLists, NoEmptyList, DistinctLists, FixedInv, WInv, BInv, [PatientNext]_vars, Owned'
  PROVE  BInv'
<1>0. TypeOK /\ NoEdits /\ UnitsRest
  BY DEF FixedInv, IInv, WInv
<1>1. CASE UNCHANGED vars
  BY <1>1, ShowBegins DEF vars, routeVars
<1>2. CASE (UnitThread \/ UnitPlant) /\ UNCHANGED routeVars
  <2> SUFFICES ASSUME undisturbed' PROVE BInv'
    BY DEF BInv
  <2>1. undisturbed
    <3>1. disturb' = disturb \/ disturb' = disturb - 1
      BY <1>2 DEF UnitThread, UnitPlant, commandFromRoute, Observe, plant, Contactor, LevelChange,
                  Rescan, Bounce, detectAlarm, resetAlarm, UserSetMode, Disturb
    <3> QED
      BY <1>0, <3>1, UnitConstants DEF undisturbed, TypeOK, PlantTypes
  <2>2. UnitsKnown
    BY <2>1 DEF BInv
  <2>3. PICK u \in Units : OwnStep(u) /\ (Heard(u) \/ Looked(u))
    <3>1. CASE commandFromRoute
      BY <1>0, <2>2, <3>1, CommandStarts
    <3>2. ASSUME NEW u \in Units, Observe(u) PROVE OwnStep(u) /\ Looked(u)
      BY <1>0, <2>2, <3>2, ObserveStarts
    <3>3. CASE UnitPlant
      <4>1. PICK u \in Units : Contactor(u)
        BY <1>0, <2>2, <3>3, PlantStarts
      <4> QED
        BY <1>0, <2>2, <4>1, ContactorStarts
    <3> QED
      BY <1>2, <3>1, <3>2, <3>3 DEF UnitThread
  <2> QED
    BY <1>2, <2>1, <2>3, UnitsBegin
<1>3. CASE RouteThread
  <2>1. CASE InformStep
    <3>1. UNCHANGED disturb
      BY <2>1 DEF InformStep, InformFromStranger, ScanOther, ScanParallel, ScanKept, LeftForClean,
                  LeftCleanStop, LeftSave, ToRouteLeft, LeftFailed, LeftSilos, LeftBunker, Left,
                  Covered, Ahead, ScanFar, NextDone, NextFailed, RemoveCommand, RouteDone,
                  NextQueued, StillWorking, Ending, Scan, Scanning, aside, others
    <3> SUFFICES ASSUME undisturbed PROVE BInv'
      BY <3>1 DEF BInv, undisturbed
    <3> QED
      BY <2>1, ScansBegin, NoneRemoved, EndingBegins DEF InformStep
  <2>2. ASSUME NEW r \in Routes, Start(r) \/ Stop(r) \/ CleanStop(r) \/ Freeze(r)
        PROVE  BInv'
    <3>1. UNCHANGED disturb
      BY <2>2 DEF Start, Stop, CleanStop, Freeze, Handle, others
    <3> SUFFICES ASSUME undisturbed PROVE BInv'
      BY <3>1 DEF BInv, undisturbed
    <3> QED
      BY <2>2, OrderBegins
  <2> QED
    BY <1>0, <1>3, <2>1, <2>2, HandlersFixed
<1>4. ASSUME NEW r \in Routes, Operator(r), ops' # ops => settled PROVE BInv'
  <2>1. ASSUME NEW op \in OpNames, Click(r, op) PROVE BInv'
    <3>1. ops' # ops
      BY <1>0, <2>1 DEF Click, TypeOK, ListTypes
    <3> QED
      BY <1>4, <2>1, <3>1, ClickBegins
  <2>2. ASSUME NEW u, NEW m, AddInRoute(r, u, m) PROVE FALSE
    BY <2>2 DEF AddInRoute, FixedLists
  <2> QED
    BY <1>4, <2>1, <2>2 DEF Operator
<1>5. ASSUME NEW r \in Routes, Show(r) PROVE BInv'
  BY <1>5, ShowBegins DEF Show
<1> QED
  BY <1>1, <1>2, <1>3, <1>4, <1>5 DEF PatientNext, Next

(* Who is switched on by a command was told to by its route's start, and   *)
(* all downstream of it have done what they were told.                     *)
LEMMA StartsOrdered ==
  ASSUME FixedInv, BInv, undisturbed, commandFromRoute,
         NEW r \in Routes, NEW u \in Units, NEW v \in Units, Upstream(r, u, v),
         SwitchedOn(u), hasEngine(v), routeMode[v] = "UnMdStart"
  PROVE  out[v]
<1>1. /\ TypeOK /\ unitQ \in Seq(UnitCommands) /\ unitQ # <<>>
      /\ out \in [Units -> BOOLEAN]
  BY DEF FixedInv, IInv, TypeOK, QueueTypes, PlantTypes, commandFromRoute
<1>2. 1 \in DOMAIN unitQ /\ unitQ[1] = Head(unitQ)
  BY <1>1
<1> DEFINE h == Head(unitQ)
           m == ModeOfCommand(h.un, mode[h.un], h.cmd)
<1>3. UNCHANGED out \/ out' = [out EXCEPT ![h.un] = outAfter(h.un, m)]
  BY DEF commandFromRoute, Ignore, RepeatCommand, AcceptCommand, Write
<1> DEFINE value == outAfter(h.un, m)
<1>4. h.un = u /\ value /\ ~out[u]
  <2> HIDE DEF h, value
  <2> QED
    BY <1>1, <1>3 DEF SwitchedOn, value
<1>5. h.cmd \notin Quits
  <2> SUFFICES ASSUME h.cmd \in Quits PROVE FALSE
    OBVIOUS
  <2>1. hasEngine(u) => m \in {"UnMdStop", "UnMdCleanStop"}
    BY <1>4 DEF ModeOfCommand, Quits, hasEngine
  <2> QED
    BY <1>4, <2>1 DEF outAfter
<1> HIDE DEF m, value
<1>6. PICK r0 \in Routes : starting(r0) /\ u \in unitsOf(r0)
  BY <1>2, <1>4, <1>5 DEF BInv, OrdersOwned
<1>7. r0 = r
  BY <1>6 DEF Upstream, starting, FixedInv, Owned
<1>8. PICK i, j \in DOMAIN unitList[r] : i < j /\ unitList[r][i].un = u /\ unitList[r][j].un = v
  BY DEF Upstream
<1>9. PICK c : c = workCmds[r][1]
  <2>1. \E c : c = workCmds[r][1]
    OBVIOUS
  <2> QED
    BY <2>1
<1>10. OrdersNext(r, c) /\ BehindSteady(r, c)
  BY <1>6, <1>7, <1>9 DEF BInv, StartsInLine, InLine
<1>11. i - 1 = c.last - 1
  BY <1>2, <1>4, <1>8, <1>10 DEF OrdersNext
<1>12. c.last \in Int /\ i \in Nat /\ j \in Nat
  <2>1. workCmds[r] \in Seq(RouteCmds) /\ workCmds[r] # <<>> /\ unitList[r] \in Seq(ListItems)
    BY <1>1, <1>6, <1>7 DEF TypeOK, CommandTypes, ListTypes, starting, working
  <2>2. c \in RouteCmds
    BY <1>9, <2>1
  <2>3. c.last \in Int
    BY <2>2 DEF RouteCmds
  <2>4. i \in Nat /\ j \in Nat
    BY <1>8, <2>1
  <2> QED
    BY <2>3, <2>4
<1>13. j - 1 >= c.last
  BY <1>8, <1>11, <1>12
<1>14. Steady(v, c.name)
  BY <1>8, <1>10, <1>13 DEF BehindSteady
<1> QED
  BY <1>14 DEF Steady

(* A line starts from its end, as long as the operator waits for it to     *)
(* settle and nothing disturbs it (Route::StartRoute, CleanStop,           *)
(* InformFromUnit, commandFromRoute): an engine that a command switches on *)
(* has every engine downstream of it that the route runs already on.       *)
THEOREM StartsInOrder ==
  ASSUME FixedLists, NoEmptyList, DistinctLists PROVE PatientSpec => StartInOrder
<1> DEFINE I == IInv /\ NoEdits /\ InRanges /\ Owned /\ WInv
<1>1. Init => BInv
  BY InitBegins
<1>2. I /\ I' /\ BInv /\ [PatientNext]_vars => BInv'
  BY BeginNext DEF FixedInv
<1>3. I /\ BInv /\ [PatientNext]_vars =>
        [commandFromRoute /\ undisturbed =>
           \A r \in Routes, u, v \in Units :
             /\ Upstream(r, u, v) /\ SwitchedOn(u)
             /\ hasEngine(v) /\ routeMode[v] = "UnMdStart"
             => out[v]]_vars
  BY StartsOrdered DEF FixedInv
<1>4. PatientSpec => []I
  BY PatientInductive
<1> HIDE DEF I
<1> QED
  BY <1>1, <1>2, <1>3, <1>4, PTL DEF PatientSpec, PatientNext, StartInOrder
-----------------------------------------------------------------------------
(* A start that ends good.                                                 *)

(* The modes that the lists give to u.                                     *)
listModes(u) ==
  {m \in UnitModes : \E r \in Routes : \E i \in DOMAIN InitList[r] :
                       InitList[r][i].un = u /\ InitList[r][i].mode = m}

(* Units have modes in the lists that they can take, as addInRoute gives   *)
(* them, and no engine is run by one list and kept off by another.         *)
ListsAgree ==
  \A u \in Units :
    IF hasEngine(u) THEN listModes(u) \subseteq {"UnMdStart"} \/ listModes(u) \subseteq {"UnMdStop"}
    ELSE listModes(u) \subseteq LevelModes(u)

HeldAsListed == \A u \in Units : myRoute[u] # NoRoute => routeMode[u] \in listModes(u)

KeptOff ==
  \A u \in Units : hasEngine(u) /\ "UnMdStart" \notin listModes(u) => ~out[u] /\ Rest(u)

(* The unit that is next for the start c of r obeys.                       *)
NextObeys(r, c) ==
  \A i \in DOMAIN unitList[r], u \in Units :
    i - 1 = c.last - 1 /\ unitList[r][i].un = u =>
      /\ ~Rest(u) => routeCommand[u] = c.name /\ (hasEngine(u) => out[u])
      /\ \A k \in DOMAIN routeQ : From(routeQ[k], r, u) => routeCommand[u] = c.name

(* So the start spans the whole line until its end.                        *)
Whole(r, c) == c.beginUn = 0 /\ NextObeys(r, c)

SInv ==
  undisturbed => /\ HeldAsListed /\ KeptOff
                 /\ \A r \in Routes : starting(r) => Whole(r, workCmds[r][1])

(* The unit u takes the start n, or has nothing to say.                    *)
Heeds(u, n) ==
  ~Rest(u)' \/ routeQ' # routeQ =>
    routeCommand'[u] = n /\ (hasEngine(u) => Rest(u)' \/ out'[u])

(* A start that u follows is not lost. *)
Persists(u) ==
  \A n \in Begins : routeCommand[u] = n /\ (hasEngine(u) => out[u]) =>
                      routeCommand'[u] = n /\ (hasEngine(u) => out'[u])

LEMMA CommandHeeds ==
  ASSUME TypeOK, UnitsKnown, HeldAsListed, KeptOff, ListsAgree, commandFromRoute,
         NEW u \in Units, unitQ # <<>>, Head(unitQ).un = u
  PROVE  KeptOff' /\ (Head(unitQ).cmd \in Begins /\ Rest(u) => Heeds(u, Head(unitQ).cmd))
<1>0. /\ due \in [Units -> 0 .. MaxDue] /\ sensed \in [Units -> {"no", "mid", "yes"}]
      /\ out \in [Units -> BOOLEAN] /\ routeCommand \in [Units -> RouteCommands]
  BY DEF TypeOK, PlantTypes, HeldTypes
<1>1. PICK c : c = Head(unitQ).cmd
  <2>1. \E c : c = Head(unitQ).cmd
    OBVIOUS
  <2> QED
    BY <2>1
<1>2. /\ UNCHANGED <<sensed, alarm, mode, eng, routeMode>>
      /\ \/ myRoute[u] = NoRoute /\ Ignore
         \/ myRoute[u] # NoRoute /\ routeCommand[u] = c /\ RepeatCommand(u, c)
         \/ myRoute[u] # NoRoute /\ routeCommand[u] # c /\ AcceptCommand(u, c)
  BY <1>1, Zenon DEF commandFromRoute, plant, held
<1>3. Known(u) /\ Untroubled(u)
  BY DEF UnitsKnown
<1>4. ASSUME UNCHANGED <<routeCommand, out, due>>, routeQ' = routeQ \/ routeCommand[u] = c
      PROVE  KeptOff' /\ (c \in Begins /\ Rest(u) => Heeds(u, c))
  BY <1>0, <1>2, <1>4 DEF KeptOff, Rest, Heeds
<1>5. CASE Ignore
  BY <1>1, <1>4, <1>5 DEF Ignore
<1>6. CASE routeCommand[u] = c /\ RepeatCommand(u, c)
  BY <1>1, <1>4, <1>6 DEF RepeatCommand
<1>7. CASE myRoute[u] # NoRoute /\ AcceptCommand(u, c)
  <2> DEFINE m == ModeOfCommand(u, mode[u], c)
             rs == setModeResp(u, m)
             value == outAfter(u, m)
  <2>1. /\ Write(u, value)
        /\ routeCommand' = IF rs = "Rejected" THEN routeCommand
                           ELSE [routeCommand EXCEPT ![u] = c]
    BY <1>7 DEF AcceptCommand
  <2>2. routeMode[u] \in listModes(u)
    BY <1>7 DEF HeldAsListed
  <2>3. ASSUME hasEngine(u), "UnMdStart" \notin listModes(u)
        PROVE  /\ ~out[u] /\ value = FALSE /\ Rest(u)
               /\ c \in Begins => rs # "Rejected"
    <3>1. ~out[u] /\ Rest(u)
      BY <2>3 DEF KeptOff
    <3>2. eng[u] = "EngStoped" /\ mode[u] = "UnMdStop"
      BY <1>3, <2>3, <3>1 DEF Known
    <3>3. m # "UnMdStart"
      BY <2>2, <2>3, <3>2 DEF ModeOfCommand
    <3>4. value = FALSE
      BY <3>1, <3>3 DEF outAfter
    <3>5. c \in Begins => m = "UnMdStop"
      BY <2>2, <2>3 DEF ModeOfCommand, Begins, ListsAgree
    <3> QED
      BY <2>3, <3>1, <3>2, <3>4, <3>5 DEF setModeResp
  <2>4. ASSUME hasEngine(u), "UnMdStart" \in listModes(u), c \in Begins, Rest(u)
        PROVE  value = TRUE /\ rs # "Rejected"
    <3>1. m = "UnMdStart"
      BY <2>2, <2>4 DEF ModeOfCommand, Begins, ListsAgree
    <3>2. IF out[u] THEN eng[u] = "EngForvard" ELSE eng[u] = "EngStoped"
      BY <1>3, <2>4 DEF Known
    <3> QED
      BY <1>0, <1>3, <2>4, <3>1, <3>2 DEF outAfter, canStart, setModeResp, Untroubled
  <2>5. ASSUME ~hasEngine(u), c \in Begins
        PROVE  rs # "Rejected"
    <3>1. m \in LevelModes(u)
      BY <2>2, <2>5 DEF ModeOfCommand, Begins, ListsAgree
    <3> QED
      BY <2>5, <3>1 DEF setModeResp
  <2> HIDE DEF m, rs, value
  <2>6. /\ out' = [out EXCEPT ![u] = value]
        /\ due' = [due EXCEPT ![u] = IF value # out[u] THEN MaxDue ELSE @]
    BY <2>1 DEF Write
  <2>7. /\ \A w \in Units \ {u} : out'[w] = out[w] /\ due'[w] = due[w]
        /\ out'[u] = value /\ due'[u] = IF value # out[u] THEN MaxDue ELSE due[u]
        /\ routeCommand'[u] = IF rs = "Rejected" THEN routeCommand[u] ELSE c
    BY <1>0, <2>1, <2>6
  <2>8. KeptOff'
    <3> SUFFICES ASSUME NEW w \in Units, hasEngine(w), "UnMdStart" \notin listModes(w)
                 PROVE  (~out[w] /\ Rest(w))'
      BY DEF KeptOff
    <3>1. ~out[w] /\ Rest(w)
      BY DEF KeptOff
    <3>2. out'[w] = out[w] /\ due'[w] = due[w]
      BY <1>0, <2>3, <2>7
    <3> QED
      BY <1>2, <3>1, <3>2 DEF Rest
  <2>9. ASSUME c \in Begins, Rest(u) PROVE Heeds(u, c)
    <3>1. routeCommand'[u] = c
      BY <2>3, <2>4, <2>5, <2>7, <2>9
    <3>2. ASSUME hasEngine(u) PROVE Rest(u)' \/ out'[u]
      <4>1. CASE "UnMdStart" \in listModes(u)
        BY <2>4, <2>7, <2>9, <3>2, <4>1
      <4>2. CASE "UnMdStart" \notin listModes(u)
        BY <1>0, <1>2, <2>3, <2>7, <3>2, <4>2 DEF Rest
      <4> QED
        BY <4>1, <4>2
    <3> QED
      BY <3>1, <3>2 DEF Heeds
  <2> QED
    BY <1>1, <2>8, <2>9
<1> QED
  BY <1>2, <1>5, <1>6, <1>7

LEMMA LooksPersist ==
  ASSUME TypeOK, UnitsKnown, UnitsRest, HeldAsListed, KeptOff, ListsAgree,
         NEW u \in Units, Observe(u) \/ Contactor(u)
  PROVE  KeptOff' /\ (myRoute[u] # NoRoute => Persists(u))
<1>0. /\ due \in [Units -> 0 .. MaxDue] /\ sensed \in [Units -> {"no", "mid", "yes"}]
      /\ out \in [Units -> BOOLEAN] /\ routeCommand \in [Units -> RouteCommands]
  BY DEF TypeOK, PlantTypes, HeldTypes
<1>1. UNCHANGED out /\ ~Rest(u) /\ hasEngine(u)
  <2>1. CASE Observe(u)
    BY <1>0, <2>1 DEF Observe, Rest, UnitsKnown, Untroubled
  <2>2. CASE Contactor(u)
    BY <1>0, <2>2 DEF Contactor, Rest
  <2> QED
    BY <2>1, <2>2
<1>2. \A w \in Units \ {u} : due'[w] = due[w] /\ sensed'[w] = sensed[w]
  <2>1. CASE Observe(u)
    BY <1>0, <2>1 DEF Observe, plant
  <2>2. CASE Contactor(u)
    BY <1>0, <2>2 DEF Contactor, Report
  <2> QED
    BY <2>1, <2>2
<1>3. "UnMdStart" \in listModes(u)
  BY <1>1 DEF KeptOff
<1>4. KeptOff'
  BY <1>1, <1>2, <1>3 DEF KeptOff, Rest
<1>5. CASE Contactor(u)
  BY <1>4, <1>5 DEF Contactor, Persists
<1>6. CASE Observe(u)
  <2> SUFFICES ASSUME myRoute[u] # NoRoute, NEW n \in Begins, routeCommand[u] = n, out[u]
               PROVE  routeCommand'[u] = n
    BY <1>1, <1>4 DEF Persists
  <2>1. routeMode[u] = "UnMdStart"
    BY <1>1, <1>3 DEF HeldAsListed, ListsAgree
  <2>2. settledModes(u) \subseteq {"UnMdStart"}
    BY <1>0, <1>1 DEF settledModes, engineState, UnitsRest
  <2>3. ASSUME NEW m \in settledModes(u), setCurrentMode(u, m) PROVE routeCommand'[u] = n
    <3>1. m = "UnMdStart" /\ ModeOfCommand(u, m, routeCommand[u]) = "UnMdStart"
      BY <2>1, <2>2, <2>3 DEF ModeOfCommand, Begins
    <3>2. icvalModes(ModeOfCommand(u, m, routeCommand[u]), m)
      BY <3>1 DEF icvalModes
    <3> QED
      BY <2>3, <3>2 DEF setCurrentMode
  <2> QED
    BY <1>6, <2>3 DEF Observe
<1> QED
  BY <1>5, <1>6

(* A step of a unit keeps the start of its route whole. *)
LEMMA UnitWhole ==
  ASSUME TypeOK, NEW u \in Units, OwnStep(u),
         \/ Heard(u) /\ (Head(unitQ).cmd \in Begins /\ Rest(u) => Heeds(u, Head(unitQ).cmd))
         \/ Looked(u) /\ (myRoute[u] # NoRoute => Persists(u)),
         NEW r \in Routes, UNCHANGED unitList, NEW c \in RouteCmds, c.name \in Begins,
         \A i \in DOMAIN unitList[r] : myRoute[unitList[r][i].un] # NoRoute,
         InLine(r, c), Whole(r, c)
  PROVE  Whole(r, c)'
<1>1. unitQ \in Seq(UnitCommands) /\ routeQ \in Seq(Events)
  BY DEF TypeOK, QueueTypes
<1>2. PICK x \in RouteCommands : routeQ' \in {routeQ, routeQ \o informToRoute(u, x)}
  BY DEF Heard, Looked
<1>3. \A k \in DOMAIN routeQ' :
        \/ k \in DOMAIN routeQ /\ routeQ'[k] = routeQ[k]
        \/ /\ k \notin DOMAIN routeQ /\ routeQ' # routeQ
           /\ routeQ'[k] = [ev |-> "Inform", rt |-> myRoute[u], un |-> u, arg |-> x]
  BY <1>1, <1>2, AnswerAdded
<1> SUFFICES ASSUME NEW i \in DOMAIN unitList[r], NEW w \in Units,
                    i - 1 = c.last - 1, unitList[r][i].un = w
             PROVE  /\ ~Rest(w)' => routeCommand'[w] = c.name /\ (hasEngine(w) => out'[w])
                    /\ \A k \in DOMAIN routeQ' :
                         From(routeQ'[k], r, w) => routeCommand'[w] = c.name
  BY DEF Whole, NextObeys, From, Rest
<1>4. /\ ~Rest(w) => routeCommand[w] = c.name /\ (hasEngine(w) => out[w])
      /\ \A k \in DOMAIN routeQ : From(routeQ[k], r, w) => routeCommand[w] = c.name
  BY DEF Whole, NextObeys
<1>5. CASE w # u
  <2>1. /\ Rest(w)' <=> Rest(w)
        /\ routeCommand'[w] = routeCommand[w] /\ out'[w] = out[w]
    BY <1>5 DEF OwnStep, Same, Rest
  <2>2. \A k \in DOMAIN routeQ' :
          From(routeQ'[k], r, w) => k \in DOMAIN routeQ /\ routeQ'[k] = routeQ[k]
    BY <1>3, <1>5 DEF From
  <2> QED
    BY <1>4, <2>1, <2>2
<1>6. CASE /\ w = u /\ Heard(u)
           /\ Head(unitQ).cmd \in Begins /\ Rest(u) => Heeds(u, Head(unitQ).cmd)
  <2>1. 1 \in DOMAIN unitQ /\ unitQ[1] = Head(unitQ) /\ unitQ[1].un = u
    BY <1>1, <1>6 DEF Heard
  <2>2. /\ unitQ[1].cmd = c.name /\ Rest(u)
        /\ \A l \in DOMAIN routeQ : ~From(routeQ[l], r, u)
    BY <1>6, <2>1 DEF InLine, OrdersNext
  <2>3. Heeds(u, c.name)
    BY <1>6, <2>1, <2>2
  <2>4. \A k \in DOMAIN routeQ' : From(routeQ'[k], r, u) => routeQ' # routeQ
    BY <2>2
  <2> QED
    BY <1>6, <2>3, <2>4 DEF Heeds
<1>7. CASE w = u /\ Looked(u) /\ (myRoute[u] # NoRoute => Persists(u))
  <2>1. ~Rest(u) /\ Persists(u)
    BY <1>7 DEF Looked
  <2> QED
    BY <1>4, <1>7, <2>1 DEF Persists
<1> QED
  BY <1>5, <1>6, <1>7

LEMMA UnitsWhole ==
  ASSUME FixedInv, BInv, SInv, undisturbed, NEW u \in Units, OwnStep(u),
         \/ Heard(u) /\ (Head(unitQ).cmd \in Begins /\ Rest(u) => Heeds(u, Head(unitQ).cmd))
         \/ Looked(u) /\ (myRoute[u] # NoRoute => Persists(u)),
         KeptOff', UNCHANGED routeVars
  PROVE  SInv'
<1>1. /\ TypeOK /\ workCmds \in [Routes -> Seq(RouteCmds)]
      /\ UNCHANGED <<unitList, workCmds>> /\ UNCHANGED <<myRoute, routeMode>>
  BY DEF FixedInv, IInv, TypeOK, CommandTypes, OwnStep, held, routeVars
<1>2. HeldAsListed'
  BY <1>1 DEF SInv, HeldAsListed
<1>3. ASSUME NEW r \in Routes, starting(r)', NEW c, c = workCmds'[r][1] PROVE Whole(r, c)'
  <2>1. starting(r) /\ c = workCmds[r][1]
    BY <1>1, <1>3 DEF starting, working
  <2>2. c \in RouteCmds /\ c.name \in Begins
    BY <1>1, <2>1 DEF starting, working
  <2>3. InLine(r, c) /\ Whole(r, c)
    BY <2>1 DEF BInv, StartsInLine, SInv
  <2>4. \A i \in DOMAIN unitList[r] : myRoute[unitList[r][i].un] # NoRoute
    BY <2>1, HeldUnit, UnitConstants DEF starting
  <2> QED
    BY <1>1, <2>2, <2>3, <2>4, UnitWhole
<1> QED
  BY <1>2, <1>3 DEF SInv

(* A start whose command, units and answers stay is still whole. *)
LEMMA WholeKept ==
  ASSUME NEW r, NEW c, Whole(r, c), UNCHANGED <<unitList, out, due, sensed>>,
         \A i \in DOMAIN unitList[r] :
           routeCommand'[unitList[r][i].un] = routeCommand[unitList[r][i].un],
         \A k \in DOMAIN routeQ' : \E n \in DOMAIN routeQ : routeQ[n] = routeQ'[k]
  PROVE  Whole(r, c)'
<1>1. \A u \in Units : Rest(u)' <=> Rest(u)
  BY DEF Rest
<1> QED
  BY <1>1 DEF Whole, NextObeys, From

LEMMA ReleaseHolds ==
  ASSUME HeldAsListed, NEW us, Release(us)
  PROVE  HeldAsListed'
  BY DEF HeldAsListed, Release, HandOver

(* Units are taken in the modes of the list. *)
LEMMA SetHolds ==
  ASSUME FixedInv, HeldAsListed, NEW r \in Routes, NEW w, NEW g, NEW c, NEW gnrl,
         SetCommand(r, w, g, c, gnrl)
  PROVE  HeldAsListed'
<1>1. /\ TypeOK /\ unitList = InitList /\ unitList[r] \in Seq(ListItems)
      /\ myRoute \in [Units -> Routes \cup {NoRoute}]
  BY DEF FixedInv, IInv, NoEdits, TypeOK, ListTypes, HeldTypes
<1>2. CASE UNCHANGED <<myRoute, routeMode>>
  BY <1>2 DEF HeldAsListed
<1>3. CASE _ConnectUnit(r, freeOf(r))
  <2> SUFFICES ASSUME NEW u \in Units, myRoute'[u] # NoRoute
               PROVE  routeMode'[u] \in listModes(u)
    BY DEF HeldAsListed
  <2>1. CASE u \in unitsOf(r) /\ myRoute[u] = NoRoute
    <3>1. PICK i : i = indexOf(r, u) /\ i \in DOMAIN unitList[r] /\ unitList[r][i].un = u
      BY <2>1, IndexOf
    <3>2. routeMode'[u] = unitList[r][i].mode
      BY <1>3, <2>1, <3>1 DEF _ConnectUnit, freeOf, HandOver
    <3>3. unitList[r][i] \in ListItems
      BY <1>1, <3>1
    <3>4. unitList[r][i].mode \in UnitModes
      BY <3>3 DEF ListItems
    <3> QED
      BY <1>1, <3>1, <3>2, <3>4 DEF listModes
  <2>2. CASE ~(u \in unitsOf(r) /\ myRoute[u] = NoRoute)
    BY <1>3, <2>2 DEF _ConnectUnit, freeOf, HandOver, HeldAsListed
  <2> QED
    BY <2>1, <2>2
<1>4. CASE \E us : Release(us)
  BY <1>4, ReleaseHolds
<1> QED
  BY <1>2, <1>3, <1>4 DEF SetCommand, _ConnectAllUnits, held


(* The rest of it from what becomes of the route p.                        *)
LEMMA RouteWhole ==
  ASSUME FixedInv, SInv, undisturbed, Owned', NEW p \in Routes, RouteStep(p), HeldAsListed',
         NEW d, starting(p)' => d = workCmds'[p][1] /\ Whole(p, d)'
  PROVE  SInv'
<1>1. /\ UNCHANGED <<unitList, out, due, sensed>>
      /\ \A q \in Routes \ {p} : workCmds'[q] = workCmds[q]
  BY DEF RouteStep, others
<1>2. KeptOff'
  BY <1>1 DEF SInv, KeptOff, Rest
<1>3. ASSUME NEW r \in Routes, starting(r)', NEW c, c = workCmds'[r][1] PROVE Whole(r, c)'
  <2>1. CASE r = p
    BY <1>3, <2>1
  <2>2. CASE r # p
    <3>1. starting(r) /\ c = workCmds[r][1] /\ working(r) /\ working(r)'
      BY <1>1, <1>3, <2>2 DEF starting, working
    <3>2. Whole(r, c)
      BY <3>1 DEF SInv
    <3>3. \A i \in DOMAIN unitList[r] :
            unitList[r][i].un \in Units /\ unitList[r][i].un \in unitsOf(r)
      BY HeldUnit
    <3>4. unitsOf(r)' = unitsOf(r)
      BY <1>1 DEF unitsOf
    <3>5. \A w \in unitsOf(r) : myRoute[w] = r /\ myRoute'[w] = r
      BY <3>1, <3>4 DEF FixedInv, Owned
    <3>6. \A i \in DOMAIN unitList[r] :
            routeCommand'[unitList[r][i].un] = routeCommand[unitList[r][i].un]
      BY <2>2, <3>3, <3>5, UnitConstants DEF RouteStep, Handed, UnitKept
    <3> QED
      BY <1>1, <3>2, <3>6, AnswersLeft, WholeKept
  <2> QED
    BY <2>1, <2>2
<1> QED
  BY <1>2, <1>3 DEF SInv

(* A start that goes on by one unit comes to one that rests.               *)
LEMMA ScansWhole ==
  ASSUME FixedInv, DistinctLists, WInv, BInv, SInv, undisturbed, Owned',
         \/ ScanOther    \/ ScanParallel  \/ ScanKept  \/ ScanFar
         \/ NextDone     \/ NextFailed    \/ LeftSave  \/ LeftCleanStop
         \/ LeftForClean \/ LeftFailed    \/ LeftSilos \/ LeftBunker
  PROVE  SInv'
<1>1. PICK p \in Routes : /\ p = rt /\ RouteStep(p)
                          /\ IF starting(p) THEN Goes(p) ELSE ~starting(p)'
  BY ScansBegin
<1>2. Scanning /\ UNCHANGED linked
  BY ScansBegin
<1>3. HeldAsListed'
  BY <1>2 DEF SInv, HeldAsListed, linked, held
<1>4. PICK w, c : w = workCmds[p][1] /\ c = workCmds'[p][1]
  <2>1. \E w, c : w = workCmds[p][1] /\ c = workCmds'[p][1]
    OBVIOUS
  <2> QED
    BY <2>1
<1>5. CASE ~starting(p)
  BY <1>1, <1>3, <1>5, RouteWhole
<1>6. CASE starting(p)
  <2>1. InLine(p, w) /\ Whole(p, w) /\ w \in RouteCmds
    <3>1. w \in RouteCmds
      BY <1>4, <1>6, OneStands DEF BInv, starting
    <3> QED
      BY <1>4, <1>6, <3>1 DEF BInv, StartsInLine, SInv
  <2>2. /\ resp = w.name <=> routeCommand[un] = w.name
        /\ un \in Units /\ \A i \in DOMAIN unitList[p] : unitList[p][i].un = un <=> i - 1 = unN
    BY <1>1, <1>2, <1>4, <1>6, AnswerNews, UnitInHand DEF Scanning
  <2>3. 1 \in DOMAIN routeQ /\ From(routeQ[1], p, un)
    <3>1. routeQ \in Seq(Events) /\ routeQ # <<>> /\ Head(routeQ).ev = "Inform"
      BY <1>2 DEF Scanning, informed, FixedInv, IInv, TypeOK, QueueTypes
    <3>2. 1 \in DOMAIN routeQ /\ routeQ[1] = Head(routeQ)
      BY <3>1
    <3> QED
      BY <1>1, <3>1, <3>2 DEF From, rt, un
  <2>4. PICK j \in DOMAIN unitList[p] : unitList[p][j].un = un
    BY <1>1, <1>2 DEF Scanning, known, unitsOf
  <2>5. ASSUME unN = w.last - 1 PROVE resp = w.name
    <3>1. j - 1 = w.last - 1
      BY <2>2, <2>4, <2>5
    <3> QED
      BY <2>1, <2>2, <2>3, <2>4, <3>1 DEF Whole, NextObeys
  <2>6. c.name = w.name /\ c.beginUn = w.beginUn /\ c.last \in {w.last, w.last - 1}
    BY <1>1, <1>4, <1>6, <2>5 DEF Goes
  <2>7. UNCHANGED <<unitList, out, due, sensed, routeCommand, routeQ>>
    BY <1>2 DEF Scanning, aside, others, linked
  <2>8. CASE c.last = w.last
    <3>1. Whole(p, w)'
      BY <2>1, <2>7, WholeKept
    <3>2. Whole(p, c)'
      BY <2>6, <2>8, <3>1 DEF Whole, NextObeys
    <3> QED
      BY <1>1, <1>3, <1>4, <3>2, RouteWhole
  <2>9. CASE c.last = w.last - 1
    <3>1. unitList[p] \in Seq(ListItems) /\ w.last \in Int
      BY <2>1 DEF FixedInv, IInv, TypeOK, ListTypes, RouteCmds
    <3>2. ASSUME NEW i \in DOMAIN unitList[p], i - 1 = c.last - 1, NEW u, u = unitList[p][i].un
          PROVE  Rest(u) /\ \A k \in DOMAIN routeQ : ~From(routeQ[k], p, u)
      <4>1. i \in Nat
        BY <3>1
      <4>2. i - 1 < w.last - 1 /\ ~(i - 1 >= w.last - 1)
        BY <2>9, <3>1, <3>2, <4>1
      <4> QED
        BY <2>1, <3>2, <4>2 DEF InLine, AheadRests, AnswersTrue
    <3>3. \A u : Rest(u)' <=> Rest(u)
      BY <2>7 DEF Rest
    <3>4. NextObeys(p, c)'
      BY <2>7, <3>2, <3>3 DEF NextObeys, From
    <3>5. Whole(p, c)'
      BY <2>1, <2>6, <3>4 DEF Whole
    <3> QED
      BY <1>1, <1>3, <1>4, <3>5, RouteWhole
  <2> QED
    BY <2>6, <2>8, <2>9
<1> QED
  BY <1>5, <1>6

(* A start that is ordered is told to a unit that rests.                   *)
LEMMA OrderWhole ==
  ASSUME FixedInv, NoEmptyList, DistinctLists, WInv, BInv, SInv, undisturbed, Owned',
         NEW r \in Routes, Start(r) \/ Stop(r) \/ CleanStop(r) \/ Freeze(r)
  PROVE  SInv'
<1>1. /\ RouteStep(r)
      /\ starting(r)' => /\ workCmds'[r][1].beginUn = 0 /\ routeQ' = <<>>
                         /\ \A u \in Units : Rest(u)'
  BY OrderBegins
<1>2. HeldAsListed'
  <2> DEFINE w == <<>>
  <2>1. PICK c, gnrl : SetCommand(r, w, 0, c, gnrl)
    BY Zenon DEF Start, Stop, CleanStop, Freeze, Restart
  <2> HIDE DEF w
  <2> QED
    BY <2>1, SetHolds DEF SInv
<1>3. PICK d : d = workCmds'[r][1]
  <2>1. \E d : d = workCmds'[r][1]
    OBVIOUS
  <2> QED
    BY <2>1
<1>4. starting(r)' => Whole(r, d)'
  <2> SUFFICES ASSUME starting(r)' PROVE Whole(r, d)'
    OBVIOUS
  <2>1. d.beginUn = 0 /\ DOMAIN routeQ' = {} /\ \A u \in Units : Rest(u)'
    BY <1>1, <1>3
  <2> QED
    BY <2>1 DEF Whole, NextObeys
<1> QED
  BY <1>1, <1>2, <1>3, <1>4, RouteWhole

LEMMA EndingWhole ==
  ASSUME FixedInv, NoEmptyList, DistinctLists, WInv, BInv, SInv, undisturbed, Owned',
         InformFromStranger \/ RouteDone \/ NextQueued \/ StillWorking
  PROVE  SInv'
<1>1. PICK p \in Routes : RouteStep(p) /\ (~starting(p)' \/ LeavesAlone)
  BY EndingBegins
<1>2. HeldAsListed'
  <2>1. CASE InformFromStranger \/ StillWorking
    BY <2>1 DEF InformFromStranger, StillWorking, linked, held, SInv, HeldAsListed
  <2>2. PICK q \in Routes : q = rt
    BY EndingTaken
  <2>3. CASE RouteDone
    <3>1. PICK us : Release(us)
      BY <2>3 DEF RouteDone, DisconnectAllUnit
    <3> QED
      BY <3>1, ReleaseHolds DEF SInv
  <2>4. CASE NextQueued
    <3> DEFINE w == <<>>
    <3>1. PICK c, gnrl : SetCommand(q, w, 0, c, gnrl)
      BY <2>2, <2>4, Zenon DEF NextQueued
    <3> HIDE DEF w
    <3> QED
      BY <3>1, SetHolds DEF SInv
  <2> QED
    BY <2>1, <2>3, <2>4
<1>3. PICK d : d = workCmds'[p][1]
  <2>1. \E d : d = workCmds'[p][1]
    OBVIOUS
  <2> QED
    BY <2>1
<1>4. ASSUME starting(p)' PROVE Whole(p, d)'
  <2>1. LeavesAlone
    BY <1>1, <1>4
  <2>2. starting(p) /\ d = workCmds[p][1]
    BY <1>3, <1>4, <2>1 DEF LeavesAlone, starting, working
  <2>3. Whole(p, d)
    BY <2>2 DEF SInv
  <2>4. UNCHANGED <<unitList, out, due, sensed, routeCommand>>
    BY <1>1, <2>1 DEF LeavesAlone, RouteStep, others
  <2> QED
    BY <1>1, <2>3, <2>4, AnswersLeft, WholeKept
<1> QED
  BY <1>1, <1>2, <1>3, <1>4, RouteWhole

-----------------------------------------------------------------------------
(* All steps.                                                              *)

LEMMA ShowWhole ==
  ASSUME SInv, UNCHANGED <<unitVars, unitList, workCmds>>
  PROVE  SInv'
<1>1. UNCHANGED <<myRoute, routeMode, routeCommand, out, due, sensed, routeQ, disturb>>
  BY DEF unitVars
<1>2. HeldAsListed => HeldAsListed'
  BY <1>1 DEF HeldAsListed
<1>3. KeptOff => KeptOff'
  BY <1>1 DEF KeptOff, Rest
<1>4. ASSUME NEW r \in Routes, starting(r) => Whole(r, workCmds[r][1]),
             starting(r)', NEW c, c = workCmds'[r][1]
      PROVE  Whole(r, c)'
  <2>1. Whole(r, c)
    BY <1>4 DEF starting, working
  <2> QED
    BY <1>1, <2>1, WholeKept
<1> QED
  BY <1>1, <1>2, <1>3, <1>4 DEF SInv, undisturbed

LEMMA ClickWhole ==
  ASSUME FixedInv, SInv, NEW r \in Routes, NEW op, Click(r, op), settled
  PROVE  SInv'
<1>1. /\ UNCHANGED <<myRoute, routeMode, routeCommand, out, due, sensed, disturb>>
      /\ UNCHANGED <<unitList, workCmds>> /\ routeQ = <<>>
      /\ routeQ' = Append(routeQ, [ev |-> "Op", rt |-> r, un |-> NoUnit, arg |-> op])
  BY DEF Click, settled, held, others
<1>2. \A k \in DOMAIN routeQ' : routeQ'[k].ev = "Op"
  BY <1>1
<1>3. HeldAsListed => HeldAsListed'
  BY <1>1 DEF HeldAsListed
<1>4. KeptOff => KeptOff'
  BY <1>1 DEF KeptOff, Rest
<1>5. ASSUME NEW q \in Routes, starting(q) => Whole(q, workCmds[q][1]),
             starting(q)', NEW c, c = workCmds'[q][1]
      PROVE  Whole(q, c)'
  <2>1. Whole(q, c)
    BY <1>1, <1>5 DEF starting, working
  <2>2. \A u : Rest(u)' <=> Rest(u)
    BY <1>1 DEF Rest
  <2> QED
    BY <1>1, <1>2, <2>1, <2>2 DEF Whole, NextObeys, From
<1> QED
  BY <1>1, <1>3, <1>4, <1>5 DEF SInv, undisturbed

LEMMA InitWhole ==
  ASSUME Init
  PROVE  SInv
<1>1. \A r \in Routes : ~starting(r)
  BY DEF Init, starting, working
<1>2. HeldAsListed /\ KeptOff
  BY DEF Init, UnitInit, HeldAsListed, KeptOff, Rest
<1> QED
  BY <1>1, <1>2 DEF SInv

LEMMA ObeyNext ==
  ASSUME FixedLists, NoEmptyList, DistinctLists, ListsAgree,
         FixedInv, WInv, BInv, SInv, [PatientNext]_vars, Owned'
  PROVE  SInv'
<1>0. TypeOK /\ NoEdits /\ UnitsRest
  BY DEF FixedInv, IInv, WInv
<1>1. CASE UNCHANGED vars
  BY <1>1, ShowWhole DEF vars, routeVars
<1>2. CASE (UnitThread \/ UnitPlant) /\ UNCHANGED routeVars
  <2> SUFFICES ASSUME undisturbed' PROVE SInv'
    BY DEF SInv
  <2>1. undisturbed
    <3>1. disturb' = disturb \/ disturb' = disturb - 1
      BY <1>2 DEF UnitThread, UnitPlant, commandFromRoute, Observe, plant, Contactor, LevelChange,
                  Rescan, Bounce, detectAlarm, resetAlarm, UserSetMode, Disturb
    <3> QED
      BY <1>0, <3>1, UnitConstants DEF undisturbed, TypeOK, PlantTypes
  <2>2. UnitsKnown /\ HeldAsListed /\ KeptOff
    BY <2>1 DEF BInv, SInv
  <2>3. CASE commandFromRoute
    <3>1. PICK u \in Units : OwnStep(u) /\ Heard(u)
      BY <1>0, <2>2, <2>3, CommandStarts
    <3>2. unitQ # <<>> /\ Head(unitQ).un = u
      BY <3>1 DEF Heard
    <3>3. KeptOff' /\ (Head(unitQ).cmd \in Begins /\ Rest(u) => Heeds(u, Head(unitQ).cmd))
      BY <1>0, <2>2, <2>3, <3>2, CommandHeeds
    <3> QED
      BY <1>2, <2>1, <3>1, <3>3, UnitsWhole
  <2>4. ASSUME NEW u \in Units, Observe(u) \/ Contactor(u) PROVE SInv'
    <3>1. OwnStep(u) /\ Looked(u)
      BY <1>0, <2>2, <2>4, ObserveStarts, ContactorStarts
    <3>2. KeptOff' /\ (myRoute[u] # NoRoute => Persists(u))
      BY <1>0, <2>2, <2>4, LooksPersist
    <3> QED
      BY <1>2, <2>1, <3>1, <3>2, UnitsWhole
  <2>5. CASE UnitPlant
    <3>1. PICK u \in Units : Contactor(u)
      BY <1>0, <2>2, <2>5, PlantStarts
    <3> QED
      BY <2>4, <3>1
  <2> QED
    BY <1>2, <2>3, <2>4, <2>5 DEF UnitThread
<1>3. CASE RouteThread
  <2>1. CASE InformStep
    <3>1. UNCHANGED disturb
      BY <2>1 DEF InformStep, InformFromStranger, ScanOther, ScanParallel, ScanKept, LeftForClean,
                  LeftCleanStop, LeftSave, ToRouteLeft, LeftFailed, LeftSilos, LeftBunker, Left,
                  Covered, Ahead, ScanFar, NextDone, NextFailed, RemoveCommand, RouteDone,
                  NextQueued, StillWorking, Ending, Scan, Scanning, aside, others
    <3> SUFFICES ASSUME undisturbed PROVE SInv'
      BY <3>1 DEF SInv, undisturbed
    <3> QED
      BY <2>1, ScansWhole, NoneRemoved, EndingWhole DEF InformStep
  <2>2. ASSUME NEW r \in Routes, Start(r) \/ Stop(r) \/ CleanStop(r) \/ Freeze(r)
        PROVE  SInv'
    <3>1. UNCHANGED disturb
      BY <2>2 DEF Start, Stop, CleanStop, Freeze, Handle, others
    <3> SUFFICES ASSUME undisturbed PROVE SInv'
      BY <3>1 DEF SInv, undisturbed
    <3> QED
      BY <2>2, OrderWhole
  <2> QED
    BY <1>0, <1>3, <2>1, <2>2, HandlersFixed
<1>4. ASSUME NEW r \in Routes, Operator(r), ops' # ops => settled PROVE SInv'
  <2>1. ASSUME NEW op \in OpNames, Click(r, op) PROVE SInv'
    <3>1. ops' # ops
      BY <1>0, <2>1 DEF Click, TypeOK, ListTypes
    <3> QED
      BY <1>4, <2>1, <3>1, ClickWhole
  <2>2. ASSUME NEW u, NEW m, AddInRoute(r, u, m) PROVE FALSE
    BY <2>2 DEF AddInRoute, FixedLists
  <2> QED
    BY <1>4, <2>1, <2>2 DEF Operator
<1>5. ASSUME NEW r \in Routes, Show(r) PROVE SInv'
  BY <1>5, ShowWhole DEF Show
<1> QED
  BY <1>1, <1>2, <1>3, <1>4, <1>5 DEF PatientNext, Next

(* A whole start that is over has passed every unit of the line.           *)
LEMMA WholeRuns ==
  ASSUME FixedInv, BInv, SInv
  PROVE  StartedRuns
<1> SUFFICES ASSUME NEW r \in Routes, working(r), main(r).name \in Begins, main(r).finCmd,
                    undisturbed, NEW u \in unitsOf(r), hasEngine(u), routeMode[u] = "UnMdStart"
             PROVE  out[u]
  BY DEF StartedRuns, Begins
<1>1. PICK c : c = workCmds[r][1]
  <2>1. \E c : c = workCmds[r][1]
    OBVIOUS
  <2> QED
    BY <2>1
<1>2. main(r) = c /\ c \in RouteCmds
  BY <1>1, OneStands DEF main, BInv
<1>3. starting(r)
  BY <1>1, <1>2 DEF starting
<1>4. InLine(r, c) /\ c.beginUn = 0
  BY <1>1, <1>3 DEF BInv, StartsInLine, SInv, Whole
<1>5. c.last <= 0 /\ c.last \in Int
  BY <1>2, <1>4 DEF InLine, Heading, RouteCmds
<1>6. PICK i \in DOMAIN unitList[r] : unitList[r][i].un = u
  BY DEF unitsOf
<1>7. i \in Nat /\ i > 0
  BY <1>6 DEF FixedInv, IInv, TypeOK, ListTypes
<1>8. i - 1 >= c.last
  BY <1>5, <1>7
<1>9. Steady(u, c.name)
  BY <1>4, <1>6, <1>8 DEF InLine, BehindSteady
<1> QED
  BY <1>9 DEF Steady

(* A start that finished has every engine of the line on that the route    *)
(* runs, as long as the operator waits for the line to settle and nothing  *)
(* disturbs it, for lists that agree which engines run                     *)
(* (Route::InformFromUnit, RouteUnit::setCurrentMode).                     *)
THEOREM StartsRun ==
  ASSUME FixedLists, NoEmptyList, DistinctLists, ListsAgree
  PROVE  PatientSpec => []StartedRuns
<1> DEFINE I == IInv /\ NoEdits /\ InRanges /\ Owned /\ WInv
<1>1. Init => BInv /\ SInv
  BY InitBegins, InitWhole
<1>2. I /\ I' /\ BInv /\ SInv /\ [PatientNext]_vars => BInv' /\ SInv'
  BY BeginNext, ObeyNext DEF FixedInv
<1>3. I /\ BInv /\ SInv => StartedRuns
  BY WholeRuns DEF FixedInv
<1>4. PatientSpec => []I
  BY PatientInductive
<1> HIDE DEF I
<1> QED
  BY <1>1, <1>2, <1>3, <1>4, PTL DEF PatientSpec, PatientNext
=============================================================================
