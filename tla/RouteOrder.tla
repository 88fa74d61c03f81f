----------------------------- MODULE RouteOrder -----------------------------
(***************************************************************************)
(* Proof that a line which is told to stop stops from its beginning        *)
(* (StopInOrder of RouteProps), for lists of distinct units that are not   *)
(* edited, when the operator waits for the line to settle before the next  *)
(* click; alarms, buttons of units and rescans may come at any time.       *)
(*                                                                         *)
(* The argument is about the orders on their way to the units: whoever is  *)
(* told to stop has nobody upstream that runs and has not been told so     *)
(* before.                                                                 *)
(***************************************************************************)
EXTENDS RouteWatch

Halts == {"RtCmStop", "RtCmToSave"}

(* The route is at work because it was told to stop. *)
halting(r) == working(r) /\ lastOp[r] \in {"Stop", "Freeze"}

clicked == routeQ # <<>> /\ Head(routeQ).ev = "Op"

-----------------------------------------------------------------------------

(* An engine that follows a stop is off. *)
Obeyed == \A u \in Units : hasEngine(u) /\ routeCommand[u] \in Halts => ~out[u]

FreeForgets == \A u \in Units : myRoute[u] = NoRoute => routeCommand[u] = "RtCmNo"

(* No order is on its way when a click is handled. *)
ClickQuiet == clicked => unitQ = <<>>

(* An engine that confirms a stop is off, and no start is on its way to it. *)
StopsConfirmed ==
  \A r \in Routes, u \in Units :
     myRoute[u] = r /\ hasEngine(u) /\ (halting(r) \/ clicked) =>
       \A k \in DOMAIN routeQ :
         From(routeQ[k], r, u) /\ routeQ[k].arg = "RtCmToSave" => ~out[u]

(* A route that was told to stop has one command only. *)
Alone(r) ==
  /\ queueCmds[r] = <<>> /\ Len(workCmds[r]) = 1
  /\ \/ workCmds[r][1].name = "RtCmToSave" /\ workCmds[r][1].type = "UpStepByStep"
     \/ workCmds[r][1].name = "RtCmStop" /\ workCmds[r][1].type = "Parallel"

(* The engines that the stop has passed are off. *)
PassedOff(r) ==
  workCmds[r][1].name = "RtCmToSave" =>
    \A i \in DOMAIN unitList[r] :
      i - 1 <= workCmds[r][1].last /\ hasEngine(unitList[r][i].un) => ~out[unitList[r][i].un]

(* u is off, or is told to stop before the k-th order is handled. *)
Halted(u, k) ==
  out[u] => \E l \in DOMAIN unitQ : l < k /\ unitQ[l].un = u /\ unitQ[l].cmd \in Halts

(* Every order on its way to a unit of the route is a stop, and comes when *)
(* the engines upstream are off or have theirs before it.                  *)
StopsFollow(r) ==
  \A k \in DOMAIN unitQ, j \in DOMAIN unitList[r] :
    unitQ[k].un = unitList[r][j].un =>
      /\ unitQ[k].cmd \in Halts
      /\ \A i \in DOMAIN unitList[r] :
           i < j /\ hasEngine(unitList[r][i].un) => Halted(unitList[r][i].un, k)

HaltsInOrder == \A r \in Routes : halting(r) => Alone(r) /\ PassedOff(r) /\ StopsFollow(r)

HInv == Obeyed /\ FreeForgets /\ ClickQuiet /\ StopsConfirmed /\ HaltsInOrder

-----------------------------------------------------------------------------

(* Two queues one after the other.                                         *)
LEMMA ConcatQueue ==
  ASSUME NEW S, NEW s \in Seq(S), NEW t \in Seq(S), NEW x, x = s \o t
  PROVE  /\ \A k \in DOMAIN s : k \in Nat /\ k <= Len(s) /\ k \in DOMAIN x /\ x[k] = s[k]
         /\ \A k \in DOMAIN x : /\ k \in Nat
                                /\ \/ k \in DOMAIN s
                                   \/ /\ k \notin DOMAIN s /\ k > Len(s)
                                      /\ k - Len(s) \in DOMAIN t /\ x[k] = t[k - Len(s)]
         /\ \A k \in DOMAIN t : Len(s) + k \in DOMAIN x /\ x[Len(s) + k] = t[k]
  OBVIOUS

LEMMA MadeSeq == ASSUME NEW S, NEW n \in Nat, NEW s \in [1 .. n -> S] PROVE s \in Seq(S)
  OBVIOUS

(* The answer of a unit comes last in the queue. *)
LEMMA AnswerAdded ==
  ASSUME routeQ \in Seq(Events), NEW u, NEW c,
         routeQ' \in {routeQ, routeQ \o informToRoute(u, c)}
  PROVE  \A k \in DOMAIN routeQ' :
           \/ k \in DOMAIN routeQ /\ routeQ'[k] = routeQ[k]
           \/ /\ k \notin DOMAIN routeQ /\ routeQ' # routeQ
              /\ routeQ'[k] = [ev |-> "Inform", rt |-> myRoute[u], un |-> u, arg |-> c]
<1> DEFINE q == routeQ'
           e == [ev |-> "Inform", rt |-> myRoute[u], un |-> u, arg |-> c]
<1>1. q = routeQ \/ q = routeQ \o <<e>>
  <2>1. routeQ \o <<>> = routeQ
    OBVIOUS
  <2>2. informToRoute(u, c) \in {<<>>, <<e>>}
    BY DEF informToRoute
  <2> HIDE DEF e
  <2> QED
    BY <2>1, <2>2, Zenon
<1> HIDE DEF q, e
<1>2. <<e>> \in Seq(Events \cup {e}) /\ DOMAIN <<e>> = {1} /\ <<e>>[1] = e
      /\ routeQ \in Seq(Events \cup {e})
  OBVIOUS
<1>3. \A k \in DOMAIN q : \/ k \in DOMAIN routeQ /\ q[k] = routeQ[k]
                          \/ k \notin DOMAIN routeQ /\ q # routeQ /\ q[k] = e
  BY <1>1, <1>2, ConcatQueue
<1> QED
  BY <1>3 DEF q, e

-----------------------------------------------------------------------------
(* The units thread and the plant.                                         *)

(* An engine is switched on only while it is free, or by an order that is  *)
(* no stop; one that has handled a stop is off; and a stop is confirmed    *)
(* only by an engine that is off.                                          *)
SwitchesOn(u) ==
  \/ myRoute[u] = NoRoute
  \/ unitQ # <<>> /\ Head(unitQ).un = u /\ Head(unitQ).cmd \notin Halts

OrderTold ==
  \/ unitQ' = unitQ
  \/ /\ unitQ # <<>> /\ unitQ' = Tail(unitQ)
     /\ LET u == Head(unitQ).un
        IN  hasEngine(u) /\ Head(unitQ).cmd \in Halts /\ myRoute[u] # NoRoute => ~out'[u]

StopTold ==
  \E u \in Units, c \in RouteCommands :
     /\ routeQ' \in {routeQ, routeQ \o informToRoute(u, c)}
     /\ hasEngine(u) /\ c = "RtCmToSave" => ~out'[u]

HaltStep ==
  /\ Obeyed' /\ FreeForgets' /\ UNCHANGED held
  /\ OrderTold /\ StopTold
  /\ \A u \in Units : hasEngine(u) /\ ~out[u] /\ out'[u] => SwitchesOn(u)

LEMMA CommandHalts ==
  ASSUME TypeOK, Obeyed, FreeForgets, commandFromRoute
  PROVE  HaltStep
<1>1. PICK u \in Units, c \in RouteCommands :
        /\ unitQ # <<>> /\ Head(unitQ).un = u /\ Head(unitQ).cmd = c
        /\ \/ myRoute[u] = NoRoute /\ Ignore
           \/ myRoute[u] # NoRoute /\ routeCommand[u] = c /\ RepeatCommand(u, c)
           \/ myRoute[u] # NoRoute /\ routeCommand[u] # c /\ AcceptCommand(u, c)
  <2>1. unitQ # <<>> /\ unitQ \in Seq(UnitCommands)
    BY DEF commandFromRoute, TypeOK, QueueTypes
  <2>2. Head(unitQ) \in UnitCommands
    BY <2>1
  <2>3. Head(unitQ).un \in Units /\ Head(unitQ).cmd \in RouteCommands
    BY <2>2 DEF UnitCommands
  <2> QED
    BY <2>1, <2>3, Zenon DEF commandFromRoute
<1>2. unitQ' = Tail(unitQ) /\ UNCHANGED <<held, plant, mode, eng>>
  BY DEF commandFromRoute
<1>3. /\ out \in [Units -> BOOLEAN] /\ routeCommand \in [Units -> RouteCommands]
      /\ "RtCmNo" \in RouteCommands /\ "RtCmNo" \notin Halts /\ "RtCmNo" # "RtCmToSave"
  BY DEF TypeOK, PlantTypes, HeldTypes, RouteCommands, Halts
<1>4. UNCHANGED held /\ \A w \in Units : myRoute'[w] = myRoute[w]
  BY <1>2 DEF held
<1>5. ASSUME \A w \in Units \ {u} : out'[w] = out[w] /\ routeCommand'[w] = routeCommand[w],
             hasEngine(u) /\ routeCommand'[u] \in Halts => ~out'[u],
             myRoute[u] = NoRoute => out'[u] = out[u] /\ routeCommand'[u] = routeCommand[u],
             myRoute[u] # NoRoute /\ hasEngine(u) /\ c \in Halts => ~out'[u],
             StopTold
      PROVE  HaltStep
  <2>1. Obeyed' /\ FreeForgets'
    BY <1>4, <1>5 DEF Obeyed, FreeForgets
  <2>2. OrderTold
    BY <1>1, <1>2, <1>5 DEF OrderTold
  <2>3. \A w \in Units : hasEngine(w) /\ ~out[w] /\ out'[w] => SwitchesOn(w)
    BY <1>1, <1>5 DEF SwitchesOn
  <2> QED
    BY <1>4, <1>5, <2>1, <2>2, <2>3 DEF HaltStep
<1>6. CASE myRoute[u] = NoRoute /\ Ignore
  <2>1. UNCHANGED <<routeCommand, out, routeQ>>
    BY <1>6 DEF Ignore
  <2>2. StopTold
    BY <1>3, <2>1, <1>1 DEF StopTold
  <2> QED
    BY <1>5, <1>6, <2>1, <2>2 DEF Obeyed
<1>7. CASE myRoute[u] # NoRoute /\ routeCommand[u] = c /\ RepeatCommand(u, c)
  <2>1. /\ UNCHANGED <<routeCommand, out>>
        /\ routeQ' \in {routeQ, routeQ \o informToRoute(u, c)}
    BY <1>7 DEF RepeatCommand
  <2>2. hasEngine(u) /\ c \in Halts => ~out'[u]
    BY <1>7, <2>1 DEF Obeyed
  <2>3. StopTold
    BY <2>1, <2>2 DEF StopTold, Halts
  <2> QED
    BY <1>5, <1>7, <2>1, <2>2, <2>3
<1>8. CASE myRoute[u] # NoRoute /\ routeCommand[u] # c /\ AcceptCommand(u, c)
  <2> DEFINE m == ModeOfCommand(u, mode[u], c)
             rs == setModeResp(u, m)
             value == outAfter(u, m)
  <2>1. /\ Write(u, value)
        /\ routeCommand' = IF rs = "Rejected" THEN routeCommand
                           ELSE [routeCommand EXCEPT ![u] = c]
        /\ routeQ' = CASE rs = "Rejected" -> routeQ \o informToRoute(u, "RtCmNo")
                       [] rs = "DoneAlready" -> routeQ \o informToRoute(u, c)
                       [] OTHER -> routeQ
    BY <1>8 DEF AcceptCommand
  <2>2. ASSUME hasEngine(u), c \in Halts PROVE m = "UnMdStop" /\ value = FALSE
    BY <2>2 DEF hasEngine, Halts, ModeOfCommand, outAfter
  <2>3. rs = "Rejected" => m # "UnMdStop" \/ ~hasEngine(u)
    BY DEF setModeResp
  <2>5. value \in BOOLEAN
    BY <1>1, <1>3 DEF outAfter
  <2>6. hasEngine(u) /\ rs = "Rejected" => value = out[u]
    <3>1. ASSUME hasEngine(u), rs = "Rejected", m = "UnMdStart" PROVE ~canStart(u)
      BY <3>1 DEF setModeResp, canStart
    <3>2. out[u] \in BOOLEAN
      BY <1>1, <1>3
    <3> QED
      BY <2>3, <3>1, <3>2 DEF outAfter
  <2> HIDE DEF m, rs, value
  <2>7. out' = [out EXCEPT ![u] = value]
    BY <2>1 DEF Write
  <2>8. /\ \A w \in Units \ {u} : out'[w] = out[w] /\ routeCommand'[w] = routeCommand[w]
        /\ out'[u] = value /\ routeCommand'[u] \in {routeCommand[u], c}
        /\ rs = "Rejected" => routeCommand'[u] = routeCommand[u]
        /\ rs # "Rejected" => routeCommand'[u] = c
    BY <1>1, <1>3, <2>1, <2>7
  <2>9. hasEngine(u) /\ routeCommand'[u] \in Halts => ~out'[u]
    BY <1>1, <2>2, <2>6, <2>8 DEF Obeyed
  <2>10. StopTold
    <3>1. CASE rs = "Rejected"
      BY <1>1, <1>3, <2>1, <3>1 DEF StopTold
    <3>2. CASE rs = "DoneAlready"
      BY <1>1, <2>1, <2>2, <2>8, <3>2 DEF StopTold, Halts
    <3>3. CASE rs \notin {"Rejected", "DoneAlready"}
      BY <1>1, <1>3, <2>1, <3>3 DEF StopTold
    <3> QED
      BY <3>1, <3>2, <3>3
  <2> QED
    BY <1>5, <1>8, <2>2, <2>8, <2>9, <2>10
<1> QED
  BY <1>1, <1>6, <1>7, <1>8

LEMMA ObserveHalts ==
  ASSUME TypeOK, Obeyed, FreeForgets, NEW u \in Units, Observe(u)
  PROVE  HaltStep
<1>1. UNCHANGED <<held, out, unitQ>> /\ \A w \in Units : myRoute'[w] = myRoute[w]
  BY DEF Observe, held
<1>2. routeCommand \in [Units -> RouteCommands]
      /\ "RtCmNo" \in RouteCommands /\ "RtCmNo" \notin Halts /\ "RtCmNo" # "RtCmToSave"
  BY DEF TypeOK, HeldTypes, RouteCommands, Halts
<1>3. /\ \A w \in Units : routeCommand'[w] \in {routeCommand[w], "RtCmNo"}
      /\ \E c \in {routeCommand[u], "RtCmNo"} :
           routeQ' \in {routeQ, routeQ \o informToRoute(u, c)}
  <2>1. ASSUME NEW m, setCurrentMode(u, m)
        PROVE  /\ \A w \in Units : routeCommand'[w] \in {routeCommand[w], "RtCmNo"}
               /\ routeQ' \in {routeQ, routeQ \o informToRoute(u, routeCommand[u]),
                               routeQ \o informToRoute(u, "RtCmNo")}
    <3> DEFINE reached == icvalModes(ModeOfCommand(u, m, routeCommand[u]), m)
    <3>1. /\ routeCommand' = IF myRoute[u] # NoRoute /\ ~reached /\ ~alarm[u]
                             THEN [routeCommand EXCEPT ![u] = "RtCmNo"]
                             ELSE routeCommand
          /\ routeQ' = CASE reached  -> routeQ \o informToRoute(u, routeCommand[u])
                         [] ~reached /\ ~alarm[u] -> routeQ \o informToRoute(u, "RtCmNo")
                         [] OTHER    -> routeQ
      BY <2>1 DEF setCurrentMode
    <3> HIDE DEF reached
    <3>2. routeCommand' = [routeCommand EXCEPT ![u] = "RtCmNo"] \/ routeCommand' = routeCommand
      BY <3>1
    <3>3. \A w \in Units : routeCommand'[w] \in {routeCommand[w], "RtCmNo"}
      BY <1>2, <3>2
    <3>4. CASE reached
      BY <3>1, <3>3, <3>4
    <3>5. CASE ~reached
      BY <3>1, <3>3, <3>5
    <3> QED
      BY <3>4, <3>5
  <2> QED
    BY <2>1 DEF Observe
<1>4. Obeyed' /\ FreeForgets'
  BY <1>1, <1>2, <1>3 DEF Obeyed, FreeForgets
<1>5. StopTold
  BY <1>1, <1>2, <1>3 DEF StopTold, Obeyed, Halts
<1> QED
  BY <1>1, <1>4, <1>5 DEF HaltStep, OrderTold

LEMMA PlantHalts ==
  ASSUME TypeOK, Obeyed, FreeForgets, UnitPlant
  PROVE  HaltStep
<1>0. /\ out \in [Units -> BOOLEAN] /\ routeCommand \in [Units -> RouteCommands]
      /\ "RtCmNo" \in RouteCommands /\ "RtCmNo" \notin Halts /\ "RtCmNo" # "RtCmToSave"
  BY DEF TypeOK, PlantTypes, HeldTypes, RouteCommands, Halts
<1>1. PICK u \in Units :
        \/ Contactor(u)   \/ LevelChange(u) \/ Rescan(u)
        \/ Bounce(u)      \/ detectAlarm(u) \/ resetAlarm(u)
        \/ UserSetMode(u, "UnMdStart") \/ UserSetMode(u, "UnMdStop")
  BY DEF UnitPlant
<1>2. CASE Contactor(u) \/ LevelChange(u) \/ Rescan(u) \/ resetAlarm(u) \/ Bounce(u)
  <2>1. UNCHANGED <<held, routeCommand, out, unitQ, routeQ>>
    BY <1>2 DEF Contactor, LevelChange, Rescan, Bounce, resetAlarm, held
  <2> QED
    BY <1>0, <1>1, <2>1 DEF HaltStep, OrderTold, StopTold, Obeyed, FreeForgets, held
<1>3. CASE detectAlarm(u)
  <2>1. /\ UNCHANGED <<held, unitQ>>
        /\ routeCommand' = [routeCommand EXCEPT ![u] = "RtCmNo"]
        /\ routeQ' = routeQ \o informToRoute(u, "RtCmNo")
        /\ \/ out' = [out EXCEPT ![u] = outAfter(u, "UnMdStop")]
           \/ out' = out
    BY <1>3 DEF detectAlarm, Write
  <2>2. outAfter(u, "UnMdStop") \in {FALSE, out[u]}
    BY DEF outAfter
  <2>3. \A w \in Units : (out'[w] => out[w]) /\ routeCommand'[w] \in {routeCommand[w], "RtCmNo"}
    BY <1>0, <2>1, <2>2
  <2>4. Obeyed' /\ FreeForgets'
    BY <1>0, <2>1, <2>3 DEF Obeyed, FreeForgets, held
  <2>5. StopTold
    BY <1>0, <1>1, <2>1 DEF StopTold
  <2> QED
    BY <2>1, <2>3, <2>4, <2>5 DEF HaltStep, OrderTold
<1>4. CASE UserSetMode(u, "UnMdStart")
  <2>1. /\ UNCHANGED <<held, routeCommand, unitQ, routeQ>> /\ myRoute[u] = NoRoute
        /\ \A w \in Units \ {u} : out'[w] = out[w]
    BY <1>0, <1>4 DEF UserSetMode, Write
  <2>2. routeCommand[u] = "RtCmNo"
    BY <2>1 DEF FreeForgets
  <2> QED
    BY <1>0, <1>1, <2>1, <2>2 DEF HaltStep, OrderTold, StopTold, Obeyed, FreeForgets, held, SwitchesOn
<1>5. CASE UserSetMode(u, "UnMdStop")
  <2>1. /\ UNCHANGED <<held, routeCommand, unitQ, routeQ>>
        /\ out' = [out EXCEPT ![u] = outAfter(u, "UnMdStop")]
    BY <1>5 DEF UserSetMode, Write
  <2>2. outAfter(u, "UnMdStop") \in {FALSE, out[u]}
    BY DEF outAfter
  <2>3. \A w \in Units : out'[w] => out[w]
    BY <1>0, <2>1, <2>2
  <2> QED
    BY <1>0, <1>1, <2>1, <2>3 DEF HaltStep, OrderTold, StopTold, Obeyed, FreeForgets, held
<1> QED
  BY <1>1, <1>2, <1>3, <1>4, <1>5

(* The units of a route at work are held by it.                            *)
LEMMA HeldUnit ==
  ASSUME FixedInv, NEW r \in Routes, NEW i \in DOMAIN unitList[r]
  PROVE  /\ unitList[r][i].un \in Units /\ unitList[r][i].un \in unitsOf(r)
         /\ working(r) => myRoute[unitList[r][i].un] = r
<1>1. unitList[r] \in Seq(ListItems)
  BY DEF FixedInv, IInv, TypeOK, ListTypes
<1>2. unitList[r][i] \in ListItems /\ unitList[r][i].un \in unitsOf(r)
  BY <1>1 DEF unitsOf
<1> QED
  BY <1>2 DEF ListItems, FixedInv, Owned

(* A held engine that is off stays off as long as no order but stops are on *)
(* their way to its line.                                                  *)
LEMMA StaysOff ==
  ASSUME FixedInv, HaltsInOrder, HaltStep, NEW r \in Routes, NEW u \in Units,
         halting(r) \/ unitQ = <<>>, myRoute[u] = r, hasEngine(u), ~out[u]
  PROVE  ~out'[u]
<1>1. NoRoute # r /\ unitQ \in Seq(UnitCommands)
  BY UnitConstants DEF FixedInv, IInv, TypeOK, QueueTypes
<1>2. SUFFICES ASSUME unitQ # <<>>, Head(unitQ).un = u, Head(unitQ).cmd \notin Halts, halting(r)
               PROVE  FALSE
  BY <1>1 DEF HaltStep, SwitchesOn
<1>3. PICK j \in DOMAIN unitList[r] : unitList[r][j].un = u
  BY <1>1 DEF FixedInv, IInv, Safe, AtWork, unitsOf
<1>4. 1 \in DOMAIN unitQ /\ unitQ[1] = Head(unitQ)
  BY <1>1, <1>2
<1> QED
  BY <1>2, <1>3, <1>4 DEF HaltsInOrder, StopsFollow

LEMMA UnitsHalt ==
  ASSUME FixedInv, HInv, HaltStep, UNCHANGED routeVars
  PROVE  HInv'
<1>1. /\ unitQ \in Seq(UnitCommands) /\ routeQ \in Seq(Events) /\ NoRoute \notin Routes
      /\ \A u \in Units : myRoute'[u] = myRoute[u]
      /\ UNCHANGED <<unitList, workCmds, queueCmds, lastOp>>
  BY UnitConstants DEF FixedInv, IInv, TypeOK, QueueTypes, HaltStep, held, routeVars
<1>2. \A r \in Routes : halting(r)' <=> halting(r)
  BY <1>1 DEF halting, working
<1>3. PICK u \in Units, c \in RouteCommands :
        /\ routeQ' \in {routeQ, routeQ \o informToRoute(u, c)}
        /\ hasEngine(u) /\ c = "RtCmToSave" => ~out'[u]
  BY DEF HaltStep, StopTold
<1>4. \A k \in DOMAIN routeQ' :
        \/ k \in DOMAIN routeQ /\ routeQ'[k] = routeQ[k]
        \/ /\ k \notin DOMAIN routeQ /\ routeQ' # routeQ
           /\ routeQ'[k] = [ev |-> "Inform", rt |-> myRoute[u], un |-> u, arg |-> c]
  <2>1. routeQ \in Seq(Events)
    BY <1>1
  <2>2. routeQ' \in {routeQ, routeQ \o informToRoute(u, c)}
    BY <1>3
  <2> QED
    BY <2>1, <2>2, AnswerAdded
<1>5. clicked' => clicked
  <2>1. routeQ' # <<>> => 1 \in DOMAIN routeQ' /\ Head(routeQ') = routeQ'[1]
    BY <1>1, <1>3, InformTypes DEF FixedInv, IInv, TypeOK
  <2>2. 1 \in DOMAIN routeQ => routeQ # <<>> /\ Head(routeQ) = routeQ[1]
    BY <1>1
  <2> QED
    BY <1>4, <2>1, <2>2 DEF clicked
<1>6. ClickQuiet'
  BY <1>5 DEF HInv, ClickQuiet, HaltStep, OrderTold
<1>7. StopsConfirmed'
  <2> SUFFICES ASSUME NEW r \in Routes, NEW w \in Units, myRoute'[w] = r, hasEngine(w),
                      halting(r)' \/ clicked', NEW k \in DOMAIN routeQ',
                      From(routeQ'[k], r, w), routeQ'[k].arg = "RtCmToSave"
               PROVE  ~out'[w]
    BY DEF StopsConfirmed, From
  <2>1. CASE k \in DOMAIN routeQ /\ routeQ'[k] = routeQ[k]
    <3>1. myRoute[w] = r /\ (halting(r) \/ clicked)
      BY <1>1, <1>2, <1>5
    <3>2. ~out[w]
      BY <2>1, <3>1 DEF HInv, StopsConfirmed, From
    <3> QED
      BY <3>1, <3>2, StaysOff DEF HInv, ClickQuiet
  <2>2. CASE routeQ'[k] = [ev |-> "Inform", rt |-> myRoute[u], un |-> u, arg |-> c]
    BY <1>3, <2>2 DEF From
  <2> QED
    BY <1>4, <2>1, <2>2
<1>8. ASSUME NEW r \in Routes, halting(r) PROVE Alone(r)' /\ PassedOff(r)' /\ StopsFollow(r)'
  <2>1. ASSUME NEW i \in DOMAIN unitList[r], NEW w, w = unitList[r][i].un, hasEngine(w), ~out[w]
        PROVE  ~out'[w]
    BY <1>8, <2>1, HeldUnit, StaysOff DEF HInv, halting
  <2>2. Alone(r)' /\ PassedOff(r)'
    BY <1>1, <1>8, <2>1 DEF HInv, HaltsInOrder, Alone, PassedOff, hasEngine
  <2>3. StopsFollow(r)
    BY <1>8 DEF HInv, HaltsInOrder
  <2>4. ASSUME unitQ' = unitQ PROVE StopsFollow(r)'
    BY <1>1, <2>1, <2>3, <2>4 DEF StopsFollow, Halted, hasEngine
  <2>5. ASSUME unitQ # <<>>, unitQ' = Tail(unitQ) PROVE StopsFollow(r)'
    <3> DEFINE t == unitQ'
    <3>1. t = Tail(unitQ)
      BY <2>5
    <3> HIDE DEF t
    <3>2. /\ 1 \in DOMAIN unitQ /\ unitQ[1] = Head(unitQ)
          /\ \A k \in DOMAIN unitQ : k \in Nat /\ (k # 1 => k - 1 \in DOMAIN t /\ t[k - 1] = unitQ[k])
          /\ \A k \in DOMAIN t : k \in Nat /\ k > 0 /\ k + 1 \in DOMAIN unitQ /\ t[k] = unitQ[k + 1]
      BY <1>1, <2>5, <3>1, TailQueue
    <3>3. ASSUME NEW k \in DOMAIN t, NEW i \in DOMAIN unitList[r], NEW w, w = unitList[r][i].un,
                 hasEngine(w), Halted(w, k + 1), out'[w]
          PROVE  \E l \in DOMAIN t : l < k /\ t[l].un = w /\ t[l].cmd \in Halts
      <4>1. PICK l \in DOMAIN unitQ : l < k + 1 /\ unitQ[l].un = w /\ unitQ[l].cmd \in Halts
        BY <2>1, <3>3 DEF Halted
      <4>2. myRoute[w] # NoRoute
        BY <1>1, <1>8, <3>3, HeldUnit DEF halting
      <4>3. l # 1
        BY <1>1, <2>5, <3>2, <3>3, <4>1, <4>2, <3>1 DEF HaltStep, OrderTold
      <4> QED
        BY <3>2, <4>1, <4>3
    <3>4. \A k \in DOMAIN t, j \in DOMAIN unitList[r] :
            t[k].un = unitList[r][j].un =>
              /\ t[k].cmd \in Halts
              /\ \A i \in DOMAIN unitList[r] :
                   i < j /\ hasEngine(unitList[r][i].un) =>
                     (out'[unitList[r][i].un] =>
                        \E l \in DOMAIN t : l < k /\ t[l].un = unitList[r][i].un
                                            /\ t[l].cmd \in Halts)
      BY <2>3, <3>2, <3>3 DEF StopsFollow
    <3> QED
      BY <1>1, <3>4 DEF t, StopsFollow, Halted, hasEngine
  <2> QED
    BY <2>2, <2>4, <2>5 DEF HaltStep, OrderTold
<1> QED
  BY <1>2, <1>6, <1>7, <1>8 DEF HInv, HaltsInOrder, HaltStep

-----------------------------------------------------------------------------
(* The routes thread: what a step for the route p leaves alone.            *)

(* New orders go to units of p. *)
Addresses(p) ==
  \E s \in Seq(UnitCommands) :
     /\ unitQ' = unitQ \o s
     /\ \A k \in DOMAIN s : s[k].un \in unitsOf(p)

(* They all say the same.                                                  *)
Orders(p, name) ==
  \E s \in Seq(UnitCommands) :
     /\ unitQ' = unitQ \o s
     /\ \A k \in DOMAIN s : s[k].un \in unitsOf(p) /\ s[k].cmd = name

RouteStep(p) ==
  /\ UNCHANGED <<others, unitList>>
  /\ Addresses(p) /\ (unitQ' # unitQ => workCmds'[p] # <<>>)
  /\ \A q \in Routes \ {p} : /\ workCmds'[q] = workCmds[q] /\ queueCmds'[q] = queueCmds[q]
                           /\ lastOp'[q] = lastOp[q]
  /\ Handed(p)
  /\ routeQ # <<>> /\ Head(routeQ).rt = p
  /\ (routeQ' = routeQ /\ ~clicked) \/ routeQ' = Tail(routeQ)

LEMMA NoOrder ==
  ASSUME TypeOK, NEW p, UNCHANGED unitQ
  PROVE  Addresses(p) /\ \A name : Orders(p, name)
<1> DEFINE s == <<>>
<1>1. s \in Seq(UnitCommands) /\ unitQ' = unitQ \o s /\ DOMAIN s = {}
  BY DEF TypeOK, QueueTypes
<1> HIDE DEF s
<1> QED
  BY <1>1 DEF Addresses, Orders

LEMMA SendAddresses ==
  ASSUME TypeOK, NEW p \in Routes, NEW n, NEW name \in RouteCommands, Send(p, n, name)
  PROVE  /\ Addresses(p) /\ Orders(p, name)
         /\ unitQ' = unitQ \/ (InRange(p, n) /\ unitQ' = Append(unitQ, ToUnit(p, n, name)))
<1>1. CASE ~InRange(p, n)
  BY <1>1, NoOrder DEF Send
<1>2. CASE InRange(p, n)
  <2> DEFINE x == ToUnit(p, n, name)
             s == <<x>>
  <2>1. x \in UnitCommands /\ unitQ' = Append(unitQ, x) /\ unitQ \in Seq(UnitCommands)
    BY <1>2, ToUnitType DEF Send, TypeOK, QueueTypes
  <2>2. x.un \in unitsOf(p) /\ x.cmd = name
    <3>1. n + 1 \in DOMAIN unitList[p] /\ x.un = unitList[p][n + 1].un
      BY <1>2 DEF InRange, ToUnit, TypeOK, ListTypes
    <3> QED
      BY <3>1 DEF unitsOf, ToUnit
  <2> HIDE DEF x
  <2>3. s \in Seq(UnitCommands) /\ unitQ' = unitQ \o s /\ \A k \in DOMAIN s : s[k] = x
    BY <2>1
  <2> HIDE DEF s
  <2>4. Addresses(p) /\ Orders(p, name)
    BY <2>2, <2>3 DEF Addresses, Orders
  <2> QED
    BY <1>2, <2>1, <2>4 DEF x
<1> QED
  BY <1>1, <1>2

LEMMA SendAllAddresses ==
  ASSUME TypeOK, NEW p \in Routes, NEW c \in RouteCmds, SendAll(p, c)
  PROVE  Addresses(p) /\ Orders(p, c.name)
<1> DEFINE n == c.endUn - c.beginUn + 1
           s == [i \in 1 .. n |-> ToUnit(p, c.beginUn + i - 1, c.name)]
<1>1. CASE unitQ' = unitQ
  BY <1>1, NoOrder
<1>2. CASE unitQ' # unitQ
  <2>1. unitQ' = unitQ \o s /\ \A m \in c.beginUn .. c.endUn : InRange(p, m)
    BY <1>2 DEF SendAll
  <2>2. c.beginUn \in Int /\ c.endUn \in Int /\ c.name \in RouteCommands
    BY DEF RouteCmds
  <2>3. ASSUME NEW i \in 1 .. n
        PROVE  s[i] \in UnitCommands /\ s[i].un \in unitsOf(p) /\ s[i].cmd = c.name
    <3> DEFINE m == c.beginUn + i - 1
    <3>0. m \in c.beginUn .. c.endUn
      BY <2>2
    <3>1. InRange(p, m)
      BY <2>1, <3>0
    <3>2. ToUnit(p, c.beginUn + i - 1, c.name) \in UnitCommands
      BY <2>2, <3>1, ToUnitType DEF TypeOK
    <3>3. c.beginUn + i - 1 + 1 \in DOMAIN unitList[p]
      BY <3>1 DEF InRange, TypeOK, ListTypes
    <3>4. /\ ToUnit(p, c.beginUn + i - 1, c.name).un \in unitsOf(p)
          /\ ToUnit(p, c.beginUn + i - 1, c.name).cmd = c.name
      BY <3>3 DEF unitsOf, ToUnit
    <3> QED
      BY <3>2, <3>4
  <2>4. s \in Seq(UnitCommands) /\ DOMAIN s = 1 .. n
    <3>1. CASE n \in Nat
      BY <2>3, <3>1
    <3>2. CASE n \notin Nat
      <4>1. 1 .. n = {} /\ s = <<>>
        BY <2>2, <3>2
      <4> HIDE DEF s
      <4>2. DOMAIN s = {} /\ s \in Seq(UnitCommands)
        BY <4>1
      <4> QED
        BY <4>1, <4>2
    <3> QED
      BY <3>1, <3>2
  <2> HIDE DEF s
  <2> QED
    BY <2>1, <2>3, <2>4 DEF Addresses, Orders
<1> QED
  BY <1>1, <1>2

LEMMA SetAddresses ==
  ASSUME TypeOK, NEW p \in Routes, NEW w, NEW g0, NEW c \in RouteCmds, NEW gnrl,
         SetCommand(p, w, g0, c, gnrl)
  PROVE  /\ Addresses(p) /\ Orders(p, c.name)
         /\ w \in Seq(RouteCmds) /\ unitQ' # unitQ => workCmds'[p] # <<>>
<1> DEFINE d == Resolved(p, c)
<1>1. d \in RouteCmds /\ d.name \in RouteCommands /\ d.name = c.name
  <2>1. d \in RouteCmds
    BY ResolvedType DEF TypeOK
  <2>2. d.name = c.name
    BY DEF Resolved, RouteCmds
  <2> QED
    BY <2>1, <2>2 DEF RouteCmds
<1>2. workCmds \in [Routes -> Seq(RouteCmds)]
  BY DEF TypeOK, CommandTypes
<1> HIDE DEF d
<1>3. CASE allConnected[p] \/ canConnect(p)
  <2>1. /\ workCmds' = [workCmds EXCEPT ![p] = Append(w, d)]
        /\ SendAll(p, d) \/ Send(p, next(d), d.name)
    BY <1>3 DEF SetCommand, d
  <2>2. w \in Seq(RouteCmds) => workCmds'[p] # <<>>
    BY <1>1, <1>2, <2>1, AppendNonEmpty
  <2> QED
    BY <1>1, <2>1, <2>2, SendAddresses, SendAllAddresses
<1>4. CASE ~(allConnected[p] \/ canConnect(p))
  <2>1. UNCHANGED unitQ
    BY <1>4 DEF SetCommand
  <2> QED
    BY <2>1, NoOrder
<1> QED
  BY <1>3, <1>4

(* What becomes of the other routes.                                       *)
LEMMA ElseHalts ==
  ASSUME FixedInv, HInv, Owned', NEW p \in Routes, RouteStep(p),
         NEW r \in Routes, r # p, halting(r)'
  PROVE  Alone(r)' /\ PassedOff(r)' /\ StopsFollow(r)'
<1>1. /\ unitQ \in Seq(UnitCommands) /\ UNCHANGED <<out, unitList>>
      /\ workCmds'[r] = workCmds[r] /\ queueCmds'[r] = queueCmds[r] /\ lastOp'[r] = lastOp[r]
  BY DEF FixedInv, IInv, TypeOK, QueueTypes, RouteStep, others
<1>2. halting(r)
  BY <1>1 DEF halting, working
<1>3. Alone(r)' /\ PassedOff(r)'
  BY <1>1, <1>2 DEF HInv, HaltsInOrder, Alone, PassedOff
<1>4. StopsFollow(r)
  BY <1>2 DEF HInv, HaltsInOrder
<1>5. CASE unitQ' = unitQ
  <2>1. StopsFollow(r)'
    BY <1>1, <1>4, <1>5 DEF StopsFollow, Halted
  <2> QED
    BY <1>3, <2>1
<1>6. CASE unitQ' # unitQ
  <2> DEFINE q == unitQ'
  <2>1. PICK s \in Seq(UnitCommands) : q = unitQ \o s /\ \A k \in DOMAIN s : s[k].un \in unitsOf(p)
    BY DEF RouteStep, Addresses
  <2>2. \A u \in unitsOf(p) : u \notin unitsOf(r)
    <3>1. working(p)' /\ working(r)'
      BY <1>6 DEF RouteStep, working, halting
    <3>2. unitsOf(p)' = unitsOf(p) /\ unitsOf(r)' = unitsOf(r)
      BY <1>1 DEF unitsOf
    <3>3. \A u \in unitsOf(p)' : myRoute'[u] = p
      BY <3>1 DEF Owned
    <3>4. \A u \in unitsOf(r)' : myRoute'[u] = r
      BY <3>1 DEF Owned
    <3> QED
      BY <3>2, <3>3, <3>4
  <2> HIDE DEF q
  <2>3. /\ \A k \in DOMAIN unitQ : k \in DOMAIN q /\ q[k] = unitQ[k]
        /\ \A k \in DOMAIN q : k \in DOMAIN unitQ \/ q[k].un \in unitsOf(p)
    BY <1>1, <2>1, ConcatQueue
  <2>4. \A j \in DOMAIN unitList[r] : unitList[r][j].un \notin unitsOf(p)
    BY <2>2 DEF unitsOf
  <2>5. \A k \in DOMAIN q, j \in DOMAIN unitList[r] :
          q[k].un = unitList[r][j].un => k \in DOMAIN unitQ /\ q[k] = unitQ[k]
    BY <2>3, <2>4
  <2>6. \A k \in DOMAIN q, j \in DOMAIN unitList[r] :
          q[k].un = unitList[r][j].un =>
            /\ q[k].cmd \in Halts
            /\ \A i \in DOMAIN unitList[r] :
                 i < j /\ hasEngine(unitList[r][i].un) =>
                   (out[unitList[r][i].un] =>
                      \E l \in DOMAIN q : l < k /\ q[l].un = unitList[r][i].un /\ q[l].cmd \in Halts)
    <3> SUFFICES ASSUME NEW k \in DOMAIN q, NEW j \in DOMAIN unitList[r],
                        q[k].un = unitList[r][j].un
                 PROVE  /\ q[k].cmd \in Halts
                        /\ \A i \in DOMAIN unitList[r] :
                             i < j /\ hasEngine(unitList[r][i].un) =>
                               (out[unitList[r][i].un] =>
                                  \E l \in DOMAIN q : /\ l < k /\ q[l].un = unitList[r][i].un
                                                      /\ q[l].cmd \in Halts)
      OBVIOUS
    <3>1. k \in DOMAIN unitQ /\ q[k] = unitQ[k]
      BY <2>5
    <3> QED
      BY <1>4, <2>3, <3>1 DEF StopsFollow, Halted
  <2>7. StopsFollow(r)'
    BY <1>1, <2>6 DEF q, StopsFollow, Halted, hasEngine
  <2> QED
    BY <1>3, <2>7
<1> QED
  BY <1>5, <1>6

(* What a handler leaves of the queue of the routes thread.                *)
LEMMA QueueTaken ==
  ASSUME FixedInv, NEW p, RouteStep(p)
  PROVE  \/ routeQ' = routeQ /\ ~clicked
         \/ /\ \A k \in DOMAIN routeQ' : k + 1 \in DOMAIN routeQ /\ k + 1 # 1
                                         /\ routeQ'[k] = routeQ[k + 1]
            /\ routeQ' = Tail(routeQ)
<1> DEFINE t == routeQ'
<1>1. /\ routeQ \in Seq(Events) /\ routeQ # <<>>
      /\ (t = routeQ /\ ~clicked) \/ t = Tail(routeQ)
  BY DEF FixedInv, IInv, TypeOK, QueueTypes, RouteStep
<1> HIDE DEF t
<1>2. ASSUME t = Tail(routeQ)
      PROVE  \A k \in DOMAIN t : k + 1 \in DOMAIN routeQ /\ k + 1 # 1 /\ t[k] = routeQ[k + 1]
  <2>1. \A k \in DOMAIN t : k \in Nat /\ k > 0 /\ k + 1 \in DOMAIN routeQ /\ t[k] = routeQ[k + 1]
    BY <1>1, <1>2, TailQueue
  <2> QED
    BY <2>1
<1>3. \/ t = routeQ /\ ~clicked
      \/ /\ \A k \in DOMAIN t : k + 1 \in DOMAIN routeQ /\ k + 1 # 1 /\ t[k] = routeQ[k + 1]
         /\ t = Tail(routeQ)
  BY <1>1, <1>2
<1> QED
  BY <1>3 DEF t

(* No click is left, for clicks come first. *)
LEMMA ClickTaken ==
  ASSUME FixedInv, WInv, NEW p, RouteStep(p)
  PROVE  ~clicked'
<1>1. routeQ \in Seq(Events) /\ routeQ # <<>>
  BY DEF FixedInv, IInv, TypeOK, QueueTypes, RouteStep
<1>2. CASE routeQ' = routeQ /\ ~clicked
  BY <1>2 DEF clicked
<1>3. ASSUME routeQ' = Tail(routeQ), routeQ' # <<>>,
             \A k \in DOMAIN routeQ' : k + 1 \in DOMAIN routeQ /\ k + 1 # 1
                                       /\ routeQ'[k] = routeQ[k + 1]
      PROVE  Head(routeQ').ev # "Op"
  <2>1. 1 \in DOMAIN routeQ' /\ routeQ'[1] = Head(routeQ')
    BY <1>1, <1>3
  <2>2. routeQ'[1].ev # "Op"
    BY <1>3, <2>1 DEF WInv, OpFirst
  <2> QED
    BY <2>1, <2>2
<1> QED
  BY <1>2, <1>3, QueueTaken DEF clicked

(* The whole invariant from what becomes of the route p.                   *)
LEMMA RouteHalts ==
  ASSUME FixedInv, WInv, HInv, Owned', NEW p \in Routes, RouteStep(p),
         halting(p)' => /\ halting(p) \/ clicked
                        /\ Alone(p)' /\ PassedOff(p)' /\ StopsFollow(p)'
  PROVE  HInv'
<1>1. /\ UNCHANGED <<out, unitList>> /\ routeQ \in Seq(Events) /\ routeQ # <<>>
      /\ "RtCmNo" \notin Halts /\ NoRoute # p
      /\ (routeQ' = routeQ /\ ~clicked) \/ routeQ' = Tail(routeQ)
  BY UnitConstants DEF FixedInv, IInv, TypeOK, QueueTypes, RouteStep, others, Halts
<1>2. Obeyed' /\ FreeForgets'
  <2>1. \A u \in Units : routeCommand'[u] = "RtCmNo"
                         \/ (myRoute'[u] = myRoute[u] /\ routeCommand'[u] = routeCommand[u])
    BY DEF RouteStep, Handed, UnitKept
  <2> QED
    BY <1>1, <2>1 DEF HInv, Obeyed, FreeForgets
<1>3. \/ routeQ' = routeQ /\ ~clicked
      \/ /\ \A k \in DOMAIN routeQ' : k + 1 \in DOMAIN routeQ /\ k + 1 # 1
                                      /\ routeQ'[k] = routeQ[k + 1]
         /\ routeQ' = Tail(routeQ)
  BY QueueTaken
<1>4. ~clicked'
  BY ClickTaken
<1>5. StopsConfirmed'
  <2> SUFFICES ASSUME NEW r \in Routes, NEW u \in Units, myRoute'[u] = r, hasEngine(u),
                      halting(r)', NEW k \in DOMAIN routeQ', From(routeQ'[k], r, u),
                      routeQ'[k].arg = "RtCmToSave"
               PROVE  ~out'[u]
    BY <1>4 DEF StopsConfirmed, From
  <2>1. PICK n \in DOMAIN routeQ : From(routeQ[n], r, u) /\ routeQ[n].arg = "RtCmToSave"
    BY <1>3 DEF From
  <2>2. myRoute[u] = r
    <3>1. ~NoAnswers(r)
      BY <2>1 DEF NoAnswers, From
    <3>2. NoRoute # r
      BY UnitConstants
    <3> QED
      BY <3>1, <3>2 DEF RouteStep, Handed, UnitKept
  <2>3. halting(r) \/ clicked
    <3>1. CASE r = p
      BY <3>1
    <3>2. CASE r # p
      BY <3>2 DEF RouteStep, halting, working
    <3> QED
      BY <3>1, <3>2
  <2> QED
    BY <1>1, <2>1, <2>2, <2>3 DEF HInv, StopsConfirmed
<1>6. HaltsInOrder'
  <2>1. \A r \in Routes : halting(r)' => Alone(r)' /\ PassedOff(r)' /\ StopsFollow(r)'
    BY ElseHalts
  <2> QED
    BY <2>1 DEF HaltsInOrder
<1> QED
  BY <1>2, <1>4, <1>5, <1>6 DEF HInv, ClickQuiet

-----------------------------------------------------------------------------
(* Orders for a route.                                                     *)

LEMMA RestartStep ==
  ASSUME FixedInv, NEW r \in Routes, NEW op, Handle(r, op), NEW c \in RouteCmds,
         NEW gnrl, NEW queue, Restart(r, c, gnrl, queue), Taken(r)
  PROVE  RouteStep(r) /\ clicked /\ lastOp'[r] = op
<1>1. /\ TypeOK /\ lastOp' = [lastOp EXCEPT ![r] = op] /\ lastOp \in [Routes -> OpNames \cup {"none"}]
      /\ routeQ # <<>> /\ Head(routeQ).ev = "Op" /\ Head(routeQ).rt = r
      /\ SetCommand(r, <<>>, 0, c, gnrl)
  BY DEF FixedInv, IInv, TypeOK, ListTypes, Handle, Take, Restart
<1>2. Addresses(r) /\ (unitQ' # unitQ => workCmds'[r] # <<>>)
  <2> DEFINE w == <<>>
  <2>1. w \in Seq(RouteCmds) /\ SetCommand(r, w, 0, c, gnrl)
    BY <1>1
  <2> HIDE DEF w
  <2> QED
    BY <1>1, <2>1, SetAddresses
<1>3. lastOp'[r] = op /\ \A q \in Routes \ {r} : lastOp'[q] = lastOp[q]
  BY <1>1
<1> QED
  BY <1>1, <1>2, <1>3 DEF RouteStep, Taken, clicked

isStop(c) == \/ c = Cmd("RtCmStop", "Parallel", FALSE, -1, -1)
             \/ c = Cmd("RtCmToSave", "UpStepByStep", FALSE, -1, -1)

(* A stop is told to the first unit, or to all units from the first on.    *)
LEMMA StopOrders ==
  ASSUME FixedInv, NoEmptyList, DistinctLists, unitQ = <<>>, NEW r \in Routes, NEW c, NEW gnrl,
         isStop(c), Restart(r, c, gnrl, <<>>), workCmds'[r] # <<>>
  PROVE  Alone(r)' /\ PassedOff(r)' /\ StopsFollow(r)'
<1> DEFINE n == Len(unitList[r])
           d == Resolved(r, c)
<1>1. /\ TypeOK /\ unitList = InitList /\ UNCHANGED unitList
      /\ unitList[r] \in Seq(ListItems) /\ n \in Nat /\ n > 0 /\ DOMAIN unitList[r] = 1 .. n
      /\ queueCmds \in [Routes -> Seq(RouteCmds)] /\ workCmds \in [Routes -> Seq(RouteCmds)]
  BY UnitsCount DEF FixedInv, IInv, TypeOK, ListTypes, CommandTypes, NoEdits, Restart, units
<1>2. /\ SetCommand(r, <<>>, 0, c, gnrl)
      /\ queueCmds'[r] = <<>>
  BY <1>1 DEF Restart
<1>3. /\ d.name = c.name /\ d.type = c.type /\ d.beginUn = 0 /\ d.endUn = n - 1 /\ d.last = -1
      /\ \/ d.name = "RtCmToSave" /\ d.type = "UpStepByStep"
         \/ d.name = "RtCmStop" /\ d.type = "Parallel"
  BY <1>1 DEF Resolved, Cmd, isStop
<1> HIDE DEF d
<1>4. /\ workCmds' = [workCmds EXCEPT ![r] = Append(<<>>, d)]
      /\ IF d.type = "Parallel" THEN SendAll(r, d) ELSE Send(r, next(d), d.name)
  <2>1. allConnected[r] \/ canConnect(r)
    BY <1>1, <1>2 DEF SetCommand
  <2> QED
    BY <1>2, <2>1 DEF SetCommand, d
<1>5. workCmds'[r] = <<d>>
  BY <1>1, <1>4
<1>6. Alone(r)'
  BY <1>2, <1>3, <1>5 DEF Alone
<1>7. PassedOff(r)'
  BY <1>1, <1>3, <1>5 DEF PassedOff
<1>8. \A i, j \in DOMAIN unitList[r] : unitList[r][i].un = unitList[r][j].un => i = j
  BY <1>1 DEF DistinctLists
<1>9. StopsFollow(r)'
  <2>1. ASSUME d.type = "UpStepByStep", d.name = "RtCmToSave" PROVE StopsFollow(r)'
    <3>1. next(d) = 0
      BY <1>3, <2>1 DEF next
    <3>2. Send(r, 0, "RtCmToSave")
      BY <1>4, <2>1, <3>1
    <3>3. unitQ' = <<>> \/ unitQ' = <<ToUnit(r, 0, "RtCmToSave")>>
      BY <3>2 DEF Send
    <3>4. \A k \in DOMAIN unitQ' : unitQ'[k] = [un |-> unitList[r][1].un, cmd |-> "RtCmToSave"]
      BY <3>3 DEF ToUnit
    <3>5. 1 \in DOMAIN unitList[r] /\ \A i \in DOMAIN unitList[r] : ~(i < 1)
      BY <1>1
    <3>6. \A j \in DOMAIN unitList[r] : unitList[r][1].un = unitList[r][j].un => j = 1
      BY <1>8, <3>5
    <3> DEFINE q == unitQ'
    <3>7. \A k \in DOMAIN q : q[k].un = unitList[r][1].un /\ q[k].cmd \in Halts
      BY <3>4 DEF Halts
    <3> HIDE DEF q
    <3>8. \A k \in DOMAIN q, j \in DOMAIN unitList[r] :
            q[k].un = unitList[r][j].un =>
              q[k].cmd \in Halts /\ \A i \in DOMAIN unitList[r] : ~(i < j)
      BY <3>5, <3>6, <3>7
    <3> QED
      BY <1>1, <3>8 DEF q, StopsFollow
  <2>2. ASSUME d.type = "Parallel", d.name = "RtCmStop" PROVE StopsFollow(r)'
    <3> DEFINE q == unitQ'
               s == [i \in 1 .. n - 1 - 0 + 1 |-> ToUnit(r, 0 + i - 1, "RtCmStop")]
    <3>1. q = <<>> \/ q = <<>> \o s
      BY <1>3, <1>4, <2>2 DEF SendAll
    <3>2. DOMAIN s = 1 .. n /\ \A k \in 1 .. n : s[k] = [un |-> unitList[r][k].un, cmd |-> "RtCmStop"]
      BY <1>1 DEF ToUnit
    <3>3. s \in Seq(UnitCommands)
      <4>1. \A k \in 1 .. n : unitList[r][k].un \in Units
        BY <1>1, HeldUnit
      <4>2. "RtCmStop" \in RouteCommands
        BY DEF RouteCommands
      <4>3. s = [i \in 1 .. n |-> s[i]]
        BY <1>1
      <4> HIDE DEF s
      <4>4. \A k \in 1 .. n : s[k] \in UnitCommands
        <5> TAKE k \in 1 .. n
        <5>1. s[k] = [un |-> unitList[r][k].un, cmd |-> "RtCmStop"] /\ unitList[r][k].un \in Units
          BY <3>2, <4>1
        <5> QED
          BY <4>2, <5>1 DEF UnitCommands
      <4>5. s \in [1 .. n -> UnitCommands]
        BY <4>3, <4>4
      <4>6. n \in Nat
        BY <1>1
      <4> HIDE DEF n
      <4> QED
        BY <4>5, <4>6, MadeSeq
    <3> HIDE DEF q, s
    <3>4. q = <<>> \/ q = s
      BY <3>1, <3>3
    <3>5. \A k \in DOMAIN q :
            /\ k \in DOMAIN unitList[r] /\ q[k].cmd = "RtCmStop" /\ q[k].un = unitList[r][k].un
            /\ \A i \in DOMAIN unitList[r] :
                 i < k => i \in DOMAIN q /\ q[i].un = unitList[r][i].un /\ q[i].cmd = "RtCmStop"
      <4>1. CASE q = <<>>
        BY <4>1
      <4>2. CASE q = s
        <5>1. DOMAIN q = DOMAIN unitList[r]
          BY <1>1, <3>2, <4>2
        <5>2. \A k \in DOMAIN q : q[k].cmd = "RtCmStop" /\ q[k].un = unitList[r][k].un
          <6> TAKE k \in DOMAIN q
          <6>1. q[k] = [un |-> unitList[r][k].un, cmd |-> "RtCmStop"]
            BY <3>2, <4>2
          <6> QED
            BY <6>1
        <5> QED
          BY <5>1, <5>2
      <4> QED
        BY <3>4, <4>1, <4>2
    <3>6. \A k \in DOMAIN q, j \in DOMAIN unitList[r] :
            q[k].un = unitList[r][j].un =>
              /\ q[k].cmd \in Halts
              /\ \A i \in DOMAIN unitList[r] : i < j =>
                   \E l \in DOMAIN q : l < k /\ q[l].un = unitList[r][i].un /\ q[l].cmd \in Halts
      <4> SUFFICES ASSUME NEW k \in DOMAIN q, NEW j \in DOMAIN unitList[r],
                          q[k].un = unitList[r][j].un
                   PROVE  /\ q[k].cmd \in Halts
                          /\ \A i \in DOMAIN unitList[r] : i < j =>
                               \E l \in DOMAIN q : /\ l < k /\ q[l].un = unitList[r][i].un
                                                   /\ q[l].cmd \in Halts
        OBVIOUS
      <4>1. j = k
        BY <1>8, <3>5
      <4> QED
        BY <3>5, <4>1 DEF Halts
    <3> QED
      BY <1>1, <3>6 DEF q, StopsFollow, Halted
  <2> QED
    BY <1>3, <2>1, <2>2
<1> QED
  BY <1>6, <1>7, <1>9

LEMMA OrderHalts ==
  ASSUME FixedInv, NoEmptyList, DistinctLists, WInv, HInv, Owned', NEW r \in Routes,
         Start(r) \/ Stop(r) \/ CleanStop(r) \/ Freeze(r)
  PROVE  HInv'
<1>1. Taken(r)
  BY OrderTaken
<1> DEFINE stop == Cmd("RtCmStop", "Parallel", FALSE, -1, -1)
           save == Cmd("RtCmToSave", "UpStepByStep", FALSE, -1, -1)
           start == Cmd("RtCmToRoute", "DownStepByStep", TRUE, -1, -1)
           clean == Cmd("RtCmToRoutForClean", "DownStepByStep", TRUE, -1, -1)
<1>2. stop \in RouteCmds /\ save \in RouteCmds /\ start \in RouteCmds /\ clean \in RouteCmds
  <2>1. /\ {"RtCmStop", "RtCmToSave", "RtCmToRoute", "RtCmToRoutForClean"} \subseteq RouteCommands
        /\ {"Parallel", "UpStepByStep", "DownStepByStep"} \subseteq CmdTypes /\ -1 \in Int
    BY DEF RouteCommands, CmdTypes
  <2>2. stop \in RouteCmds
    BY <2>1, CmdType
  <2>3. save \in RouteCmds
    BY <2>1, CmdType
  <2>4. start \in RouteCmds
    BY <2>1, CmdType
  <2>5. clean \in RouteCmds
    BY <2>1, CmdType
  <2> QED
    BY <2>2, <2>3, <2>4, <2>5
<1> HIDE DEF start, clean
<1>3. ASSUME NEW op \in {"Start", "CleanStop"}, NEW c \in RouteCmds, Handle(r, op), NEW gnrl,
             NEW queue, Restart(r, c, gnrl, queue)
      PROVE  HInv'
  <2>1. RouteStep(r) /\ lastOp'[r] = op
    BY <1>1, <1>3, RestartStep
  <2>2. ~halting(r)'
    BY <1>3, <2>1 DEF halting
  <2> QED
    BY <2>1, <2>2, RouteHalts
<1>4. ASSUME NEW op, Handle(r, op), NEW gnrl, NEW c \in {stop, save}, Restart(r, c, gnrl, <<>>)
      PROVE  HInv'
  <2>1. c \in RouteCmds
    BY <1>2, <1>4
  <2>2. RouteStep(r) /\ clicked
    BY <1>1, <1>4, <2>1, RestartStep
  <2>3. unitQ = <<>>
    BY <2>2 DEF HInv, ClickQuiet
  <2>4. halting(r)' => workCmds'[r] # <<>>
    BY DEF halting, working
  <2>5. halting(r)' => Alone(r)' /\ PassedOff(r)' /\ StopsFollow(r)'
    <3>1. isStop(c) /\ Restart(r, c, gnrl, <<>>)
      BY <1>4 DEF isStop
    <3> SUFFICES ASSUME workCmds'[r] # <<>>
                 PROVE  Alone(r)' /\ PassedOff(r)' /\ StopsFollow(r)'
      BY <2>4
    <3> QED
      BY <2>3, <3>1, StopOrders, Zenon
  <2> QED
    BY <2>2, <2>5, RouteHalts
<1> HIDE DEF stop, save
<1>5. CASE Start(r)
  BY <1>2, <1>3, <1>5 DEF Start, start
<1>6. CASE CleanStop(r)
  BY <1>2, <1>3, <1>6 DEF CleanStop, clean
<1>7. CASE Stop(r)
  BY <1>4, <1>7 DEF Stop, stop, save
<1>8. CASE Freeze(r)
  BY <1>4, <1>8 DEF Freeze, stop
<1> QED
  BY <1>5, <1>6, <1>7, <1>8

-----------------------------------------------------------------------------
(* Answers to a route that was told to stop.                               *)

(* Only commands that are no main command and do not keep working are      *)
(* removed, so the one command of a stop stays until the route ends.       *)
LEMMA HaltStands ==
  ASSUME FixedInv, HInv, NEW p \in Routes, halting(p)
  PROVE  /\ genCom[p] = 1 /\ queueCmds[p] = <<>>
         /\ workCmds[p] = <<workCmds[p][1]>> /\ workCmds[p][1] \in RouteCmds
<1>1. /\ workCmds[p] \in Seq(RouteCmds) /\ genCom[p] \in 0 .. Len(workCmds[p]) /\ genCom[p] # 0
  BY DEF FixedInv, IInv, TypeOK, CommandTypes, Safe, GenComLive, halting
<1>2. Alone(p)
  BY DEF HInv, HaltsInOrder
<1> QED
  BY <1>1, <1>2 DEF Alone

(* The stop moves on: one more unit is passed at most, which is off, and   *)
(* one more order is sent at most, to the next unit or to one passed.      *)
LEMMA HaltMoves ==
  ASSUME FixedInv, HInv, DistinctLists, NEW p \in Routes, halting(p),
         UNCHANGED <<out, unitList>>, queueCmds'[p] = queueCmds[p],
         NEW c \in RouteCmds, workCmds'[p] = <<c>>,
         c.name = workCmds[p][1].name, c.type = workCmds[p][1].type,
         c.name = "RtCmToSave" =>
           \A i \in DOMAIN unitList[p] :
             i - 1 <= c.last /\ hasEngine(unitList[p][i].un) => ~out[unitList[p][i].un],
         NEW n, NEW name \in Halts,
         \/ UNCHANGED unitQ
         \/ /\ InRange(p, n) /\ unitQ' = Append(unitQ, ToUnit(p, n, name))
            /\ c.name = "RtCmToSave" /\ n <= c.last + 1
  PROVE  Alone(p)' /\ PassedOff(p)' /\ StopsFollow(p)'
<1>1. /\ unitQ \in Seq(UnitCommands) /\ unitList[p] \in Seq(ListItems) /\ unitList = InitList
      /\ Alone(p) /\ StopsFollow(p)
  BY DEF FixedInv, IInv, NoEdits, TypeOK, QueueTypes, ListTypes, HInv, HaltsInOrder
<1>2. Alone(p)' /\ PassedOff(p)'
  BY <1>1 DEF Alone, PassedOff
<1>3. CASE UNCHANGED unitQ
  <2>1. StopsFollow(p)'
    BY <1>1, <1>3 DEF StopsFollow, Halted
  <2> QED
    BY <1>2, <2>1
<1>4. CASE /\ InRange(p, n) /\ unitQ' = Append(unitQ, ToUnit(p, n, name))
           /\ c.name = "RtCmToSave" /\ n <= c.last + 1
  <2> DEFINE x == ToUnit(p, n, name)
             q == unitQ'
  <2>1. /\ n \in Nat /\ n + 1 \in DOMAIN unitList[p] /\ c.last \in Int
        /\ x.un = unitList[p][n + 1].un /\ x.cmd \in Halts
    BY <1>1, <1>4 DEF InRange, ToUnit, RouteCmds
  <2>2. q = Append(unitQ, x)
    BY <1>4
  <2> HIDE DEF x, q
  <2>3. /\ \A k \in DOMAIN unitQ : k \in DOMAIN q /\ q[k] = unitQ[k]
        /\ \A k \in DOMAIN q : (k \in DOMAIN unitQ /\ q[k] = unitQ[k]) \/ q[k] = x
    BY <1>1, <2>2
  <2>4. \A j \in DOMAIN unitList[p] : unitList[p][j].un = x.un => j = n + 1
    BY <1>1, <2>1 DEF DistinctLists
  <2>5. \A i \in DOMAIN unitList[p] :
          i < n + 1 /\ hasEngine(unitList[p][i].un) => ~out[unitList[p][i].un]
    <3> TAKE i \in DOMAIN unitList[p]
    <3>1. i \in Nat
      BY <1>1
    <3> QED
      BY <1>4, <2>1, <3>1
  <2>6. \A k \in DOMAIN q, j \in DOMAIN unitList[p] :
          q[k].un = unitList[p][j].un =>
            /\ q[k].cmd \in Halts
            /\ \A i \in DOMAIN unitList[p] :
                 i < j /\ hasEngine(unitList[p][i].un) =>
                   (out[unitList[p][i].un] =>
                      \E l \in DOMAIN q : l < k /\ q[l].un = unitList[p][i].un /\ q[l].cmd \in Halts)
    <3> SUFFICES ASSUME NEW k \in DOMAIN q, NEW j \in DOMAIN unitList[p],
                        q[k].un = unitList[p][j].un
                 PROVE  /\ q[k].cmd \in Halts
                        /\ \A i \in DOMAIN unitList[p] :
                             i < j /\ hasEngine(unitList[p][i].un) =>
                               (out[unitList[p][i].un] =>
                                  \E l \in DOMAIN q : /\ l < k /\ q[l].un = unitList[p][i].un
                                                      /\ q[l].cmd \in Halts)
      OBVIOUS
    <3>1. CASE k \in DOMAIN unitQ /\ q[k] = unitQ[k]
      BY <1>1, <2>3, <3>1 DEF StopsFollow, Halted
    <3>2. CASE q[k] = x
      BY <2>1, <2>4, <2>5, <3>2
    <3> QED
      BY <2>3, <3>1, <3>2
  <2>7. StopsFollow(p)'
    BY <1>1, <2>6 DEF q, StopsFollow, Halted, hasEngine
  <2> QED
    BY <1>2, <2>7
<1> QED
  BY <1>3, <1>4

(* A scan tells units of the route in hand only.                           *)
LEMMA ScanSteps ==
  ASSUME FixedInv,
         \/ ScanOther    \/ ScanParallel  \/ ScanKept  \/ ScanFar
         \/ NextDone     \/ NextFailed    \/ LeftSave  \/ LeftCleanStop
         \/ LeftForClean \/ LeftFailed    \/ LeftSilos \/ LeftBunker
  PROVE  rt \in Routes /\ RouteStep(rt)
<1>0. TypeOK
  BY DEF FixedInv, IInv
<1>1. /\ Scanning /\ UNCHANGED linked /\ workCmds'[rt] # <<>>
      /\ \A q \in Routes \ {rt} : workCmds'[q] = workCmds[q] /\ queueCmds'[q] = queueCmds[q]
  BY ScanMain, LeftMain
<1>2. /\ informed /\ rt \in Routes /\ cmd \in RouteCmds /\ unN \in Int
      /\ UNCHANGED <<others, unitList, lastOp, routeQ>>
  BY <1>0, <1>1, UnderScan DEF Scanning, aside
<1>3. /\ cmd.name \in RouteCommands /\ cmd.beginUn \in Int /\ cmd.last \in Int
      /\ unN - 1 \in Int
  BY <1>2 DEF RouteCmds
<1>4. Addresses(rt)
  <2>1. CASE UNCHANGED unitQ
    BY <1>0, <2>1, NoOrder
  <2>2. ASSUME NEW n, NEW name \in RouteCommands, Send(rt, n, name) PROVE Addresses(rt)
    <3> DEFINE p == rt
    <3>1. p \in Routes /\ Send(p, n, name)
      BY <1>2, <2>2
    <3> HIDE DEF p
    <3>2. Addresses(p)
      BY <1>0, <3>1, SendAddresses
    <3> QED
      BY <3>2 DEF p
  <2>3. ASSUME NEW name \in RouteCommands, NEW type \in CmdTypes, NEW waf \in BOOLEAN,
               NEW b \in {cmd.beginUn, cmd.last}, NEW w, NEW g0, NEW gnrl,
               SetCommand(rt, w, g0, Cmd(name, type, waf, b, unN - 1), gnrl)
        PROVE  Addresses(rt)
    <3> DEFINE c == Cmd(name, type, waf, b, unN - 1)
    <3>1. c \in RouteCmds
      BY <1>3, CmdType
    <3> HIDE DEF c
    <3>2. SetCommand(rt, w, g0, c, gnrl)
      BY <2>3 DEF c
    <3> QED
      BY <1>0, <1>2, <3>1, <3>2, SetAddresses
  <2>4. /\ {"RtCmStop", "RtCmStopOnRouteAlarm", "RtCmCleanStop", "RtCmToRoutForClean"}
              \subseteq RouteCommands
        /\ {"Parallel", "UpStepByStep", "DownStepByStep"} \subseteq CmdTypes
    BY DEF RouteCommands, CmdTypes
  <2>5. CASE ScanOther \/ ScanParallel \/ ScanKept \/ ScanFar \/ NextFailed
    BY <2>1, <2>5 DEF ScanOther, ScanParallel, ScanKept, ScanFar, NextFailed
  <2>6. CASE NextDone
    <3>1. UNCHANGED unitQ \/ \E n : Send(rt, n, cmd.name)
      BY <1>2, <2>6 DEF NextDone, RouteCmds
    <3> QED
      BY <1>3, <2>1, <2>2, <3>1
  <2>7. CASE LeftSave \/ LeftCleanStop
    BY <2>2, <2>4, <2>7 DEF LeftSave, LeftCleanStop
  <2>8. CASE LeftForClean
    BY <2>1, <2>3, <2>4, <2>8, Zenon DEF LeftForClean
  <2>9. CASE LeftFailed
    BY <2>1, <2>3, <2>4, <2>9, Zenon DEF LeftFailed
  <2>10. CASE LeftSilos
    BY <2>1, <2>3, <2>4, <2>10, Zenon DEF LeftSilos
  <2>11. CASE LeftBunker
    BY <2>3, <2>4, <2>11, Zenon DEF LeftBunker
  <2> QED
    BY <2>5, <2>6, <2>7, <2>8, <2>9, <2>10, <2>11
<1>5. Handed(rt)
  BY <1>1 DEF Handed, UnitKept, linked, held
<1>6. routeQ # <<>> /\ Head(routeQ).rt = rt /\ routeQ' = routeQ /\ ~clicked
  BY <1>2 DEF informed, clicked, rt
<1> QED
  BY <1>1, <1>2, <1>4, <1>5, <1>6 DEF RouteStep

(* The scan of the command of a stop.                                      *)
LEMMA ScanHalts ==
  ASSUME FixedInv, DistinctLists, HInv, NEW p \in Routes, p = rt, halting(p),
         \/ ScanOther    \/ ScanParallel  \/ ScanKept  \/ ScanFar
         \/ NextDone     \/ NextFailed    \/ LeftSave  \/ LeftCleanStop
         \/ LeftForClean \/ LeftFailed    \/ LeftSilos \/ LeftBunker
  PROVE  Alone(p)' /\ PassedOff(p)' /\ StopsFollow(p)'
<1> DEFINE w == workCmds[p][1]
<1>0. TypeOK /\ Safe
  BY DEF FixedInv, IInv
<1>1. /\ Scanning /\ UNCHANGED <<out, unitList>> /\ RouteStep(p)
  BY ScanMain, LeftMain, ScanSteps DEF RouteStep, others
<1>2. /\ workCmds[p] = <<w>> /\ w \in RouteCmds /\ queueCmds[p] = <<>>
      /\ Alone(p) /\ PassedOff(p)
  BY HaltStands DEF HInv, HaltsInOrder
<1>3. pos = 0 /\ cmd = w
  <2>1. pos < Len(workCmds[p]) /\ pos \in Nat
    BY <1>0, <1>1 DEF Scanning, TypeOK, CommandTypes
  <2> HIDE DEF w
  <2>2. pos = 0
    BY <1>2, <2>1
  <2> QED
    BY <2>2 DEF cmd, w
<1>4. \/ w.name = "RtCmToSave" /\ w.type = "UpStepByStep"
      \/ w.name = "RtCmStop" /\ w.type = "Parallel"
  BY <1>2 DEF Alone
<1>5. /\ un \in Units /\ unN \in Int /\ myRoute[un] = p /\ informed /\ known
      /\ \A i \in DOMAIN unitList[p] : unitList[p][i].un = un <=> i - 1 = unN
  BY <1>1, UnitInHand DEF Scanning, halting
<1>6. /\ w.last \in Int /\ w.endUn \in Int /\ unitList[p] \in Seq(ListItems)
      /\ workCmds \in [Routes -> Seq(RouteCmds)]
  BY <1>0, <1>2 DEF RouteCmds, TypeOK, ListTypes, CommandTypes
<1> HIDE DEF w
<1>7. ASSUME NEW c \in RouteCmds, Becomes(c) PROVE workCmds'[p] = <<c>> /\ queueCmds'[p] = queueCmds[p]
  <2> DEFINE q == workCmds[p]
  <2>1. workCmds'[p] = [q EXCEPT ![pos + 1] = c] /\ queueCmds'[p] = queueCmds[p]
    BY <1>6, <1>7 DEF Becomes, Replaced
  <2>2. q = <<w>>
    BY <1>2
  <2> HIDE DEF q
  <2>3. [q EXCEPT ![pos + 1] = c] = <<c>>
    BY <1>3, <2>2
  <2> QED
    BY <2>1, <2>3
<1>8. w.name = "RtCmToSave" =>
        \A i \in DOMAIN unitList[p] :
          i - 1 <= w.last /\ hasEngine(unitList[p][i].un) => ~out[unitList[p][i].un]
  BY <1>2 DEF PassedOff, w
<1>9. ASSUME UNCHANGED unitQ, NEW c \in RouteCmds, Becomes(c), c.name = w.name, c.type = w.type,
             w.name = "RtCmToSave" => c.last = w.last
      PROVE  Alone(p)' /\ PassedOff(p)' /\ StopsFollow(p)'
  <2> DEFINE n == 0
  <2>1. "RtCmStop" \in Halts
    BY DEF Halts
  <2> QED
    BY <1>1, <1>7, <1>8, <1>9, <2>1, HaltMoves DEF w
<1>10. CASE ScanOther
  <2>1. UNCHANGED <<unitQ, workCmds, queueCmds>>
    BY <1>10 DEF ScanOther
  <2>2. "RtCmStop" \in Halts
    BY DEF Halts
  <2> QED
    BY <1>1, <1>2, <1>8, <2>1, <2>2, HaltMoves DEF w
<1>11. CASE ScanParallel
  <2> DEFINE seen == IF cmd.respCount <= count(cmd) THEN cmd.respCount + 1
                     ELSE cmd.respCount
             c == [cmd EXCEPT !.respCount = seen, !.last = unN,
                              !.good = @ /\ resp = cmd.name,
                              !.finCmd = @ \/ seen = count(cmd)]
  <2>1. UNCHANGED unitQ /\ Becomes(c) /\ cmd.type = "Parallel"
    BY <1>11 DEF ScanParallel
  <2>2. seen \in Nat
    BY <1>2, <1>3 DEF RouteCmds, count
  <2> HIDE DEF seen
  <2>3. c \in RouteCmds /\ c.name = w.name /\ c.type = w.type
    BY <1>2, <1>3, <1>5, <2>2 DEF RouteCmds
  <2> HIDE DEF c
  <2> QED
    BY <1>3, <1>4, <1>9, <2>1, <2>3
<1>12. CASE ScanKept \/ ScanFar
  <2>1. UNCHANGED unitQ /\ Becomes(w)
    BY <1>3, <1>12 DEF ScanKept, ScanFar
  <2> QED
    BY <1>2, <1>9, <2>1
<1>13. CASE NextFailed
  <2> DEFINE good == cmd.good /\ cmd.name = "RtCmToRoutForClean"
             c == [cmd EXCEPT !.finCmd = TRUE, !.good = good]
             d == IF c.type = "UpStepByStep" THEN [c EXCEPT !.endUn = c.last]
                  ELSE [c EXCEPT !.beginUn = c.last]
  <2>1. UNCHANGED unitQ /\ Becomes(d)
    BY <1>13 DEF NextFailed
  <2>2. good \in BOOLEAN
    BY <1>2, <1>3 DEF RouteCmds
  <2> HIDE DEF good
  <2>3. c \in RouteCmds /\ c.name = w.name /\ c.type = w.type /\ c.last = w.last
    BY <1>2, <1>3, <2>2 DEF RouteCmds
  <2> HIDE DEF c
  <2>4. d \in RouteCmds /\ d.name = w.name /\ d.type = w.type /\ d.last = w.last
    BY <2>3 DEF RouteCmds
  <2> HIDE DEF d
  <2> QED
    BY <1>9, <2>1, <2>4
<1>14. CASE LeftSave
  <2>1. /\ Becomes(Short(w)) /\ Send(p, unN, "RtCmStop")
        /\ w.name = "RtCmToSave" /\ covered(w, unN)
    BY <1>3, <1>14 DEF LeftSave, Left, Covered
  <2>2. unN <= w.last
    BY <1>4, <2>1 DEF covered
  <2>3. Short(w) \in RouteCmds /\ Short(w).name = w.name /\ Short(w).type = w.type
        /\ Short(w).last = w.last
    BY <1>2, ShortSame
  <2>4. "RtCmStop" \in Halts /\ unN <= w.last + 1
    BY <1>5, <1>6, <2>2 DEF Halts
  <2>5. UNCHANGED unitQ \/ (InRange(p, unN) /\ unitQ' = Append(unitQ, ToUnit(p, unN, "RtCmStop")))
    BY <2>1 DEF Send
  <2>6. workCmds'[p] = <<Short(w)>> /\ queueCmds'[p] = queueCmds[p]
    BY <1>7, <2>1, <2>3
  <2> DEFINE c == Short(w)
             n == unN
  <2>7. /\ c \in RouteCmds /\ workCmds'[p] = <<c>>
        /\ c.name = workCmds[p][1].name /\ c.type = workCmds[p][1].type
        /\ c.name = "RtCmToSave" /\ n <= c.last + 1
        /\ \A i \in DOMAIN unitList[p] :
             i - 1 <= c.last /\ hasEngine(unitList[p][i].un) => ~out[unitList[p][i].un]
    BY <1>8, <2>1, <2>3, <2>4, <2>6 DEF w
  <2>8. UNCHANGED unitQ \/ (InRange(p, n) /\ unitQ' = Append(unitQ, ToUnit(p, n, "RtCmStop")))
    BY <2>5
  <2> HIDE DEF c, n
  <2> QED
    BY <1>1, <2>4, <2>6, <2>7, <2>8, HaltMoves
<1>15. CASE NextDone
  <2> DEFINE f == [w EXCEPT !.good = TRUE, !.last = unN]
             g == [f EXCEPT !.finCmd = TRUE]
             n == next(f)
  <2>1. /\ unN = next(w) /\ resp = w.name /\ w.type # "Parallel"
        /\ \/ Becomes(g) /\ UNCHANGED unitQ
           \/ Becomes(f) /\ Send(p, n, f.name)
    BY <1>3, <1>15 DEF NextDone, Ahead
  <2>2. w.name = "RtCmToSave" /\ w.type = "UpStepByStep" /\ unN = w.last + 1
    BY <1>4, <2>1 DEF next
  <2>3. /\ f \in RouteCmds /\ f.name = w.name /\ f.type = w.type /\ f.last = unN
        /\ g \in RouteCmds /\ g.name = w.name /\ g.type = w.type /\ g.last = unN
    BY <1>2, <1>5 DEF RouteCmds
  <2>4. n = unN + 1
    BY <2>2, <2>3 DEF next
  <2>5. hasEngine(un) => ~out[un]
    <3>1. 1 \in DOMAIN routeQ /\ From(routeQ[1], p, un) /\ routeQ[1].arg = "RtCmToSave"
      <4>1. routeQ \in Seq(Events) /\ routeQ # <<>> /\ Head(routeQ).ev = "Inform"
        BY <1>0, <1>5 DEF informed, TypeOK, QueueTypes
      <4>2. 1 \in DOMAIN routeQ /\ routeQ[1] = Head(routeQ)
        BY <4>1
      <4> QED
        BY <2>1, <2>2, <4>1, <4>2 DEF From, rt, un, resp
    <3> QED
      BY <1>5, <3>1 DEF HInv, StopsConfirmed
  <2>6. \A i \in DOMAIN unitList[p] :
          i - 1 <= unN /\ hasEngine(unitList[p][i].un) => ~out[unitList[p][i].un]
    <3> SUFFICES ASSUME NEW i \in DOMAIN unitList[p], i - 1 <= unN, hasEngine(unitList[p][i].un)
                 PROVE  ~out[unitList[p][i].un]
      OBVIOUS
    <3>1. i \in Nat
      BY <1>6
    <3>2. CASE i - 1 = unN
      BY <1>5, <2>5, <3>2
    <3>3. CASE i - 1 # unN
      <4>1. i - 1 <= w.last
        BY <1>5, <1>6, <2>2, <3>1, <3>3
      <4> QED
        BY <1>8, <2>2, <4>1
    <3> QED
      BY <3>2, <3>3
  <2>7. n <= unN + 1 /\ w.name \in Halts
    BY <1>5, <2>2, <2>4 DEF Halts
  <2> HIDE DEF f, g, n
  <2>8. ASSUME NEW c \in {f, g}, Becomes(c), UNCHANGED unitQ \/ (c = f /\ Send(p, n, f.name))
        PROVE  Alone(p)' /\ PassedOff(p)' /\ StopsFollow(p)'
    <3>1. c \in RouteCmds /\ c.name = w.name /\ c.type = w.type /\ c.last = unN
      BY <2>3
    <3>2. workCmds'[p] = <<c>> /\ queueCmds'[p] = queueCmds[p]
      BY <1>7, <2>8, <3>1
    <3>3. UNCHANGED unitQ \/ (InRange(p, n) /\ unitQ' = Append(unitQ, ToUnit(p, n, w.name)))
      BY <2>3, <2>8 DEF Send
    <3>4. /\ c.name = workCmds[p][1].name /\ c.type = workCmds[p][1].type
          /\ c.name = "RtCmToSave" /\ n <= c.last + 1
          /\ \A i \in DOMAIN unitList[p] :
               i - 1 <= c.last /\ hasEngine(unitList[p][i].un) => ~out[unitList[p][i].un]
      BY <2>2, <2>6, <2>7, <3>1 DEF w
    <3> DEFINE x == w.name
    <3>5. x \in Halts /\ (UNCHANGED unitQ \/ (InRange(p, n) /\ unitQ' = Append(unitQ, ToUnit(p, n, x))))
      BY <2>7, <3>3
    <3> HIDE DEF x
    <3> QED
      BY <1>1, <3>1, <3>2, <3>4, <3>5, HaltMoves
  <2> QED
    BY <2>1, <2>8
<1>16. CASE LeftCleanStop \/ LeftForClean \/ LeftFailed \/ LeftSilos \/ LeftBunker
  BY <1>3, <1>4, <1>16 DEF LeftCleanStop, LeftForClean, LeftFailed, LeftSilos, LeftBunker, ToRouteLeft
<1> QED
  BY <1>10, <1>11, <1>12, <1>13, <1>14, <1>15, <1>16

LEMMA ScansHalt ==
  ASSUME FixedInv, DistinctLists, WInv, HInv, Owned',
         \/ ScanOther    \/ ScanParallel  \/ ScanKept  \/ ScanFar
         \/ NextDone     \/ NextFailed    \/ LeftSave  \/ LeftCleanStop
         \/ LeftForClean \/ LeftFailed    \/ LeftSilos \/ LeftBunker
  PROVE  HInv'
<1>1. PICK p \in Routes : p = rt /\ RouteStep(p)
  BY ScanSteps
<1>2. halting(p)' => halting(p)
  <2>1. Scanning /\ TypeOK
    BY ScanMain, LeftMain DEF FixedInv, IInv
  <2>2. working(p)
    <3>1. rt \in Routes /\ working(rt)
      BY <2>1, ReplacedWorks
    <3> QED
      BY <1>1, <3>1
  <2>3. UNCHANGED lastOp
    BY <2>1 DEF Scanning, aside
  <2> QED
    BY <2>2, <2>3 DEF halting
<1>3. halting(p)' => Alone(p)' /\ PassedOff(p)' /\ StopsFollow(p)'
  BY <1>1, <1>2, ScanHalts
<1> QED
  BY <1>1, <1>2, <1>3, RouteHalts

(* A stop has nothing to remove.                                           *)
LEMMA RemoveHalts ==
  ASSUME FixedInv, WInv, HInv, Owned', RemoveCommand
  PROVE  HInv'
<1>1. /\ TypeOK /\ informed
      /\ UNCHANGED <<others, unitList, lastOp, routeQ, unitQ, queueCmds, myRoute, routeMode, routeCommand>>
  BY DEF FixedInv, IInv, RemoveCommand, Scanned, aside, linked, held
<1>2. PICK p \in Routes : p = rt /\ routeQ # <<>> /\ Head(routeQ).rt = p
  BY <1>1, InHand DEF informed, rt
<1>3. /\ workCmds \in [Routes -> Seq(RouteCmds)]
      /\ \E i \in DOMAIN workCmds[p] : i # genCom[p]
      /\ \A q \in Routes \ {p} : workCmds'[q] = workCmds[q]
  BY <1>1, <1>2 DEF RemoveCommand, removable, TypeOK, CommandTypes
<1>4. working(p) /\ ~halting(p)
  <2>1. working(p)
    BY <1>3 DEF working
  <2>2. ASSUME halting(p) PROVE FALSE
    <3>1. genCom[p] = 1 /\ workCmds[p] = <<workCmds[p][1]>>
      BY <2>2, HaltStands
    <3>2. DOMAIN workCmds[p] = {1}
      BY <3>1
    <3> QED
      BY <1>3, <3>1, <3>2
  <2> QED
    BY <2>1, <2>2
<1>5. ~halting(p)'
  BY <1>1, <1>4 DEF halting
<1>6. RouteStep(p)
  <2>1. Addresses(p)
    BY <1>1, NoOrder
  <2>2. Handed(p)
    BY <1>1 DEF Handed, UnitKept
  <2>3. ~clicked
    BY <1>1 DEF informed, clicked
  <2> QED
    BY <1>1, <1>2, <1>3, <2>1, <2>2, <2>3 DEF RouteStep
<1> QED
  BY <1>5, <1>6, RouteHalts

(* A stop is the only command, so its end is the end of the work.          *)
LEMMA EndingHalts ==
  ASSUME FixedInv, NoEmptyList, DistinctLists, WInv, HInv, Owned',
         InformFromStranger \/ RouteDone \/ NextQueued \/ StillWorking
  PROVE  HInv'
<1>0. /\ TypeOK /\ Safe /\ InRanges
      /\ queueCmds \in [Routes -> Seq(RouteCmds)] /\ workCmds \in [Routes -> Seq(RouteCmds)]
  BY DEF FixedInv, IInv, TypeOK, CommandTypes
<1>1. PICK p \in Routes : p = rt /\ Taken(p)
  BY EndingTaken
<1>2. /\ UNCHANGED <<others, unitList, lastOp>> /\ routeQ # <<>> /\ routeQ' = Tail(routeQ)
      /\ Head(routeQ).rt = p
  BY <1>1 DEF Taken, InformFromStranger, RouteDone, NextQueued, StillWorking, Ending, aside, rt
<1>3. CASE InformFromStranger \/ StillWorking
  <2>1. UNCHANGED <<unitQ, workCmds, queueCmds>>
    BY <1>3 DEF InformFromStranger, StillWorking
  <2>2. RouteStep(p)
    <3>1. Addresses(p)
      BY <1>0, <2>1, NoOrder
    <3> QED
      BY <1>1, <1>2, <2>1, <3>1 DEF RouteStep, Taken
  <2>3. halting(p)' => halting(p)
    BY <1>2, <2>1 DEF halting, working
  <2>4. halting(p)' => Alone(p)' /\ PassedOff(p)' /\ StopsFollow(p)'
    <3>1. UNCHANGED <<out, unitList>>
      BY <1>2 DEF others
    <3> QED
      BY <2>1, <2>3, <3>1 DEF HInv, HaltsInOrder, Alone, PassedOff, StopsFollow, Halted
  <2> QED
    BY <2>2, <2>3, <2>4, RouteHalts
<1>4. CASE RouteDone
  <2>1. UNCHANGED unitQ /\ workCmds'[p] = <<>>
    BY <1>0, <1>1, <1>4 DEF RouteDone
  <2>2. RouteStep(p)
    <3>1. Addresses(p)
      BY <1>0, <2>1, NoOrder
    <3> QED
      BY <1>1, <1>2, <2>1, <3>1 DEF RouteStep, Taken
  <2>3. ~halting(p)'
    BY <2>1 DEF halting, working
  <2> QED
    BY <2>2, <2>3, RouteHalts
<1>5. CASE NextQueued
  <2> DEFINE c == Head(queueCmds[p])
             w == <<>>
  <2>1. /\ genCom[p] # 0 /\ queueCmds[p] # <<>>
        /\ \E gnrl \in {TRUE} : SetCommand(p, w, 0, c, gnrl)
    BY <1>1, <1>5 DEF NextQueued, genFinished, queued
  <2>2. ~halting(p)
    BY <2>1, HaltStands
  <2>3. working(p)
    BY <1>0, <2>1 DEF Safe, GenComLive
  <2>4. c \in RouteCmds /\ w \in Seq(RouteCmds)
    BY <1>0, <2>1
  <2> HIDE DEF c, w
  <2>5. Addresses(p) /\ (unitQ' # unitQ => workCmds'[p] # <<>>)
    BY <1>0, <2>1, <2>4, SetAddresses
  <2>6. RouteStep(p)
    BY <1>1, <1>2, <2>5 DEF RouteStep, Taken
  <2>7. ~halting(p)'
    BY <1>2, <2>2, <2>3 DEF halting
  <2> QED
    BY <2>6, <2>7, RouteHalts
<1> QED
  BY <1>3, <1>4, <1>5

-----------------------------------------------------------------------------
(* All steps.                                                              *)

(* The window only looks.                                                  *)
LEMMA ShowHalts ==
  ASSUME HInv, UNCHANGED <<unitVars, unitList, workCmds, queueCmds, lastOp>>
  PROVE  HInv'
<1>1. UNCHANGED <<myRoute, routeMode, routeCommand, out, unitQ, routeQ>>
  BY DEF unitVars, held, plant
<1>2. /\ clicked' <=> clicked
      /\ \A r \in Routes : /\ halting(r)' <=> halting(r)
                           /\ (Alone(r)' <=> Alone(r)) /\ (PassedOff(r)' <=> PassedOff(r))
                           /\ (StopsFollow(r)' <=> StopsFollow(r))
  BY <1>1 DEF clicked, halting, working, Alone, PassedOff, StopsFollow, Halted
<1>3. HaltsInOrder' /\ ClickQuiet'
  BY <1>1, <1>2 DEF HInv, HaltsInOrder, ClickQuiet
<1>4. StopsConfirmed' /\ Obeyed' /\ FreeForgets'
  BY <1>1, <1>2 DEF HInv, StopsConfirmed, From, Obeyed, FreeForgets
<1> QED
  BY <1>3, <1>4 DEF HInv

(* The operator clicks on a line that has settled.                         *)
LEMMA ClickHalts ==
  ASSUME FixedInv, HInv, NEW r \in Routes, NEW op, Click(r, op), settled
  PROVE  HInv'
<1>1. /\ UNCHANGED <<held, others, routeCommand, unitQ, unitList, workCmds, queueCmds, lastOp>>
      /\ unitQ = <<>> /\ routeQ = <<>>
      /\ routeQ' = Append(routeQ, [ev |-> "Op", rt |-> r, un |-> NoUnit, arg |-> op])
  BY DEF Click, settled
<1>2. \A k \in DOMAIN routeQ' : routeQ'[k].ev = "Op"
  BY <1>1
<1>3. StopsConfirmed'
  BY <1>2 DEF StopsConfirmed, From
<1>4. UNCHANGED <<myRoute, routeCommand, out>>
  BY <1>1 DEF held, others
<1>5. \A q \in Routes : /\ halting(q)' <=> halting(q)
                        /\ (Alone(q)' <=> Alone(q)) /\ (PassedOff(q)' <=> PassedOff(q))
                        /\ (StopsFollow(q)' <=> StopsFollow(q))
  BY <1>1, <1>4 DEF halting, working, Alone, PassedOff, StopsFollow, Halted
<1>6. Obeyed' /\ FreeForgets' /\ HaltsInOrder' /\ ClickQuiet'
  BY <1>1, <1>4, <1>5 DEF HInv, Obeyed, FreeForgets, HaltsInOrder, ClickQuiet
<1> QED
  BY <1>3, <1>6 DEF HInv

LEMMA HaltNext ==
  ASSUME FixedLists, NoEmptyList, DistinctLists, FixedInv, WInv, HInv, [PatientNext]_vars, Owned'
  PROVE  HInv'
<1>0. TypeOK /\ NoEdits /\ Obeyed /\ FreeForgets
  BY DEF FixedInv, IInv, HInv
<1>1. CASE UNCHANGED vars
  BY <1>1, ShowHalts DEF vars, routeVars
<1>2. CASE (UnitThread \/ UnitPlant) /\ UNCHANGED routeVars
  <2>1. HaltStep
    BY <1>0, <1>2, CommandHalts, ObserveHalts, PlantHalts DEF UnitThread
  <2> QED
    BY <1>2, <2>1, UnitsHalt
<1>3. CASE RouteThread
  <2>1. CASE InformStep
    BY <2>1, ScansHalt, RemoveHalts, EndingHalts DEF InformStep
  <2>2. ASSUME NEW r \in Routes, Start(r) \/ Stop(r) \/ CleanStop(r) \/ Freeze(r)
        PROVE  HInv'
    BY <2>2, OrderHalts
  <2> QED
    BY <1>0, <1>3, <2>1, <2>2, HandlersFixed
<1>4. ASSUME NEW r \in Routes, Operator(r), ops' # ops => settled PROVE HInv'
  <2>1. ASSUME NEW op \in OpNames, Click(r, op) PROVE HInv'
    <3>1. ops' # ops
      BY <1>0, <2>1 DEF Click, TypeOK, ListTypes
    <3> QED
      BY <1>4, <2>1, <3>1, ClickHalts
  <2>2. ASSUME NEW u, NEW m, AddInRoute(r, u, m) PROVE FALSE
    BY <2>2 DEF AddInRoute, FixedLists
  <2> QED
    BY <1>4, <2>1, <2>2 DEF Operator
<1>5. ASSUME NEW r \in Routes, Show(r) PROVE HInv'
  BY <1>5, ShowHalts DEF Show
<1> QED
  BY <1>1, <1>2, <1>3, <1>4, <1>5 DEF PatientNext, Next

LEMMA InitHalts ==
  ASSUME Init
  PROVE  HInv
<1>1. routeQ = <<>> /\ unitQ = <<>> /\ \A r \in Routes : ~working(r)
  BY DEF Init, UnitInit, working
<1>2. Obeyed /\ FreeForgets
  BY DEF Init, UnitInit, Obeyed, FreeForgets, Halts
<1> QED
  BY <1>1, <1>2 DEF HInv, ClickQuiet, clicked, StopsConfirmed, HaltsInOrder, halting

(* Who is switched off by a command was told to, and all upstream of it    *)
(* are off or were told to before.                                         *)
LEMMA HaltsOrdered ==
  ASSUME FixedInv, HInv, commandFromRoute,
         NEW r \in Routes, NEW u \in Units, NEW v \in Units, Upstream(r, u, v),
         lastOp[r] \in {"Stop", "Freeze"}, hasEngine(u), SwitchedOff(v)
  PROVE  ~out[u]
<1>1. /\ TypeOK /\ Safe /\ unitQ \in Seq(UnitCommands) /\ unitQ # <<>> /\ NoRoute # r
  BY UnitConstants DEF FixedInv, IInv, TypeOK, QueueTypes, commandFromRoute
<1>2. 1 \in DOMAIN unitQ /\ unitQ[1] = Head(unitQ) /\ \A l \in DOMAIN unitQ : ~(l < 1)
  BY <1>1
<1>3. Head(unitQ).un = v
  <2> DEFINE h == Head(unitQ)
  <2>1. /\ out \in [Units -> BOOLEAN]
        /\ \/ UNCHANGED out
           \/ \E value : Write(h.un, value)
    BY <1>1, Zenon DEF commandFromRoute, Ignore, RepeatCommand, AcceptCommand, TypeOK, PlantTypes
  <2> HIDE DEF h
  <2>2. UNCHANGED out \/ \E value : out' = [out EXCEPT ![h.un] = value]
    BY <2>1 DEF Write
  <2>3. v # h.un => out'[v] = out[v]
    BY <2>1, <2>2
  <2> QED
    BY <2>3 DEF h, SwitchedOff
<1>4. halting(r)
  BY <1>1 DEF Upstream, halting, Safe, AtWork
<1>5. PICK i, j \in DOMAIN unitList[r] : i < j /\ unitList[r][i].un = u /\ unitList[r][j].un = v
  BY DEF Upstream
<1>6. Halted(u, 1)
  BY <1>2, <1>3, <1>4, <1>5 DEF HInv, HaltsInOrder, StopsFollow
<1> QED
  BY <1>2, <1>6 DEF Halted

(* A line stops from its beginning, whatever fails on the way, as long as  *)
(* the operator waits for it to settle (Route::StopRoute, InformFromUnit,  *)
(* commandFromRoute): an engine that a command switches off in a route     *)
(* that was told to stop leaves no engine upstream of it running.          *)
THEOREM StopsInOrder ==
  ASSUME FixedLists, NoEmptyList, DistinctLists PROVE PatientSpec => StopInOrder
<1> DEFINE I == IInv /\ NoEdits /\ InRanges /\ Owned /\ WInv
<1>1. Init => HInv
  BY InitHalts
<1>2. I /\ I' /\ HInv /\ [PatientNext]_vars => HInv'
  BY HaltNext DEF FixedInv
<1>3. I /\ HInv /\ [PatientNext]_vars =>
        [commandFromRoute =>
           \A r \in Routes, u, v \in Units :
             /\ Upstream(r, u, v) /\ lastOp[r] \in {"Stop", "Freeze"}
             /\ hasEngine(u) /\ SwitchedOff(v)
             => ~out[u]]_vars
  BY HaltsOrdered DEF FixedInv
<1>4. PatientSpec => []I
  BY PatientInductive
<1> HIDE DEF I
<1> QED
  BY <1>1, <1>2, <1>3, <1>4, PTL DEF PatientSpec, PatientNext, StopInOrder
=============================================================================
