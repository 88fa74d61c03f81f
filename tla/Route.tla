------------------------------- MODULE Route -------------------------------
(***************************************************************************)
(* Route (Route/route.cpp) in the routes thread, composed with the units   *)
(* thread of module RouteUnit.  A route holds its units, sends them the    *)
(* commands of workCmds one after the other, and moves on when they answer *)
(* (InformFromUnit).  The handlers of all routes run in one thread, one at *)
(* a time; InformFromUnit is taken in steps, because the units thread runs *)
(* between the commands that it sends.                                     *)
(*                                                                         *)
(* Unit numbers, beginUn, endUn and last count from 0 as in the code; the  *)
(* sequences count from 1, so unit n of route r is unitList[r][n + 1].     *)
(***************************************************************************)
EXTENDS RouteUnit

CONSTANTS
  InitList,  \* InitList[r]: the unit list loaded from the ini file
  Ops,       \* the operations the operator may use
  MaxOps     \* bound on the operator's clicks

OpNames == {"Start", "Stop", "CleanStop", "Freeze", "DeleteLastUnit",
            "CleanUnitList", "AddUnit"}

ListItems == [un : Units, mode : UnitModes]

ASSUME RouteConstants ==
  /\ InitList \in [Routes -> Seq(ListItems)]
  /\ Ops \subseteq OpNames
  /\ MaxOps \in Nat

VARIABLES
  unitList,     \* _unitList with _unitMode
  workCmds,     \* _workCmds
  queueCmds,    \* _queueCmds
  genCom,       \* index in workCmds of *_genCom, 0 for nullptr
  allConnected, \* _allUnitsConnected
  command,      \* the static RouteCmd* of InformFromUnit, ix = 0 once freed
  pos,          \* commands InformFromUnit has scanned for the event in hand
  fault,        \* a list was indexed out of its range
  shown,        \* what the route window shows: st (working), str (has units)
  ops,          \* clicks left
  lastOp        \* the last operation each route has handled

routeVars == <<unitList, workCmds, queueCmds, genCom, allConnected, command,
               pos, fault, shown, ops, lastOp>>
vars == <<unitVars, routeVars>>

others == <<mode, eng, out, due, sensed, alarm, mayReset, unheard, disturb>>

-----------------------------------------------------------------------------
(* RouteCmd.  respCount only counts for Parallel commands; ascCount is     *)
(* never read.                                                             *)

Cmd(name, type, waf, b, e) ==
  [name |-> name, type |-> type, workAftFin |-> waf, beginUn |-> b, endUn |-> e,
   finCmd |-> FALSE, good |-> TRUE, last |-> -1, respCount |-> 0]

count(c) == c.endUn - c.beginUn + 1

next(c) == CASE c.type = "UpStepByStep"   -> c.last + 1
             [] c.type = "DownStepByStep" -> c.last - 1
             [] OTHER -> -1

(* Mutant: the last unit but one ends the command. *)
atEnd_Early(c) == IF c.type = "UpStepByStep" THEN c.last >= c.endUn - 1
                  ELSE c.last <= c.beginUn + 1

(* Mutant: the command goes on past its last unit. *)
atEnd_Late(c) == IF c.type = "UpStepByStep" THEN c.last > c.endUn
                 ELSE c.last < c.beginUn

atEnd(c) == IF c.type = "UpStepByStep" THEN c.last >= c.endUn
            ELSE c.last <= c.beginUn

covered(c, n) == IF c.type = "UpStepByStep" THEN n <= c.last ELSE n >= c.last

-----------------------------------------------------------------------------
(* Holding units.  The functions below give the new value for route r.     *)

unitsOf(r) == {unitList[r][i].un : i \in DOMAIN unitList[r]}

indexOf(r, u) == CHOOSE i \in DOMAIN unitList[r] : unitList[r][i].un = u

InRange(r, n) == n \in 0 .. Len(unitList[r]) - 1

(* setMyRoute for every unit of us. *)
HandOver(us, rt, modeOf(_)) ==
  /\ myRoute' = [u \in Units |-> IF u \in us THEN rt ELSE myRoute[u]]
  /\ routeMode' = [u \in Units |-> IF u \in us THEN modeOf(u) ELSE routeMode[u]]
  /\ routeCommand' = [u \in Units |-> IF u \in us THEN "RtCmNo" ELSE routeCommand[u]]

Release(us) == HandOver(us, NoRoute, LAMBDA u : "UnMdNoDef")

heldBy(r) == {u \in unitsOf(r) : myRoute[u] = r}

(* Mutant: the units stay blocked. *)
DisconnectAllUnit_Kept(r) ==
  /\ UNCHANGED <<held, routeCommand>>
  /\ allConnected' = [allConnected EXCEPT ![r] = FALSE]

(* DisconnectAllUnit: _CheckConnection runs only if a unit was released.   *)
DisconnectAllUnit(r) ==
  /\ Release(heldBy(r))
  /\ allConnected' = [allConnected EXCEPT ![r] = @ /\ heldBy(r) = {}]

(* Mutant: a unit is taken although another route holds it. *)
canConnect_Always(r) == TRUE

canConnect(r) == \A u \in unitsOf(r) : myRoute[u] \in {r, NoRoute}

freeOf(r) == {u \in unitsOf(r) : myRoute[u] = NoRoute}

_ConnectUnit(r, us) == HandOver(us, r, LAMBDA u : unitList[r][indexOf(r, u)].mode)

(* Mutant: what was taken is kept although another unit was refused.       *)
_ConnectAllUnits_Kept(r) ==
  /\ _ConnectUnit(r, freeOf(r))
  /\ allConnected' = [allConnected EXCEPT ![r] = canConnect(r)]

(* _ConnectAllUnits takes every unit that is free; when one belongs to      *)
(* another route, DisconnectAllUnit gives back those just taken and those  *)
(* the route held before.                                                  *)
_ConnectAllUnits(r) ==
  /\ IF canConnect(r) THEN _ConnectUnit(r, freeOf(r))
     ELSE Release(heldBy(r) \cup freeOf(r))
  /\ allConnected' = [allConnected EXCEPT ![r] = canConnect(r)]

ToUnit(r, n, name) ==
  [un |-> unitList[r][n + 1].un, cmd |-> name]

Send(r, n, name) ==
  IF InRange(r, n) THEN unitQ' = Append(unitQ, ToUnit(r, n, name)) /\ fault' = fault
  ELSE unitQ' = unitQ /\ fault' = TRUE

(* SetCommand(c, gnrl) on top of the commands work and the main command    *)
(* gen of route r.                                                         *)
Resolved(r, c) ==
  LET b == IF c.beginUn = -1 THEN 0 ELSE c.beginUn
      e == IF c.endUn = -1 THEN Len(unitList[r]) - 1 ELSE c.endUn
  IN  [c EXCEPT !.beginUn = b, !.endUn = e,
                !.last = IF c.type = "DownStepByStep" THEN e + 1 ELSE b - 1]

SendAll(r, c) ==
  LET ns == c.beginUn .. c.endUn
  IN  IF \A n \in ns : InRange(r, n)
      THEN /\ unitQ' = unitQ \o [i \in 1 .. c.endUn - c.beginUn + 1 |->
                                   ToUnit(r, c.beginUn + i - 1, c.name)]
           /\ fault' = fault
      ELSE unitQ' = unitQ /\ fault' = TRUE

SetCommand(r, work, gen, cmd, gnrl) ==
  LET c == Resolved(r, cmd)
      g == IF work = <<>> THEN 0 ELSE gen
  IN  /\ IF allConnected[r]
         THEN UNCHANGED <<held, routeCommand, allConnected>>
         ELSE _ConnectAllUnits(r)
      /\ IF allConnected[r] \/ canConnect(r)
         THEN /\ workCmds' = [workCmds EXCEPT ![r] = Append(work, c)]
              /\ genCom' = [genCom EXCEPT ![r] = IF g = 0 \/ gnrl THEN Len(work) + 1 ELSE g]
              /\ IF c.type = "Parallel" THEN SendAll(r, c) ELSE Send(r, next(c), c.name)
         ELSE /\ workCmds' = [workCmds EXCEPT ![r] = work]
              /\ genCom' = [genCom EXCEPT ![r] = g]
              /\ UNCHANGED <<unitQ, fault>>

-----------------------------------------------------------------------------
(* The operator.  Buttons are guarded by what the window shows.            *)

Enabled(r, op) ==
  CASE op = "Start" -> shown[r].str
    [] op = "DeleteLastUnit" -> shown[r].str /\ ~shown[r].st
    [] OTHER -> TRUE

Click(r, op) ==
  /\ ops > 0
  /\ op \in Ops \ {"AddUnit"}
  /\ Enabled(r, op)
  /\ ops' = ops - 1
  /\ routeQ' = Append(routeQ, [ev |-> "Op", rt |-> r, un |-> NoUnit, arg |-> op])
  /\ UNCHANGED <<held, others, routeCommand, unitQ, unitList, workCmds, queueCmds,
                 genCom, allConnected, command, pos, fault, shown, lastOp>>

(* addInRoute, from the unit's window: the unit forgets its route command  *)
(* at once, whatever route holds it.                                       *)
AddInRoute(r, u, m) ==
  /\ ops > 0
  /\ "AddUnit" \in Ops
  /\ m \in IF hasEngine(u) THEN {"UnMdStart", "UnMdStop"} ELSE LevelModes(u)
  /\ ops' = ops - 1
  /\ routeCommand' = [routeCommand EXCEPT ![u] = "RtCmNo"]
  /\ routeQ' = Append(routeQ, [ev |-> "Add", rt |-> r, un |-> u, arg |-> m])
  /\ UNCHANGED <<held, others, unitQ, unitList, workCmds, queueCmds, genCom,
                 allConnected, command, pos, fault, shown, lastOp>>

(* The queued signals Started, Stoped and UnitUpdate reach the window; it  *)
(* matters only while a click is left.                                     *)
Show(r) ==
  /\ shown' = [shown EXCEPT ![r] = [st |-> workCmds[r] # <<>>,
                                    str |-> unitList[r] # <<>>]]
  /\ ops > 0
  /\ shown' # shown
  /\ UNCHANGED <<unitVars, unitList, workCmds, queueCmds, genCom, allConnected,
                 command, pos, fault, ops, lastOp>>

-----------------------------------------------------------------------------
(* The handlers of the routes thread for the operator's events.            *)

Take(name) ==
  /\ routeQ # <<>>
  /\ Head(routeQ).ev = name
  /\ routeQ' = Tail(routeQ)

Handle(r, op) ==
  /\ Take("Op")
  /\ Head(routeQ).rt = r
  /\ Head(routeQ).arg = op
  /\ lastOp' = [lastOp EXCEPT ![r] = op]
  /\ UNCHANGED <<others, pos, shown, ops>>

(* The new command list starts with cmd; all pointers into the old one die. *)
Restart(r, cmd, gnrl, queue) ==
  /\ SetCommand(r, <<>>, 0, cmd, gnrl)
  /\ queueCmds' = [queueCmds EXCEPT ![r] = queue]
  /\ command' = IF command.rt = r THEN [command EXCEPT !.ix = 0] ELSE command
  /\ UNCHANGED unitList

(* Mutant: the line is started from its beginning. *)
Start_Up(r) ==
  /\ Handle(r, "Start")
  /\ Restart(r, Cmd("RtCmToRoute", "UpStepByStep", TRUE, -1, -1), FALSE, <<>>)

Start(r) ==
  /\ Handle(r, "Start")
  /\ Restart(r, Cmd("RtCmToRoute", "DownStepByStep", TRUE, -1, -1), FALSE, <<>>)

saving(r) == genCom[r] # 0 /\ workCmds[r][genCom[r]].name = "RtCmToSave"

(* Mutant: the line is stopped from its end. *)
Stop_Down(r) ==
  /\ Handle(r, "Stop")
  /\ IF saving(r)
     THEN Restart(r, Cmd("RtCmStop", "Parallel", FALSE, -1, -1), FALSE, <<>>)
     ELSE Restart(r, Cmd("RtCmToSave", "DownStepByStep", FALSE, -1, -1), TRUE, <<>>)

Stop(r) ==
  /\ Handle(r, "Stop")
  /\ IF saving(r)
     THEN Restart(r, Cmd("RtCmStop", "Parallel", FALSE, -1, -1), FALSE, <<>>)
     ELSE Restart(r, Cmd("RtCmToSave", "UpStepByStep", FALSE, -1, -1), TRUE, <<>>)

CleanStop(r) ==
  /\ Handle(r, "CleanStop")
  /\ Restart(r, Cmd("RtCmToRoutForClean", "DownStepByStep", TRUE, -1, -1), FALSE,
             <<Cmd("RtCmCleanStop", "UpStepByStep", FALSE, -1, -1)>>)

Freeze(r) ==
  /\ Handle(r, "Freeze")
  /\ Restart(r, Cmd("RtCmStop", "Parallel", FALSE, -1, -1), TRUE, <<>>)

(* The handler of an order has got to _ConnectAllUnits.                    *)
connecting(r) ==
  /\ routeQ # <<>> /\ Head(routeQ).ev = "Op" /\ Head(routeQ).rt = r
  /\ Head(routeQ).arg \in {"Start", "Stop", "CleanStop", "Freeze"}
  /\ ~allConnected[r]

(* Its loop takes the next free unit of the list, and the units thread may  *)
(* run before it takes another or gives all of them back.                  *)
ConnectNext(r) ==
  /\ connecting(r)
  /\ \E i \in DOMAIN unitList[r] :
       /\ myRoute[unitList[r][i].un] = NoRoute
       /\ \A j \in 1 .. i - 1 : myRoute[unitList[r][j].un] # NoRoute
       /\ _ConnectUnit(r, {unitList[r][i].un})
  /\ UNCHANGED <<others, unitQ, routeQ, routeVars>>

AddUnit ==
  /\ Take("Add")
  /\ LET r == Head(routeQ).rt
         u == Head(routeQ).un
         m == Head(routeQ).arg
     IN  unitList' = IF u \in unitsOf(r) THEN unitList
                     ELSE [unitList EXCEPT ![r] = Append(@, [un |-> u, mode |-> m])]
  /\ UNCHANGED <<held, others, routeCommand, unitQ, workCmds, queueCmds, genCom,
                 allConnected, command, pos, fault, shown, ops, lastOp>>

DeleteLastUnit(r) ==
  /\ Handle(r, "DeleteLastUnit")
  /\ IF unitList[r] = <<>>
     THEN /\ fault' = TRUE
          /\ UNCHANGED <<held, routeCommand, unitList, allConnected>>
     ELSE LET k == Len(unitList[r])
              u == unitList[r][k].un
              rest == SubSeq(unitList[r], 1, k - 1)
          IN  /\ unitList' = [unitList EXCEPT ![r] = rest]
              /\ Release({u} \cap heldBy(r))
              /\ allConnected' =
                   IF myRoute[u] # r THEN allConnected
                   ELSE [allConnected EXCEPT ![r] =
                           \A i \in DOMAIN rest : myRoute[rest[i].un] = r]
              /\ UNCHANGED fault
  /\ UNCHANGED <<unitQ, workCmds, queueCmds, genCom, command>>

CleanUnitList(r) ==
  /\ Handle(r, "CleanUnitList")
  /\ DisconnectAllUnit(r)
  /\ unitList' = [unitList EXCEPT ![r] = <<>>]
  /\ UNCHANGED <<unitQ, workCmds, queueCmds, genCom, command, fault>>

=============================================================================
