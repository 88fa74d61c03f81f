----------------------------- MODULE RouteInform -----------------------------
(***************************************************************************)
(* Route::InformFromUnit (route.cpp:152), the answer of a unit to its route, *)
(* and the specification of routes and units together.                     *)
(*                                                                         *)
(* The handler scans the commands at work.  Each command whose range holds *)
(* the unit moves on, fails, or ends; then finished commands are removed    *)
(* and the main command decides what becomes of the route.  One step here  *)
(* is one command of the scan, one of the removal, or the end.             *)
(***************************************************************************)
EXTENDS Route, SequencesExt

(* The event in hand stays at the head of routeQ until it is dealt with.   *)
informed == routeQ # <<>> /\ Head(routeQ).ev = "Inform"

rt   == Head(routeQ).rt
un   == Head(routeQ).un
resp == Head(routeQ).arg
unN  == indexOf(rt, un) - 1

known == un \in unitsOf(rt)

(* The command under scan. *)
cmd  == workCmds[rt][pos + 1]

Addressed == cmd.beginUn <= unN /\ unN <= cmd.endUn

aside  == <<others, unitList, shown, ops, lastOp>>
linked == <<held, routeCommand, allConnected>>

(* The unit has left the list since it answered. *)
InformFromStranger ==
  /\ informed
  /\ ~known
  /\ routeQ' = Tail(routeQ)
  /\ UNCHANGED <<aside, linked, unitQ, workCmds, queueCmds, genCom, command, pos, fault>>

-----------------------------------------------------------------------------

Scanning ==
  /\ informed
  /\ known
  /\ pos < Len(workCmds[rt])
  /\ pos' = pos + 1
  /\ UNCHANGED <<aside, routeQ>>

ScanOther ==
  /\ Scanning
  /\ ~Addressed
  /\ UNCHANGED <<linked, unitQ, workCmds, queueCmds, genCom, command, fault>>

(* The scan of an addressed command: it becomes c, `command' points at it. *)
Replaced(c) == [workCmds[rt] EXCEPT ![pos + 1] = c]

Scan ==
  /\ Scanning
  /\ Addressed
  /\ command' = [rt |-> rt, ix |-> pos + 1]

Becomes(c) ==
  /\ workCmds' = [workCmds EXCEPT ![rt] = Replaced(c)]
  /\ UNCHANGED <<linked, queueCmds, genCom>>

(* Mutant: the answer in hand is not counted yet when the count is compared. *)
ScanParallel_Uncounted ==
  /\ Scan
  /\ cmd.type = "Parallel"
  /\ Becomes([cmd EXCEPT !.respCount = IF @ <= count(cmd) THEN @ + 1 ELSE @,
                         !.last = unN,
                         !.good = @ /\ resp = cmd.name,
                         !.finCmd = @ \/ cmd.respCount = count(cmd)])
  /\ UNCHANGED <<unitQ, fault>>

ScanParallel ==
  /\ Scan
  /\ cmd.type = "Parallel"
  /\ LET seen == IF cmd.respCount <= count(cmd) THEN cmd.respCount + 1
                 ELSE cmd.respCount
     IN  Becomes([cmd EXCEPT !.respCount = seen, !.last = unN,
                             !.good = @ /\ resp = cmd.name,
                             !.finCmd = @ \/ seen = count(cmd)])
  /\ UNCHANGED <<unitQ, fault>>

-----------------------------------------------------------------------------
(* A unit that the step-by-step command has already passed.                *)

Covered == Scan /\ cmd.type # "Parallel" /\ covered(cmd, unN)
Left    == Covered /\ resp # cmd.name

ScanKept ==
  /\ Covered
  /\ resp = cmd.name
  /\ Becomes(cmd)
  /\ UNCHANGED <<unitQ, fault>>

(* A command over fewer than two units is over with whatever answer.       *)
Short(c) == IF count(c) < 2 THEN [c EXCEPT !.finCmd = TRUE, !.workAftFin = FALSE] ELSE c

Finished(c, waf, good) ==
  [c EXCEPT !.workAftFin = waf, !.finCmd = TRUE, !.good = good]

LeftForClean ==
  /\ Left
  /\ cmd.name = "RtCmToRoutForClean"
  /\ LET stops == unN # cmd.last
         c == [cmd EXCEPT !.good = @ /\ ~stops,
                          !.last = IF stops THEN unN + 1 ELSE cmd.last + 1]
     IN  IF stops /\ unN > 0
         THEN /\ SetCommand(rt, Replaced(Short(c)), genCom[rt],
                   Cmd("RtCmStopOnRouteAlarm", "Parallel", FALSE, cmd.last, unN - 1), FALSE)
              /\ UNCHANGED queueCmds
         ELSE Becomes(Short(c)) /\ UNCHANGED <<unitQ, fault>>

LeftCleanStop ==
  /\ Left
  /\ cmd.name = "RtCmCleanStop"
  /\ Becomes(Short(Finished(cmd, TRUE, cmd.good)))
  /\ Send(rt, unN, "RtCmStop")

LeftSave ==
  /\ Left
  /\ cmd.name = "RtCmToSave"
  /\ Becomes(Short(cmd))
  /\ Send(rt, unN, "RtCmStop")

(* Out of RtCmToRoute: a silos is full, a bunker asks for a change, any    *)
(* other unit has failed and everything before it is stopped.              *)
ToRouteLeft ==
  /\ Left
  /\ cmd.name = "RtCmToRoute"

LeftFailed ==
  /\ ToRouteLeft
  /\ hasEngine(un)
  /\ LET c == Short([Finished(cmd, TRUE, FALSE) EXCEPT !.last = unN + 1])
     IN  IF unN > cmd.last
         THEN /\ SetCommand(rt, Replaced(c), genCom[rt],
                   Cmd("RtCmStopOnRouteAlarm", "Parallel", TRUE, cmd.beginUn, unN - 1), FALSE)
              /\ UNCHANGED queueCmds
         ELSE Becomes(c) /\ UNCHANGED <<unitQ, fault>>

LeftSilos ==
  /\ ToRouteLeft
  /\ Kind[un] = "silos"
  /\ LET c == Short([Finished(cmd, FALSE, TRUE) EXCEPT !.last = unN + 1])
     IN  IF unN > cmd.last
         THEN /\ SetCommand(rt, Replaced(c), genCom[rt],
                   Cmd("RtCmCleanStop", "UpStepByStep", FALSE, cmd.beginUn, unN - 1), FALSE)
              /\ UNCHANGED queueCmds
         ELSE Becomes(c) /\ UNCHANGED <<unitQ, fault>>

LeftBunker ==
  /\ ToRouteLeft
  /\ Kind[un] = "bunker"
  /\ SetCommand(rt, Replaced(Short(Finished(cmd, FALSE, TRUE))), genCom[rt],
       Cmd("RtCmToRoutForClean", "DownStepByStep", TRUE, cmd.beginUn, unN - 1), TRUE)
  /\ queueCmds' = [queueCmds EXCEPT ![rt] =
       <<Cmd("RtCmCleanStop", "UpStepByStep", FALSE, cmd.beginUn, unN - 1),
         Cmd("RtCmToRoute", "DownStepByStep", TRUE, cmd.beginUn, unN)>>]

-----------------------------------------------------------------------------
(* A unit that the step-by-step command has not passed yet.                *)

Ahead == Scan /\ cmd.type # "Parallel" /\ ~covered(cmd, unN)

ScanFar ==
  /\ Ahead
  /\ unN # next(cmd)
  /\ Becomes(cmd)
  /\ UNCHANGED <<unitQ, fault>>

(* Mutant: the next command is sent before the progress is moved on. *)
NextDone_Stale ==
  /\ Ahead
  /\ unN = next(cmd)
  /\ resp = cmd.name
  /\ LET c == [cmd EXCEPT !.good = TRUE, !.last = unN]
     IN  IF atEnd(c)
         THEN Becomes([c EXCEPT !.finCmd = TRUE]) /\ UNCHANGED <<unitQ, fault>>
         ELSE Becomes(c) /\ Send(rt, next(cmd), c.name)

NextDone ==
  /\ Ahead
  /\ unN = next(cmd)
  /\ resp = cmd.name
  /\ LET c == [cmd EXCEPT !.good = TRUE, !.last = unN]
     IN  IF atEnd(c)
         THEN Becomes([c EXCEPT !.finCmd = TRUE]) /\ UNCHANGED <<unitQ, fault>>
         ELSE Becomes(c) /\ Send(rt, next(c), c.name)

NextFailed ==
  /\ Ahead
  /\ unN = next(cmd)
  /\ resp # cmd.name
  /\ LET c == [cmd EXCEPT !.finCmd = TRUE,
                          !.good = @ /\ cmd.name = "RtCmToRoutForClean"]
     IN  Becomes(IF c.type = "UpStepByStep" THEN [c EXCEPT !.endUn = c.last]
                 ELSE [c EXCEPT !.beginUn = c.last])
  /\ UNCHANGED <<unitQ, fault>>

-----------------------------------------------------------------------------
(* The removal loop asks `command', the last command addressed, whether it *)
(* has finished, not the command it removes.  A freed RouteCmd reads as    *)
(* anything.                                                               *)

finCmdRead == IF command.ix = 0 THEN BOOLEAN
              ELSE {workCmds[command.rt][command.ix].finCmd}

(* Mutant: the index is kept although the elements move. *)
Shifted_Kept(ix, i) == ix

(* Where an index of the list points once element i is removed.            *)
Shifted(ix, i) == CASE ix = i -> 0 [] ix > i -> ix - 1 [] OTHER -> ix

Scanned == informed /\ known /\ pos >= Len(workCmds[rt])

removable == {i \in DOMAIN workCmds[rt] :
                i # genCom[rt] /\ ~workCmds[rt][i].workAftFin}

(* From the last to the first, as long as `command' is not freed on the way. *)
RemoveCommand ==
  /\ Scanned
  /\ TRUE \in finCmdRead
  /\ \E i \in removable :
       /\ command.ix = 0 \/ \A j \in removable : j <= i
       /\ workCmds' = [workCmds EXCEPT ![rt] = RemoveAt(@, i)]
       /\ genCom' = [genCom EXCEPT ![rt] = Shifted(@, i)]
       /\ command' = IF command.rt = rt
                     THEN [command EXCEPT !.ix = Shifted(@, i)] ELSE command
  /\ UNCHANGED <<aside, routeQ, pos, linked, unitQ, queueCmds, fault>>

(* The end: a finished main command with nothing queued frees the route,   *)
(* unless it keeps working; a good one hands over to the next queued.      *)
Ending ==
  /\ Scanned
  /\ removable = {} \/ FALSE \in finCmdRead
  /\ pos' = 0
  /\ routeQ' = Tail(routeQ)
  /\ UNCHANGED aside

gen == workCmds[rt][genCom[rt]]
genFinished == genCom[rt] # 0 /\ gen.finCmd
queued == queueCmds[rt]

released == IF command.rt = rt THEN [command EXCEPT !.ix = 0] ELSE command

RouteDone ==
  /\ Ending
  /\ genFinished /\ queued = <<>> /\ ~gen.workAftFin
  /\ workCmds' = [workCmds EXCEPT ![rt] = <<>>]
  /\ genCom' = [genCom EXCEPT ![rt] = 0]
  /\ command' = released
  /\ DisconnectAllUnit(rt)
  /\ UNCHANGED <<unitQ, queueCmds, fault>>

(* Mutant: the command is looked at and stays in the queue. *)
NextQueued_Kept ==
  /\ Ending
  /\ genFinished /\ queued # <<>> /\ gen.good
  /\ SetCommand(rt, <<>>, 0, Head(queued), TRUE)
  /\ UNCHANGED queueCmds
  /\ command' = released

NextQueued ==
  /\ Ending
  /\ genFinished /\ queued # <<>> /\ gen.good
  /\ SetCommand(rt, <<>>, 0, Head(queued), TRUE)
  /\ queueCmds' = [queueCmds EXCEPT ![rt] = Tail(@)]
  /\ command' = released

StillWorking ==
  /\ Ending
  /\ genFinished => IF queued = <<>> THEN gen.workAftFin ELSE ~gen.good
  /\ UNCHANGED <<linked, unitQ, workCmds, queueCmds, genCom, command, fault>>

-----------------------------------------------------------------------------

InformStep ==
  \/ InformFromStranger
  \/ ScanOther    \/ ScanParallel  \/ ScanKept
  \/ LeftForClean \/ LeftCleanStop \/ LeftSave
  \/ LeftFailed   \/ LeftSilos     \/ LeftBunker
  \/ ScanFar      \/ NextDone      \/ NextFailed
  \/ RemoveCommand
  \/ RouteDone    \/ NextQueued    \/ StillWorking

Operation(r) ==
  \/ Start(r) \/ Stop(r) \/ CleanStop(r) \/ Freeze(r)
  \/ DeleteLastUnit(r) \/ CleanUnitList(r)

RouteThread == InformStep \/ AddUnit \/ \E r \in Routes : Operation(r)

Operator(r) ==
  \/ \E op \in OpNames : Click(r, op)
  \/ \E u \in Units, m \in UnitModes : AddInRoute(r, u, m)

Init ==
  /\ UnitInit
  /\ unitList = InitList
  /\ workCmds = [r \in Routes |-> <<>>]
  /\ queueCmds = [r \in Routes |-> <<>>]
  /\ genCom = [r \in Routes |-> 0]
  /\ allConnected = [r \in Routes |-> FALSE]
  /\ command = [rt |-> NoRoute, ix |-> 0]
  /\ pos = 0
  /\ fault = FALSE
  /\ shown = [r \in Routes |-> [st |-> FALSE, str |-> InitList[r] # <<>>]]
  /\ ops = MaxOps
  /\ lastOp = [r \in Routes |-> "none"]

(* An out of range index is undefined behaviour: nothing is claimed after. *)
Next ==
  /\ ~fault
  /\ \/ UnitThread /\ UNCHANGED routeVars
     \/ UnitPlant /\ UNCHANGED routeVars
     \/ RouteThread
     \/ \E r \in Routes : Operator(r) \/ Show(r)

Spec == Init /\ [][Next]_vars

(* The same with the units of a route taken one by one.                    *)
SplitNext == Next \/ (~fault /\ \E r \in Routes : ConnectNext(r))

SplitSpec == Init /\ [][SplitNext]_vars

=============================================================================
