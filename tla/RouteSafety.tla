----------------------------- MODULE RouteSafety -----------------------------
(***************************************************************************)
(* Proofs of the safety of routes.  The main command of a route is always  *)
(* one of its commands (GenComLive), and no unit is blocked for a route that*)
(* does not need it or is not at work (AtWork, hence NoOrphanedUnit): the  *)
(* conjunction of the two with the types is inductive.                     *)
(*                                                                         *)
(* Then, about routes whose unit lists are not edited while the program    *)
(* runs (adding a unit to the list of a route at work leaves it            *)
(* unconnected): they implement the reservation of units                   *)
(* (Reservation.tla), and they never index their lists out of range        *)
(* (CmdsInRange of RouteProps), whatever the operator clicks when and      *)
(* however units answer.                                                   *)
(***************************************************************************)
EXTENDS RouteProofs

(* A unit is held by a route that has it in its list and is at work. *)
AtWork ==
  \A u \in Units : myRoute[u] # NoRoute =>
    u \in unitsOf(myRoute[u]) /\ working(myRoute[u])

Safe == GenComLive /\ AtWork

IInv == TypeOK /\ Safe

(* Only the holders of units, the command lists, their main commands and   *)
(* the unit lists matter.                                                  *)
LEMMA SafeFrame ==
  ASSUME Safe, UNCHANGED <<myRoute, workCmds, genCom, unitList>>
  PROVE  Safe'
  BY DEF Safe, GenComLive, AtWork, working, unitsOf

(* At the start no route has a command and no unit a route.                *)
LEMMA InitSafe == Init => Safe
<1> SUFFICES ASSUME Init PROVE Safe
  OBVIOUS
<1> QED
  BY DEF Init, UnitInit, Safe, GenComLive, AtWork, working

(* SetCommand keeps the route safe if it is given a main command among the *)
(* commands it is given: connected, its route gets to work; not connected, *)
(* it holds no unit.                                                       *)
LEMMA SetCommandSafe ==
  ASSUME TypeOK, Safe, UNCHANGED unitList,
         NEW r \in Routes, NEW work \in Seq(RouteCmds), NEW g0 \in 0 .. Len(work),
         work # <<>> => g0 # 0,
         NEW c \in RouteCmds, NEW gnrl \in BOOLEAN,
         SetCommand(r, work, g0, c, gnrl)
  PROVE  Safe'
<1> DEFINE rc == Resolved(r, c)
           g == IF work = <<>> THEN 0 ELSE g0
<1>0. /\ workCmds \in [Routes -> Seq(RouteCmds)]
      /\ genCom \in [Routes -> Nat]
      /\ myRoute \in [Units -> Routes \cup {NoRoute}]
      /\ NoRoute \notin Routes
  BY UnitConstants DEF TypeOK, HeldTypes, CommandTypes
<1>1. \A q \in Routes : unitsOf(q)' = unitsOf(q)
  BY DEF unitsOf
<1>2. rc \in RouteCmds
  BY ResolvedType DEF TypeOK
<1>3. CASE allConnected[r] \/ canConnect(r)
  <2> DEFINE w == Append(work, rc)
             h == IF g = 0 \/ gnrl THEN Len(work) + 1 ELSE g
  <2>1. workCmds' = [workCmds EXCEPT ![r] = w] /\ genCom' = [genCom EXCEPT ![r] = h]
    BY <1>3 DEF SetCommand
  <2>2. /\ w # <<>> /\ h # 0
        /\ h \in 0 .. Len(w)
    BY <1>2
  <2>3. \A u \in Units : \/ myRoute'[u] = myRoute[u]
                         \/ myRoute'[u] = r /\ u \in unitsOf(r)
    <3>1. CASE allConnected[r]
      BY <3>1 DEF SetCommand, held
    <3>2. CASE ~allConnected[r]
      BY <1>3, <3>2 DEF SetCommand, _ConnectAllUnits, _ConnectUnit, freeOf, HandOver
    <3> QED
      BY <3>1, <3>2
  <2> HIDE DEF w, h
  <2>4. \A q \in Routes : workCmds'[q] = (IF q = r THEN w ELSE workCmds[q])
    BY <1>0, <2>1
  <2>5. \A q \in Routes : genCom'[q] = (IF q = r THEN h ELSE genCom[q])
    BY <1>0, <2>1
  <2>6. GenComLive'
    BY <2>2, <2>4, <2>5 DEF Safe, GenComLive, working
  <2>7. AtWork'
    BY <1>0, <1>1, <2>2, <2>3, <2>4 DEF Safe, AtWork, working
  <2> QED
    BY <2>6, <2>7 DEF Safe
<1>4. CASE ~(allConnected[r] \/ canConnect(r))
  <2>1. workCmds' = [workCmds EXCEPT ![r] = work] /\ genCom' = [genCom EXCEPT ![r] = g]
    BY <1>4 DEF SetCommand
  <2>2. g \in 0 .. Len(work) /\ (work # <<>> <=> g # 0)
    OBVIOUS
  <2>3. \A u \in Units : myRoute'[u] = IF u \in heldBy(r) THEN NoRoute ELSE myRoute[u]
    BY <1>4 DEF SetCommand, _ConnectAllUnits, Release, HandOver, freeOf
  <2> HIDE DEF g
  <2>4. \A q \in Routes : workCmds'[q] = (IF q = r THEN work ELSE workCmds[q])
    BY <1>0, <2>1
  <2>5. \A q \in Routes : genCom'[q] = (IF q = r THEN g ELSE genCom[q])
    BY <1>0, <2>1
  <2>6. GenComLive'
    BY <2>2, <2>4, <2>5 DEF Safe, GenComLive, working
  <2>7. AtWork'
    BY <1>0, <1>1, <2>3, <2>4 DEF Safe, AtWork, working, heldBy
  <2> QED
    BY <2>6, <2>7 DEF Safe
<1> QED
  BY <1>3, <1>4

(* A route that is given a new command list.                               *)
LEMMA RestartSafe ==
  ASSUME TypeOK, Safe, NEW r \in Routes, NEW c \in RouteCmds,
         NEW gnrl \in BOOLEAN, NEW queue, Restart(r, c, gnrl, queue)
  PROVE  Safe'
<1>1. <<>> \in Seq(RouteCmds) /\ 0 \in 0 .. Len(<<>>)
  OBVIOUS
<1>2. SetCommand(r, <<>>, 0, c, gnrl) /\ UNCHANGED unitList
  BY DEF Restart
<1> QED
  BY <1>1, <1>2, SetCommandSafe

(* The four orders of the operator.                                        *)
LEMMA OrderSafe ==
  ASSUME TypeOK, Safe, NEW r \in Routes,
         Start(r) \/ Stop(r) \/ CleanStop(r) \/ Freeze(r)
  PROVE  Safe'
<1>1. /\ Cmd("RtCmToRoute", "DownStepByStep", TRUE, -1, -1) \in RouteCmds
      /\ Cmd("RtCmStop", "Parallel", FALSE, -1, -1) \in RouteCmds
      /\ Cmd("RtCmToSave", "UpStepByStep", FALSE, -1, -1) \in RouteCmds
      /\ Cmd("RtCmToRoutForClean", "DownStepByStep", TRUE, -1, -1) \in RouteCmds
  BY DEF Cmd, RouteCmds, RouteCommands, CmdTypes
<1> QED
  BY <1>1, RestartSafe DEF Start, Stop, CleanStop, Freeze

(* The list of a route is edited, also while the route is at work.         *)
LEMMA AddUnitSafe ==
  ASSUME TypeOK, Safe, AddUnit
  PROVE  Safe'
<1> DEFINE r == Head(routeQ).rt
           u == Head(routeQ).un
           item == [un |-> u, mode |-> Head(routeQ).arg]
<1>1. unitList' = IF u \in unitsOf(r) THEN unitList
                  ELSE [unitList EXCEPT ![r] = Append(@, item)]
  BY DEF AddUnit
<1>2. unitList \in [Routes -> Seq(ListItems)]
  BY DEF TypeOK, ListTypes
<1> HIDE DEF u, item
<1>3. \A q \in Routes : unitsOf(q) \subseteq unitsOf(q)'
  <2> SUFFICES ASSUME NEW q \in Routes, NEW i \in DOMAIN unitList[q]
               PROVE  i \in DOMAIN unitList'[q] /\ unitList'[q][i].un = unitList[q][i].un
    BY DEF unitsOf
  <2>1. unitList[q] \in Seq(ListItems)
    BY <1>2
  <2> QED
    BY <1>1, <1>2, <2>1
<1>4. UNCHANGED <<myRoute, workCmds, genCom>>
  BY DEF AddUnit, held
<1>5. myRoute \in [Units -> Routes \cup {NoRoute}]
  BY DEF TypeOK, HeldTypes
<1> QED
  BY <1>3, <1>4, <1>5 DEF Safe, GenComLive, AtWork, working

(* Units that leave a list are released.                                   *)
LEMMA ListEditSafe ==
  ASSUME TypeOK, Safe, NEW r \in Routes, DeleteLastUnit(r) \/ CleanUnitList(r)
  PROVE  Safe'
<1>0. /\ unitList \in [Routes -> Seq(ListItems)]
      /\ unitList[r] \in Seq(ListItems)
      /\ myRoute \in [Units -> Routes \cup {NoRoute}]
      /\ NoRoute \notin Routes
  BY UnitConstants DEF TypeOK, ListTypes, HeldTypes
<1>1. UNCHANGED <<workCmds, genCom>>
  BY DEF DeleteLastUnit, CleanUnitList
<1>2. CASE DeleteLastUnit(r) /\ unitList[r] = <<>>
  BY <1>1, <1>2, SafeFrame DEF DeleteLastUnit, held
<1>3. CASE DeleteLastUnit(r) /\ unitList[r] # <<>>
  <2> DEFINE k == Len(unitList[r])
             u == unitList[r][k].un
             rest == SubSeq(unitList[r], 1, k - 1)
  <2>1. unitList' = [unitList EXCEPT ![r] = rest] /\ Release({u} \cap heldBy(r))
    BY <1>3 DEF DeleteLastUnit
  <2>2. \A v \in Units : myRoute'[v] = IF v \in {u} \cap heldBy(r) THEN NoRoute ELSE myRoute[v]
    BY <2>1 DEF Release, HandOver
  <2>3. \A v \in unitsOf(r) : v = u \/ v \in unitsOf(r)'
    <3> SUFFICES ASSUME NEW i \in DOMAIN unitList[r], unitList[r][i].un # u
                 PROVE  i \in DOMAIN rest /\ rest[i] = unitList[r][i]
      BY <1>0, <2>1 DEF unitsOf
    <3> QED
      BY <1>0
  <2>4. \A q \in Routes : q # r => unitsOf(q)' = unitsOf(q)
    BY <1>0, <2>1 DEF unitsOf
  <2> HIDE DEF u, rest
  <2>5. AtWork'
    BY <1>0, <1>1, <2>2, <2>3, <2>4 DEF Safe, AtWork, working, heldBy
  <2> QED
    BY <1>1, <2>5 DEF Safe, GenComLive, working
<1>4. CASE CleanUnitList(r)
  <2>1. unitList' = [unitList EXCEPT ![r] = <<>>] /\ Release(heldBy(r))
    BY <1>4 DEF CleanUnitList, DisconnectAllUnit
  <2>2. \A v \in Units : myRoute'[v] = IF v \in heldBy(r) THEN NoRoute ELSE myRoute[v]
    BY <2>1 DEF Release, HandOver
  <2>3. \A q \in Routes : q # r => unitsOf(q)' = unitsOf(q)
    BY <1>0, <2>1 DEF unitsOf
  <2>4. AtWork'
    BY <1>0, <1>1, <2>2, <2>3 DEF Safe, AtWork, working, heldBy
  <2> QED
    BY <1>1, <2>4 DEF Safe, GenComLive, working
<1> QED
  BY <1>2, <1>3, <1>4

-----------------------------------------------------------------------------
(* InformFromUnit.                                                         *)

(* A route that is scanned has commands, so it has a main command.         *)
LEMMA ScannedWorks ==
  ASSUME TypeOK, Safe, Scanning, NEW c \in RouteCmds
  PROVE  /\ rt \in Routes
         /\ Replaced(c) \in Seq(RouteCmds)
         /\ Replaced(c) # <<>>
         /\ Len(Replaced(c)) = Len(workCmds[rt])
         /\ genCom[rt] \in 0 .. Len(Replaced(c))
         /\ genCom[rt] # 0
         /\ working(rt)
<1>1. /\ rt \in Routes
      /\ Replaced(c) \in Seq(RouteCmds)
      /\ Len(Replaced(c)) = Len(workCmds[rt])
      /\ pos + 1 \in 1 .. Len(workCmds[rt])
  BY UnderScan, ReplacedType
<1>2. workCmds[rt] \in Seq(RouteCmds)
  BY <1>1 DEF TypeOK, CommandTypes
<1>3. working(rt)
  BY <1>1, <1>2 DEF working
<1>4. Replaced(c) # <<>>
  BY <1>1, <1>2
<1>5. genCom[rt] \in 0 .. Len(workCmds[rt]) /\ genCom[rt] # 0
  BY <1>1, <1>3 DEF Safe, GenComLive
<1> QED
  BY <1>1, <1>3, <1>4, <1>5

(* A scan that changes the command only.                                   *)
LEMMA BecomesSafe ==
  ASSUME TypeOK, Safe, Scan, NEW c \in RouteCmds, Becomes(c)
  PROVE  Safe'
<1>1. /\ rt \in Routes /\ Replaced(c) # <<>> /\ working(rt)
      /\ Len(Replaced(c)) = Len(workCmds[rt])
  BY ScanFrame, ScannedWorks
<1>2. /\ workCmds' = [workCmds EXCEPT ![rt] = Replaced(c)]
      /\ UNCHANGED <<myRoute, genCom>>
  BY DEF Becomes, linked, held
<1>3. UNCHANGED unitList
  BY ScanFrame DEF aside
<1>4. workCmds \in [Routes -> Seq(RouteCmds)] /\ myRoute \in [Units -> Routes \cup {NoRoute}]
  BY DEF TypeOK, CommandTypes, HeldTypes
<1>5. \A q \in Routes : workCmds'[q] = (IF q = rt THEN Replaced(c) ELSE workCmds[q])
  BY <1>1, <1>2, <1>4
<1>6. \A q \in Routes : Len(workCmds'[q]) = Len(workCmds[q]) /\ (working(q)' <=> working(q))
  BY <1>1, <1>5 DEF working
<1>7. \A q \in Routes : unitsOf(q)' = unitsOf(q)
  BY <1>3 DEF unitsOf
<1>8. GenComLive'
  BY <1>2, <1>6 DEF Safe, GenComLive
<1>9. AtWork'
  BY <1>2, <1>4, <1>6, <1>7 DEF Safe, AtWork
<1> QED
  BY <1>8, <1>9 DEF Safe

(* A scan that starts another command.                                     *)
LEMMA SpawnSafe ==
  ASSUME TypeOK, Safe, Scan, NEW c \in RouteCmds, NEW d \in RouteCmds, NEW gnrl \in BOOLEAN,
         SetCommand(rt, Replaced(c), genCom[rt], d, gnrl)
  PROVE  Safe'
<1>1. UNCHANGED unitList
  BY ScanFrame DEF aside
<1> QED
  BY <1>1, ScanFrame, ScannedWorks, SetCommandSafe

(* The scan of a command.                                                  *)
LEMMA ScanSafe ==
  ASSUME TypeOK, Safe,
         \/ ScanOther    \/ ScanParallel  \/ ScanKept  \/ ScanFar
         \/ NextDone     \/ NextFailed    \/ LeftSave  \/ LeftCleanStop
  PROVE  Safe'
<1>1. CASE ScanOther
  BY <1>1, SafeFrame DEF ScanOther, Scanning, aside, linked, held
<1>2. ASSUME Scan
      PROVE  rt \in Routes /\ cmd \in RouteCmds /\ unN \in Int
  BY <1>2, ScanFrame, UnderScan
<1>3. CASE ScanParallel
  <2> DEFINE seen == IF cmd.respCount <= count(cmd) THEN cmd.respCount + 1
                     ELSE cmd.respCount
             c == [cmd EXCEPT !.respCount = seen, !.last = unN,
                              !.good = @ /\ resp = cmd.name,
                              !.finCmd = @ \/ seen = count(cmd)]
  <2>1. Scan /\ Becomes(c)
    BY <1>3 DEF ScanParallel
  <2>2. seen \in Nat
    BY <1>2, <2>1 DEF RouteCmds, count
  <2>3. c \in RouteCmds
    <3> HIDE DEF seen
    <3> QED
      BY <1>2, <2>1, <2>2 DEF RouteCmds
  <2> HIDE DEF c
  <2> QED
    BY <2>1, <2>3, BecomesSafe
<1>4. CASE ScanKept
  BY <1>2, <1>4, BecomesSafe DEF ScanKept, Covered
<1>5. CASE ScanFar
  BY <1>2, <1>5, BecomesSafe DEF ScanFar, Ahead
<1>6. CASE NextDone
  <2> DEFINE c == [cmd EXCEPT !.good = TRUE, !.last = unN]
             f == [c EXCEPT !.finCmd = TRUE]
  <2>1. Scan /\ (Becomes(f) \/ Becomes(c))
    BY <1>6 DEF NextDone, Ahead
  <2>2. c \in RouteCmds
    BY <1>2, <2>1, GoodLastType
  <2> HIDE DEF c
  <2>3. f \in RouteCmds
    BY <2>2 DEF RouteCmds
  <2> HIDE DEF f
  <2> QED
    BY <2>1, <2>2, <2>3, BecomesSafe
<1>7. CASE NextFailed
  <2> DEFINE c == [cmd EXCEPT !.finCmd = TRUE,
                              !.good = @ /\ cmd.name = "RtCmToRoutForClean"]
             d == IF c.type = "UpStepByStep" THEN [c EXCEPT !.endUn = c.last]
                  ELSE [c EXCEPT !.beginUn = c.last]
  <2>1. Scan /\ Becomes(d)
    BY <1>7 DEF NextFailed, Ahead
  <2>2. c \in RouteCmds
    BY <1>2, <2>1 DEF RouteCmds
  <2> HIDE DEF c
  <2>3. d \in RouteCmds
    BY <2>2 DEF RouteCmds
  <2> HIDE DEF d
  <2> QED
    BY <2>1, <2>3, BecomesSafe
<1>8. CASE LeftSave
  <2>1. Scan /\ Becomes(Short(cmd))
    BY <1>8 DEF LeftSave, Left, Covered
  <2> QED
    BY <1>2, <2>1, ShortType, BecomesSafe
<1>9. CASE LeftCleanStop
  <2>1. Scan /\ Becomes(Short(Finished(cmd, TRUE, cmd.good)))
    BY <1>9 DEF LeftCleanStop, Left, Covered
  <2>2. Finished(cmd, TRUE, cmd.good) \in RouteCmds
    BY <1>2, <2>1, FinishedType DEF RouteCmds
  <2> QED
    BY <2>1, <2>2, ShortType, BecomesSafe
<1> QED
  BY <1>1, <1>3, <1>4, <1>5, <1>6, <1>7, <1>8, <1>9

(* A command started from within the handler: the spawned command joins    *)
(* those that are scanned, or becomes the main one.                        *)
LEMMA LeftSafe ==
  ASSUME TypeOK, Safe,
         \/ LeftForClean \/ LeftFailed \/ LeftSilos \/ LeftBunker
  PROVE  Safe'
<1>1. Scan
  BY DEF LeftForClean, LeftFailed, LeftSilos, LeftBunker, ToRouteLeft, Left, Covered
<1>2. rt \in Routes /\ cmd \in RouteCmds /\ unN \in Int
  BY <1>1, ScanFrame, UnderScan
<1>3. cmd.beginUn \in Int /\ cmd.last \in Int /\ unN - 1 \in Int /\ unN + 1 \in Int
      /\ cmd.last + 1 \in Int /\ cmd.good \in BOOLEAN
  BY <1>2 DEF RouteCmds
<1>4. ASSUME NEW c \in RouteCmds, NEW d \in RouteCmds, NEW gnrl \in BOOLEAN,
             Becomes(c) \/ SetCommand(rt, Replaced(c), genCom[rt], d, gnrl)
      PROVE  Safe'
  BY <1>1, <1>4, BecomesSafe, SpawnSafe
<1>5. CASE LeftForClean
  <2> DEFINE stops == unN # cmd.last
             l == IF stops THEN unN + 1 ELSE cmd.last + 1
             c == [cmd EXCEPT !.good = @ /\ ~stops, !.last = l]
             d == Cmd("RtCmStopOnRouteAlarm", "Parallel", FALSE, cmd.last, unN - 1)
  <2>1. c \in RouteCmds
    <3>1. (cmd.good /\ ~stops) \in BOOLEAN /\ l \in Int
      BY <1>3
    <3> HIDE DEF stops, l
    <3> QED
      BY <1>2, <3>1 DEF RouteCmds
  <2>2. d \in RouteCmds
    BY <1>3 DEF Cmd, RouteCmds, RouteCommands, CmdTypes
  <2>3. \/ SetCommand(rt, Replaced(Short(c)), genCom[rt], d, FALSE)
        \/ Becomes(Short(c))
    BY <1>5 DEF LeftForClean
  <2> HIDE DEF c, d
  <2> QED
    BY <1>4, <2>1, <2>2, <2>3, ShortType
<1>6. ASSUME NEW waf \in BOOLEAN, NEW good \in BOOLEAN
      PROVE  Short([Finished(cmd, waf, good) EXCEPT !.last = unN + 1]) \in RouteCmds
  <2> DEFINE f == Finished(cmd, waf, good)
  <2>1. f \in RouteCmds
    BY <1>2, FinishedType
  <2> HIDE DEF f
  <2>2. [f EXCEPT !.last = unN + 1] \in RouteCmds
    BY <1>3, <2>1, LastType
  <2> QED
    BY <2>2, ShortType DEF f
<1>7. CASE LeftFailed
  <2> DEFINE c == Short([Finished(cmd, TRUE, FALSE) EXCEPT !.last = unN + 1])
             d == Cmd("RtCmStopOnRouteAlarm", "Parallel", TRUE, cmd.beginUn, unN - 1)
  <2>0. c \in RouteCmds
    BY <1>6
  <2>1. d \in RouteCmds
    BY <1>3 DEF Cmd, RouteCmds, RouteCommands, CmdTypes
  <2>2. SetCommand(rt, Replaced(c), genCom[rt], d, FALSE) \/ Becomes(c)
    BY <1>7 DEF LeftFailed
  <2> HIDE DEF c, d
  <2> QED
    BY <1>4, <2>0, <2>1, <2>2
<1>8. CASE LeftSilos
  <2> DEFINE c == Short([Finished(cmd, FALSE, TRUE) EXCEPT !.last = unN + 1])
             d == Cmd("RtCmCleanStop", "UpStepByStep", FALSE, cmd.beginUn, unN - 1)
  <2>0. c \in RouteCmds
    BY <1>6
  <2>1. d \in RouteCmds
    BY <1>3 DEF Cmd, RouteCmds, RouteCommands, CmdTypes
  <2>2. SetCommand(rt, Replaced(c), genCom[rt], d, FALSE) \/ Becomes(c)
    BY <1>8 DEF LeftSilos
  <2> HIDE DEF c, d
  <2> QED
    BY <1>4, <2>0, <2>1, <2>2
<1>9. CASE LeftBunker
  <2> DEFINE c == Short(Finished(cmd, FALSE, TRUE))
             d == Cmd("RtCmToRoutForClean", "DownStepByStep", TRUE, cmd.beginUn, unN - 1)
  <2>1. c \in RouteCmds
    BY <1>2, FinishedType, ShortType
  <2>2. d \in RouteCmds
    BY <1>3 DEF Cmd, RouteCmds, RouteCommands, CmdTypes
  <2>3. SetCommand(rt, Replaced(c), genCom[rt], d, TRUE)
    BY <1>9 DEF LeftBunker
  <2> HIDE DEF c, d
  <2> QED
    BY <1>4, <2>1, <2>2, <2>3
<1> QED
  BY <1>5, <1>7, <1>8, <1>9

(* The removal loop spares the main command and moves its index with the   *)
(* list; the end of a run frees all units, the next queued command starts  *)
(* a new list.                                                             *)
LEMMA EndingSafe ==
  ASSUME TypeOK, Safe,
         \/ InformFromStranger \/ RemoveCommand
         \/ RouteDone \/ NextQueued \/ StillWorking
  PROVE  Safe'
<1>0. /\ workCmds \in [Routes -> Seq(RouteCmds)]
      /\ queueCmds \in [Routes -> Seq(RouteCmds)]
      /\ genCom \in [Routes -> Nat]
      /\ myRoute \in [Units -> Routes \cup {NoRoute}]
      /\ NoRoute \notin Routes
  BY UnitConstants DEF TypeOK, CommandTypes, HeldTypes
<1>1. informed /\ UNCHANGED unitList
  BY DEF InformFromStranger, RemoveCommand, RouteDone, NextQueued, StillWorking,
         Ending, Scanned, aside
<1>2. rt \in Routes
  BY <1>1, InHand
<1>3. \A q \in Routes : unitsOf(q)' = unitsOf(q)
  BY <1>1 DEF unitsOf
<1>4. CASE InformFromStranger
  BY <1>4, SafeFrame DEF InformFromStranger, aside, linked, held
<1>5. CASE StillWorking
  BY <1>1, <1>5, SafeFrame DEF StillWorking, linked, held
<1>6. CASE RemoveCommand
  <2> PICK i \in removable :
        /\ workCmds' = [workCmds EXCEPT ![rt] = RemoveAt(@, i)]
        /\ genCom' = [genCom EXCEPT ![rt] = Shifted(@, i)]
    BY <1>6 DEF RemoveCommand
  <2> DEFINE w == workCmds[rt]
             g == genCom[rt]
  <2>1. i \in DOMAIN w /\ i \in Nat \ {0} /\ i # g /\ w \in Seq(RouteCmds) /\ i <= Len(w)
    BY <1>0, <1>2 DEF removable
  <2>2. working(rt)
    BY <2>1 DEF working
  <2>3. g \in 0 .. Len(w) /\ g # 0
    BY <1>2, <2>2 DEF Safe, GenComLive
  <2>4. RemoveAt(w, i) \in Seq(RouteCmds) /\ Len(RemoveAt(w, i)) = Len(w) - 1
    BY <2>1, Removal
  <2>5. Shifted(g, i) = IF g < i THEN g ELSE g - 1
    <3>1. g \in Nat /\ (g < i \/ g > i)
      BY <2>1, <2>3
    <3> HIDE DEF w, g
    <3>2. CASE g < i
      BY <2>1, <3>1, <3>2, ShiftedType
    <3>3. CASE g > i
      BY <2>1, <3>1, <3>3, ShiftedType
    <3> QED
      BY <3>1, <3>2, <3>3
  <2>6. Shifted(g, i) \in 1 .. Len(w) - 1
    BY <2>1, <2>3, <2>5
  <2>7. RemoveAt(w, i) # <<>>
    BY <2>4, <2>6
  <2> HIDE DEF w, g
  <2>8. \A q \in Routes : workCmds'[q] = (IF q = rt THEN RemoveAt(w, i) ELSE workCmds[q])
    BY <1>0, <1>2 DEF w
  <2>9. \A q \in Routes : genCom'[q] = (IF q = rt THEN Shifted(g, i) ELSE genCom[q])
    BY <1>0, <1>2 DEF g
  <2>10. GenComLive'
    BY <2>4, <2>6, <2>7, <2>8, <2>9 DEF Safe, GenComLive, working
  <2>11. UNCHANGED myRoute
    BY <1>6 DEF RemoveCommand, linked, held
  <2>12. AtWork'
    BY <1>0, <1>3, <2>7, <2>8, <2>11 DEF Safe, AtWork, working
  <2> QED
    BY <2>10, <2>12 DEF Safe
<1>7. CASE RouteDone
  <2>1. /\ workCmds' = [workCmds EXCEPT ![rt] = <<>>]
        /\ genCom' = [genCom EXCEPT ![rt] = 0]
        /\ Release(heldBy(rt))
    BY <1>7 DEF RouteDone, DisconnectAllUnit
  <2>2. \A u \in Units : myRoute'[u] = IF u \in heldBy(rt) THEN NoRoute ELSE myRoute[u]
    BY <2>1 DEF Release, HandOver
  <2>3. \A q \in Routes : workCmds'[q] = (IF q = rt THEN <<>> ELSE workCmds[q])
    BY <1>0, <1>2, <2>1
  <2>4. \A q \in Routes : genCom'[q] = (IF q = rt THEN 0 ELSE genCom[q])
    BY <1>0, <1>2, <2>1
  <2>5. GenComLive'
    BY <2>3, <2>4 DEF Safe, GenComLive, working
  <2>6. AtWork'
    BY <1>0, <1>3, <2>2, <2>3 DEF Safe, AtWork, working, heldBy
  <2> QED
    BY <2>5, <2>6 DEF Safe
<1>8. CASE NextQueued
  <2>1. /\ queued # <<>>
        /\ SetCommand(rt, <<>>, 0, Head(queued), TRUE)
    BY <1>8 DEF NextQueued
  <2>2. queued \in Seq(RouteCmds)
    BY <1>0, <1>2 DEF queued
  <2>3. Head(queued) \in RouteCmds
    BY <2>1, <2>2
  <2>4. <<>> \in Seq(RouteCmds) /\ 0 \in 0 .. Len(<<>>)
    OBVIOUS
  <2> QED
    BY <1>1, <1>2, <2>1, <2>3, <2>4, SetCommandSafe
<1> QED
  BY <1>4, <1>5, <1>6, <1>7, <1>8

-----------------------------------------------------------------------------

(* Every step keeps routes safe.                                           *)
LEMMA NextSafe == IInv /\ [Next]_vars => Safe'
<1> SUFFICES ASSUME TypeOK, Safe, [Next]_vars PROVE Safe'
  BY DEF IInv
<1>1. ASSUME UNCHANGED routeVars, UNCHANGED held PROVE Safe'
  BY <1>1, SafeFrame DEF routeVars, held
<1>2. CASE UNCHANGED vars
  BY <1>2, SafeFrame DEF vars, unitVars, routeVars
<1>3. CASE UnitThread /\ UNCHANGED routeVars
  BY <1>1, <1>3 DEF UnitThread, commandFromRoute, Observe
<1>4. CASE UnitPlant /\ UNCHANGED routeVars
  <2>1. UNCHANGED held
    BY <1>4 DEF UnitPlant, Contactor, LevelChange, Rescan, Bounce, detectAlarm, resetAlarm,
                UserSetMode
  <2> QED
    BY <1>1, <1>4, <2>1
<1>5. CASE RouteThread
  <2>1. CASE InformStep
    BY <2>1, ScanSafe, LeftSafe, EndingSafe DEF InformStep
  <2>2. CASE AddUnit
    BY <2>2, AddUnitSafe
  <2>3. CASE \E r \in Routes : Operation(r)
    BY <2>3, OrderSafe, ListEditSafe DEF Operation
  <2> QED
    BY <1>5, <2>1, <2>2, <2>3 DEF RouteThread
<1>6. CASE \E r \in Routes : Operator(r) \/ Show(r)
  <2>1. UNCHANGED <<myRoute, workCmds, genCom, unitList>>
    BY <1>6 DEF Operator, Click, AddInRoute, Show, held, unitVars
  <2> QED
    BY <2>1, SafeFrame
<1> QED
  BY <1>2, <1>3, <1>4, <1>5, <1>6 DEF Next

(* The inductive invariant.                                                *)
LEMMA Inductive == Spec => []IInv
<1>1. Init => IInv
  BY InitTypes, InitSafe DEF IInv
<1>2. IInv /\ [Next]_vars => IInv'
  BY NextTypes, NextSafe DEF IInv
<1> QED
  BY <1>1, <1>2, PTL DEF Spec

(* The main command of a route is one of its commands, whatever the        *)
(* number of units, routes and orders: _genCom never dangles.              *)
THEOREM MainCommandLive == Spec => []GenComLive
<1>1. IInv => GenComLive
  BY DEF IInv, Safe
<1> QED
  BY <1>1, Inductive, PTL

(* A unit is blocked only for a route that has it in its list and is at    *)
(* work, also when lists are edited during a run.                          *)
THEOREM NoUnitOrphaned == Spec => []NoOrphanedUnit
<1>1. IInv => NoOrphanedUnit
  BY DEF IInv, Safe, AtWork, NoOrphanedUnit
<1> QED
  BY <1>1, Inductive, PTL
-----------------------------------------------------------------------------
(* Alarms.                                                                 *)

(* The routes thread and the operator's window write no output and leave   *)
(* the alarms alone.                                                       *)
LEMMA PlantFrame ==
  ASSUME RouteThread \/ \E r \in Routes : Operator(r) \/ Show(r)
  PROVE  UNCHANGED <<alarm, unheard, out>>
<1>1. CASE InformStep
  <2>1. UNCHANGED aside
    BY <1>1 DEF InformStep, InformFromStranger, ScanOther, ScanParallel, ScanKept, ScanFar,
       NextDone, NextFailed, LeftSave, LeftCleanStop, LeftForClean, LeftFailed, LeftSilos,
       LeftBunker, ToRouteLeft, Left, Covered, Ahead, Scan, Scanning,
       RemoveCommand, RouteDone, NextQueued, StillWorking, Ending
  <2> QED
    BY <2>1 DEF aside, others
<1>2. CASE AddUnit
  BY <1>2 DEF AddUnit, others
<1>3. CASE \E r \in Routes : Operation(r)
  BY <1>3 DEF Operation, Start, Stop, CleanStop, Freeze, DeleteLastUnit, CleanUnitList,
              Handle, others
<1>4. CASE \E r \in Routes : Operator(r) \/ Show(r)
  BY <1>4 DEF Operator, Click, AddInRoute, Show, unitVars, others
<1> QED
  BY <1>1, <1>2, <1>3, <1>4 DEF RouteThread

(* Whatever mode an engine in alarm is given, its output stays off.        *)
LEMMA AlarmWrite ==
  ASSUME TypeOK, NoStartInAlarm, NEW u \in Units, NEW m, Write(u, outAfter(u, m)),
         UNCHANGED <<alarm, unheard>>
  PROVE  NoStartInAlarm'
<1>1. out \in [Units -> BOOLEAN] /\ out' = [out EXCEPT ![u] = outAfter(u, m)]
  BY DEF Write, TypeOK, PlantTypes
<1>2. Kind[u] = "engine" /\ alarm[u] /\ ~unheard[u] => ~outAfter(u, m)
  BY DEF outAfter, canStart, hasEngine, NoStartInAlarm
<1> QED
  BY <1>1, <1>2 DEF NoStartInAlarm

(* Every step keeps the outputs of engines whose alarm was told off.       *)
LEMMA AlarmNext == IInv /\ NoStartInAlarm /\ [Next]_vars => NoStartInAlarm'
<1> SUFFICES ASSUME TypeOK, NoStartInAlarm, [Next]_vars PROVE NoStartInAlarm'
  BY DEF IInv
<1>1. ASSUME UNCHANGED <<alarm, unheard, out>> PROVE NoStartInAlarm'
  BY <1>1 DEF NoStartInAlarm
<1>2. CASE UNCHANGED vars
  BY <1>1, <1>2 DEF vars, unitVars
<1>3. CASE commandFromRoute
  <2>1. UNCHANGED <<alarm, unheard>>
    BY <1>3 DEF commandFromRoute, plant
  <2> DEFINE u == Head(unitQ).un
             c == Head(unitQ).cmd
  <2>2. Ignore \/ RepeatCommand(u, c) \/ AcceptCommand(u, c)
    BY <1>3 DEF commandFromRoute
  <2>3. u \in Units
    <3>1. unitQ \in Seq(UnitCommands) /\ unitQ # <<>>
      BY <1>3 DEF commandFromRoute, TypeOK, QueueTypes
    <3>2. Head(unitQ) \in UnitCommands
      BY <3>1
    <3> QED
      BY <3>2 DEF UnitCommands
  <2> HIDE DEF u, c
  <2> QED
    BY <1>1, <2>1, <2>2, <2>3, AlarmWrite DEF Ignore, RepeatCommand, AcceptCommand
<1>4. ASSUME NEW u \in Units, Observe(u) PROVE NoStartInAlarm'
  BY <1>1, <1>4 DEF Observe, plant
<1>5. CASE UnitPlant
  <2> PICK u \in Units : \/ Contactor(u)   \/ LevelChange(u) \/ Rescan(u)
                         \/ Bounce(u)      \/ detectAlarm(u) \/ resetAlarm(u)
                         \/ UserSetMode(u, "UnMdStart") \/ UserSetMode(u, "UnMdStop")
    BY <1>5 DEF UnitPlant
  <2>1. CASE Contactor(u) \/ LevelChange(u) \/ Rescan(u) \/ Bounce(u)
    BY <1>1, <2>1 DEF Contactor, LevelChange, Rescan, Bounce
  <2>2. CASE detectAlarm(u)
    <3>1. /\ alarm' = [alarm EXCEPT ![u] = TRUE] /\ alarm \in [Units -> BOOLEAN]
          /\ unheard' = [unheard EXCEPT ![u] = FALSE] /\ unheard \in [Units -> BOOLEAN]
      BY <2>2 DEF detectAlarm, TypeOK, PlantTypes
    <3>2. out \in [Units -> BOOLEAN]
      BY DEF TypeOK, PlantTypes
    <3>3. CASE Kind[u] = "noria"
      <4>1. out' = [out EXCEPT ![u] = FALSE] \/ out' = out
        BY <2>2, <3>3 DEF detectAlarm, Write, outAfter, hasEngine
      <4> QED
        BY <3>1, <3>2, <3>3, <4>1 DEF NoStartInAlarm
    <3>4. CASE Kind[u] # "noria"
      <4>1. out' = [out EXCEPT ![u] = outAfter(u, "UnMdStop")]
        BY <2>2, <3>4 DEF detectAlarm, Write
      <4>2. Kind[u] = "engine" => ~outAfter(u, "UnMdStop")
        BY DEF outAfter, hasEngine
      <4> QED
        BY <3>1, <3>2, <4>1, <4>2 DEF NoStartInAlarm
    <3> QED
      BY <3>3, <3>4
  <2>3. CASE resetAlarm(u)
    BY <2>3 DEF resetAlarm, NoStartInAlarm, TypeOK, PlantTypes
  <2>4. ASSUME NEW m, UserSetMode(u, m) PROVE NoStartInAlarm'
    BY <2>4, AlarmWrite DEF UserSetMode
  <2> QED
    BY <2>1, <2>2, <2>3, <2>4
<1>6. CASE RouteThread \/ \E r \in Routes : Operator(r) \/ Show(r)
  BY <1>1, <1>6, PlantFrame
<1> QED
  BY <1>2, <1>3, <1>4, <1>5, <1>6 DEF Next, UnitThread

(* No order, from a route or from the operator, and no command that was    *)
(* queued before the alarm switches an engine on whose alarm was told;     *)
(* resets that are refused, and alarms on top of them, included.           *)
THEOREM AlarmKeepsOff == Spec => []NoStartInAlarm
<1>1. Init => NoStartInAlarm
  BY DEF Init, UnitInit, NoStartInAlarm
<1> QED
  BY <1>1, Inductive, AlarmNext, PTL DEF Spec

-----------------------------------------------------------------------------
(* Lists that are fixed.                                                   *)

(* The operator edits no list.                                             *)
FixedLists == Ops \cap {"AddUnit", "DeleteLastUnit", "CleanUnitList"} = {}

FixedEvents == {e \in Events : e.ev # "Add" /\ (e.ev = "Op" => e.arg \in Ops)}

NoEdits == routeQ \in Seq(FixedEvents) /\ unitList = InitList

(* The flag _allUnitsConnected tells the truth, and a route at work has it *)
(* set.                                                                    *)
Owned ==
  \A r \in Routes : /\ working(r) => allConnected[r]
                    /\ allConnected[r] => \A u \in unitsOf(r) : myRoute[u] = r

-----------------------------------------------------------------------------
(* Lists that nobody edits.                                                *)

(* An answer is no edit of a list.                                         *)
LEMMA InformFixed ==
  ASSUME TypeOK, NEW u \in Units, NEW c \in RouteCommands
  PROVE  informToRoute(u, c) \in Seq(FixedEvents)
<1>1. CASE myRoute[u] = NoRoute
  BY <1>1 DEF informToRoute
<1>2. CASE myRoute[u] # NoRoute
  <2>1. [ev |-> "Inform", rt |-> myRoute[u], un |-> u, arg |-> c] \in FixedEvents
    BY <1>2 DEF TypeOK, HeldTypes, Events, FixedEvents
  <2> QED
    BY <1>2, <2>1 DEF informToRoute
<1> QED
  BY <1>1, <1>2

(* The units thread only adds answers to the queue of the routes thread.   *)
LEMMA UnitsFixed ==
  ASSUME TypeOK, NoEdits, UnitThread \/ UnitPlant
  PROVE  routeQ' \in Seq(FixedEvents)
<1>0. /\ routeQ \in Seq(FixedEvents) /\ unitQ \in Seq(UnitCommands)
      /\ routeCommand \in [Units -> RouteCommands] /\ "RtCmNo" \in RouteCommands
  BY DEF NoEdits, TypeOK, QueueTypes, HeldTypes, RouteCommands
<1>1. ASSUME NEW u \in Units, NEW c \in RouteCommands
      PROVE  routeQ \o informToRoute(u, c) \in Seq(FixedEvents)
  BY <1>0, InformFixed
<1>2. CASE commandFromRoute
  <2> DEFINE u == Head(unitQ).un
             c == Head(unitQ).cmd
  <2>1. u \in Units /\ c \in RouteCommands
    <3>1. unitQ # <<>>
      BY <1>2 DEF commandFromRoute
    <3>2. Head(unitQ) \in UnitCommands
      BY <1>0, <3>1
    <3> QED
      BY <3>2 DEF UnitCommands
  <2>2. Ignore \/ RepeatCommand(u, c) \/ AcceptCommand(u, c)
    BY <1>2 DEF commandFromRoute
  <2> HIDE DEF u, c
  <2>3. \/ routeQ' = routeQ \/ routeQ' = routeQ \o informToRoute(u, c)
        \/ routeQ' = routeQ \o informToRoute(u, "RtCmNo")
    BY <2>2 DEF Ignore, RepeatCommand, AcceptCommand
  <2> QED
    BY <1>0, <1>1, <2>1, <2>3
<1>3. ASSUME NEW u \in Units, Observe(u) PROVE routeQ' \in Seq(FixedEvents)
  <2>1. \/ routeQ' = routeQ \/ routeQ' = routeQ \o informToRoute(u, routeCommand[u])
        \/ routeQ' = routeQ \o informToRoute(u, "RtCmNo")
    BY <1>3 DEF Observe, setCurrentMode
  <2> QED
    BY <1>0, <1>1, <2>1
<1>4. CASE UnitPlant
  <2> PICK u \in Units : \/ Contactor(u)   \/ LevelChange(u) \/ Rescan(u)
                         \/ Bounce(u)      \/ detectAlarm(u) \/ resetAlarm(u)
                         \/ UserSetMode(u, "UnMdStart") \/ UserSetMode(u, "UnMdStop")
    BY <1>4 DEF UnitPlant
  <2>1. routeQ' = routeQ \/ routeQ' = routeQ \o informToRoute(u, "RtCmNo")
    BY DEF Contactor, LevelChange, Rescan, Bounce, detectAlarm, resetAlarm, UserSetMode
  <2> QED
    BY <1>0, <1>1, <2>1
<1> QED
  BY <1>2, <1>3, <1>4 DEF UnitThread

(* Of the handlers of the routes thread, those that edit a list have no    *)
(* event to handle.                                                        *)
LEMMA HandlersFixed ==
  ASSUME TypeOK, NoEdits, FixedLists, RouteThread
  PROVE  /\ NoEdits'
         /\ InformStep \/ \E r \in Routes : Start(r) \/ Stop(r) \/ CleanStop(r) \/ Freeze(r)
<1>0. ASSUME routeQ # <<>>
      PROVE  Head(routeQ) \in FixedEvents /\ Tail(routeQ) \in Seq(FixedEvents)
  BY <1>0 DEF NoEdits
<1>1. ASSUME InformStep PROVE NoEdits'
  <2>1. UNCHANGED aside /\ (routeQ' = routeQ \/ (routeQ # <<>> /\ routeQ' = Tail(routeQ)))
    BY <1>1 DEF InformStep, InformFromStranger, ScanOther, ScanParallel, ScanKept, ScanFar,
       NextDone, NextFailed, LeftSave, LeftCleanStop, LeftForClean, LeftFailed, LeftSilos,
       LeftBunker, ToRouteLeft, Left, Covered, Ahead, Scan, Scanning,
       RemoveCommand, RouteDone, NextQueued, StillWorking, Ending, Scanned, informed
  <2> QED
    BY <1>0, <2>1 DEF NoEdits, aside
<1>2. ASSUME AddUnit PROVE FALSE
  BY <1>0, <1>2 DEF AddUnit, Take, FixedEvents
<1>3. ASSUME NEW r \in Routes, DeleteLastUnit(r) \/ CleanUnitList(r) PROVE FALSE
  <2>1. Handle(r, "DeleteLastUnit") \/ Handle(r, "CleanUnitList")
    BY <1>3 DEF DeleteLastUnit, CleanUnitList
  <2> QED
    BY <1>0, <2>1 DEF Handle, Take, FixedEvents, FixedLists
<1>4. ASSUME NEW r \in Routes, Start(r) \/ Stop(r) \/ CleanStop(r) \/ Freeze(r)
      PROVE  NoEdits'
  <2>1. routeQ # <<>> /\ routeQ' = Tail(routeQ)
    BY <1>4 DEF Start, Stop, CleanStop, Freeze, Handle, Take
  <2>2. UNCHANGED unitList
    BY <1>4 DEF Start, Stop, CleanStop, Freeze, Restart
  <2> QED
    BY <1>0, <2>1, <2>2 DEF NoEdits
<1> QED
  BY <1>1, <1>2, <1>3, <1>4 DEF RouteThread, Operation

(* The operator queues no edit.                                            *)
LEMMA OperatorFixed ==
  ASSUME TypeOK, NoEdits, FixedLists, NEW r \in Routes, Operator(r) \/ Show(r)
  PROVE  NoEdits'
<1>1. ASSUME NEW op \in OpNames, Click(r, op) PROVE NoEdits'
  <2>1. [ev |-> "Op", rt |-> r, un |-> NoUnit, arg |-> op] \in FixedEvents
    BY <1>1 DEF Click, Events, FixedEvents
  <2> QED
    BY <1>1, <2>1 DEF Click, NoEdits
<1>2. ASSUME NEW u, NEW m, AddInRoute(r, u, m) PROVE FALSE
  BY <1>2 DEF AddInRoute, FixedLists
<1>3. CASE Show(r)
  BY <1>3 DEF Show, NoEdits, unitVars
<1> QED
  BY <1>1, <1>2, <1>3 DEF Operator

(* So no edit is ever queued and the lists stay as loaded.                 *)
LEMMA FixedNext == ASSUME FixedLists PROVE IInv /\ NoEdits /\ [Next]_vars => NoEdits'
<1> SUFFICES ASSUME TypeOK, NoEdits, [Next]_vars PROVE NoEdits'
  BY DEF IInv
<1>1. CASE UNCHANGED vars
  BY <1>1 DEF vars, unitVars, routeVars, NoEdits
<1>2. CASE (UnitThread \/ UnitPlant) /\ UNCHANGED routeVars
  BY <1>2, UnitsFixed DEF NoEdits, routeVars
<1> QED
  BY <1>1, <1>2, HandlersFixed, OperatorFixed DEF Next

-----------------------------------------------------------------------------
(* The steps of the reservation.                                           *)

busyRoutes == [r \in Routes |-> workCmds[r] # <<>>]

(* The reservation with the units that are blocked in place of those that  *)
(* a route works with: the same, as no step leaves a unit blocked for a    *)
(* route that is not at work.                                              *)
Plain == INSTANCE Reservation WITH
  Needs <- [r \in Routes |-> {InitList[r][i].un : i \in DOMAIN InitList[r]}],
  owner <- myRoute,
  busy  <- busyRoutes

(* A step that keeps units, flags and lists as they are, and no route from *)
(* or at work, changes nothing of the reservation.                         *)
Quiet == /\ UNCHANGED <<myRoute, allConnected, unitList>>
         /\ \A r \in Routes : working(r)' <=> working(r)

(* A quiet step is a stutter of the reservation.                           *)
LEMMA QuietReserves ==
  ASSUME TypeOK, Owned, Quiet
  PROVE  Owned' /\ UNCHANGED <<myRoute, busyRoutes>>
<1>1. Owned'
  BY DEF Quiet, Owned, unitsOf
<1>2. UNCHANGED busyRoutes
  BY DEF Quiet, busyRoutes, working
<1> QED
  BY <1>1, <1>2 DEF Quiet

(* A list with one more command is not empty.                              *)
LEMMA AppendNonEmpty == ASSUME NEW S, NEW s \in Seq(S), NEW x PROVE Append(s, x) # <<>>
<1>1. s \in Seq(S \cup {x})
  OBVIOUS
<1>2. Append(s, x) \in Seq(S \cup {x}) /\ Len(Append(s, x)) = Len(s) + 1
  BY <1>1
<1> QED
  BY <1>2

(* Taking exactly the units of a route that are all free is Take.          *)
LEMMA TakesUnits ==
  ASSUME unitList = InitList, NEW r \in Routes,
         \A u \in unitsOf(r) : myRoute[u] = NoRoute,
         myRoute' = [u \in Units |-> IF u \in unitsOf(r) THEN r ELSE myRoute[u]],
         ~busyRoutes[r],
         busyRoutes' = [busyRoutes EXCEPT ![r] = TRUE]
  PROVE  Plain!Take(r)
  BY DEF Plain!Take, Plain!Free, busyRoutes, unitsOf

(* SetCommand takes the units of the route, or finds them its own, or      *)
(* leaves the route idle without any.                                      *)
LEMMA SetCommandReserves ==
  ASSUME TypeOK, Safe, Owned, unitList = InitList, UNCHANGED unitList,
         NEW r \in Routes, NEW S, NEW work \in Seq(S), work # <<>> => working(r),
         NEW g0, NEW c, NEW gnrl, SetCommand(r, work, g0, c, gnrl)
  PROVE  Owned' /\ (Plain!Take(r) \/ UNCHANGED <<myRoute, busyRoutes>>)
<1>0. /\ workCmds \in [Routes -> Seq(RouteCmds)]
      /\ allConnected \in [Routes -> BOOLEAN]
      /\ myRoute \in [Units -> Routes \cup {NoRoute}]
      /\ NoRoute \notin Routes
  BY UnitConstants DEF TypeOK, HeldTypes, CommandTypes, ListTypes
<1>1. \A q \in Routes : unitsOf(q)' = unitsOf(q) /\ unitsOf(q) \subseteq Units
  <2>1. \A q \in Routes : unitList[q] \in Seq(ListItems)
    BY DEF TypeOK, ListTypes
  <2>2. \A q \in Routes : \A i \in DOMAIN unitList[q] : unitList[q][i] \in ListItems
    BY <2>1
  <2> QED
    BY <2>2 DEF unitsOf, ListItems
<1>2. heldBy(r) # {} => working(r)
  BY <1>0, <1>1 DEF heldBy, Safe, AtWork
<1>3. CASE allConnected[r] \/ canConnect(r)
  <2> DEFINE w == Append(work, Resolved(r, c))
  <2>1. workCmds' = [workCmds EXCEPT ![r] = w] /\ w # <<>>
    BY <1>3, AppendNonEmpty DEF SetCommand
  <2> HIDE DEF w
  <2>2. \A q \in Routes : working(q)' <=> q = r \/ working(q)
    BY <1>0, <2>1 DEF working
  <2>3. CASE allConnected[r]
    <3>1. UNCHANGED <<myRoute, allConnected>>
      BY <2>3 DEF SetCommand, held
    <3>2. Owned'
      BY <1>1, <2>2, <2>3, <3>1 DEF Owned
    <3>3. CASE working(r)
      <4>1. \A q \in Routes : working(q)' <=> working(q)
        BY <2>2, <3>3
      <4> QED
        BY <3>1, <3>2, <4>1 DEF busyRoutes, working
    <3>4. CASE ~working(r)
      <4>1. unitsOf(r) = {}
        BY <1>2, <2>3, <3>4 DEF Owned, heldBy
      <4>2. ~busyRoutes[r] /\ busyRoutes' = [busyRoutes EXCEPT ![r] = TRUE]
        BY <2>2, <3>4 DEF busyRoutes, working
      <4>3. myRoute' = [u \in Units |-> IF u \in unitsOf(r) THEN r ELSE myRoute[u]]
        BY <1>0, <3>1, <4>1
      <4> QED
        BY <3>2, <4>1, <4>2, <4>3, TakesUnits
    <3> QED
      BY <3>2, <3>3, <3>4
  <2>4. CASE ~allConnected[r]
    <3>1. /\ canConnect(r) /\ _ConnectUnit(r, freeOf(r))
          /\ allConnected' = [allConnected EXCEPT ![r] = TRUE]
      BY <1>3, <2>4 DEF SetCommand, _ConnectAllUnits
    <3>2. ~working(r)
      BY <2>4 DEF Owned
    <3>3. \A u \in unitsOf(r) : myRoute[u] = NoRoute
      BY <1>2, <3>1, <3>2 DEF canConnect, heldBy
    <3>4. myRoute' = [u \in Units |-> IF u \in unitsOf(r) THEN r ELSE myRoute[u]]
      BY <3>1, <3>3 DEF _ConnectUnit, freeOf, HandOver
    <3>5. Owned'
      <4> SUFFICES ASSUME NEW q \in Routes
                   PROVE  /\ working(q)' => allConnected'[q]
                          /\ allConnected'[q] => \A u \in unitsOf(q) : myRoute'[u] = q
        BY <1>1 DEF Owned
      <4>1. CASE q = r
        BY <1>0, <1>1, <3>1, <3>4, <4>1
      <4>2. CASE q # r
        BY <1>0, <1>1, <2>2, <3>1, <3>3, <3>4, <4>2 DEF Owned
      <4> QED
        BY <4>1, <4>2
    <3>6. ~busyRoutes[r] /\ busyRoutes' = [busyRoutes EXCEPT ![r] = TRUE]
      BY <2>2, <3>2 DEF busyRoutes, working
    <3> QED
      BY <3>3, <3>4, <3>5, <3>6, TakesUnits
  <2> QED
    BY <2>3, <2>4
<1>4. CASE ~(allConnected[r] \/ canConnect(r))
  <2>1. /\ Release(heldBy(r) \cup freeOf(r))
        /\ allConnected' = [allConnected EXCEPT ![r] = FALSE]
        /\ workCmds' = [workCmds EXCEPT ![r] = work]
    BY <1>4 DEF SetCommand, _ConnectAllUnits
  <2>2. ~working(r) /\ work = <<>> /\ heldBy(r) = {}
    BY <1>2, <1>4 DEF Owned
  <2>3. UNCHANGED myRoute
    BY <1>0, <2>1, <2>2 DEF Release, HandOver, freeOf
  <2>4. \A q \in Routes : working(q)' <=> working(q)
    BY <1>0, <2>1, <2>2 DEF working
  <2>5. \A q \in Routes : allConnected'[q] => allConnected[q]
    BY <1>0, <2>1
  <2>6. \A q \in Routes : working(q)' => allConnected'[q]
    BY <1>0, <2>1, <2>2, <2>4 DEF Owned
  <2>7. Owned'
    BY <1>1, <2>3, <2>5, <2>6 DEF Owned
  <2> QED
    BY <2>3, <2>4, <2>7 DEF busyRoutes, working
<1> QED
  BY <1>3, <1>4

(* The end of a run gives back every unit of the route.                    *)
LEMMA DoneReserves ==
  ASSUME TypeOK, Safe, Owned, RouteDone
  PROVE  Owned' /\ \E r \in Routes : Plain!GiveBack(r)
<1>0. /\ workCmds \in [Routes -> Seq(RouteCmds)]
      /\ allConnected \in [Routes -> BOOLEAN]
      /\ myRoute \in [Units -> Routes \cup {NoRoute}]
      /\ NoRoute \notin Routes
  BY UnitConstants DEF TypeOK, HeldTypes, CommandTypes, ListTypes
<1>1. /\ rt \in Routes /\ UNCHANGED unitList
      /\ genCom[rt] # 0
      /\ workCmds' = [workCmds EXCEPT ![rt] = <<>>]
      /\ allConnected' = [allConnected EXCEPT ![rt] = @ /\ heldBy(rt) = {}]
      /\ Release(heldBy(rt))
  BY InHand DEF RouteDone, DisconnectAllUnit, Ending, Scanned, aside, genFinished
<1>2. working(rt)
  BY <1>1 DEF Safe, GenComLive
<1>3. \A q \in Routes : unitsOf(q)' = unitsOf(q)
  BY <1>1 DEF unitsOf
<1>4. \A u \in Units : u \in heldBy(rt) <=> myRoute[u] = rt
  BY <1>0, <1>1 DEF heldBy, Safe, AtWork
<1>5. myRoute' = [u \in Units |-> IF myRoute[u] = rt THEN NoRoute ELSE myRoute[u]]
  BY <1>1, <1>4 DEF Release, HandOver
<1>6. \A q \in Routes : working(q)' <=> q # rt /\ working(q)
  BY <1>0, <1>1 DEF working
<1>7. Owned'
  <2> SUFFICES ASSUME NEW q \in Routes
               PROVE  /\ working(q)' => allConnected'[q]
                      /\ allConnected'[q] => \A u \in unitsOf(q) : myRoute'[u] = q
    BY <1>3 DEF Owned
  <2>0. unitsOf(q) \subseteq Units
    <3>1. unitList[q] \in Seq(ListItems)
      BY DEF TypeOK, ListTypes
    <3>2. \A i \in DOMAIN unitList[q] : unitList[q][i] \in ListItems
      BY <3>1
    <3> QED
      BY <3>2 DEF unitsOf, ListItems
  <2>1. CASE q = rt
    BY <1>0, <1>1, <1>4, <1>6, <2>0, <2>1 DEF Owned, heldBy
  <2>2. CASE q # rt
    BY <1>0, <1>1, <1>5, <1>6, <2>0, <2>2 DEF Owned
  <2> QED
    BY <2>1, <2>2
<1>8. busyRoutes[rt] /\ busyRoutes' = [busyRoutes EXCEPT ![rt] = FALSE]
  BY <1>1, <1>2, <1>6 DEF busyRoutes, working
<1>9. ASSUME NEW r \in Routes, r = rt PROVE Plain!GiveBack(r)
  BY <1>5, <1>8, <1>9 DEF Plain!GiveBack, busyRoutes
<1> QED
  BY <1>1, <1>7, <1>9
(* A scanned list of commands stays a list that is not empty.              *)
LEMMA ReplacedWorks ==
  ASSUME TypeOK, Scanning, NEW c
  PROVE  /\ rt \in Routes
         /\ Replaced(c) \in Seq(RouteCmds \cup {c})
         /\ Replaced(c) # <<>>
         /\ working(rt)
<1>1. rt \in Routes /\ pos + 1 \in 1 .. Len(workCmds[rt])
  BY UnderScan
<1>2. workCmds[rt] \in Seq(RouteCmds)
  BY <1>1 DEF TypeOK, CommandTypes
<1>3. workCmds[rt] \in Seq(RouteCmds \cup {c})
  BY <1>2
<1> DEFINE s == workCmds[rt]
           i == pos + 1
<1>4. Replaced(c) = [s EXCEPT ![i] = c]
  BY DEF Replaced
<1>5. s \in Seq(RouteCmds \cup {c}) /\ i \in 1 .. Len(s)
  BY <1>1, <1>3
<1> HIDE DEF s, i
<1>6. /\ [s EXCEPT ![i] = c] \in Seq(RouteCmds \cup {c})
      /\ Len([s EXCEPT ![i] = c]) = Len(s)
  BY <1>5, ExceptSeq
<1>7. Replaced(c) # <<>>
  BY <1>4, <1>5, <1>6
<1>8. working(rt)
  BY <1>5 DEF s, working
<1> QED
  BY <1>1, <1>4, <1>6, <1>7, <1>8

(* What a step of InformFromUnit does to the holding of units.             *)
LEMMA InformReserves ==
  ASSUME TypeOK, Safe, Owned, unitList = InitList, InformStep
  PROVE  /\ Owned'
         /\ \/ \E r \in Routes : Plain!Take(r) \/ Plain!GiveBack(r)
            \/ UNCHANGED <<myRoute, busyRoutes>>
<1>0. UNCHANGED unitList
  BY DEF InformStep, InformFromStranger, ScanOther, ScanParallel, ScanKept, ScanFar,
     NextDone, NextFailed, LeftSave, LeftCleanStop, LeftForClean, LeftFailed, LeftSilos,
     LeftBunker, ToRouteLeft, Left, Covered, Ahead, Scan, Scanning,
     RemoveCommand, RouteDone, NextQueued, StillWorking, Ending, aside
<1>00. workCmds \in [Routes -> Seq(RouteCmds)] /\ genCom \in [Routes -> Nat]
  BY DEF TypeOK, CommandTypes
<1>1. ASSUME NEW c, Scan, Becomes(c)
      PROVE  Quiet
  <2>1. rt \in Routes /\ Replaced(c) # <<>> /\ working(rt)
    BY <1>1, ReplacedWorks DEF Scan
  <2>2. workCmds' = [workCmds EXCEPT ![rt] = Replaced(c)]
    BY <1>1 DEF Becomes
  <2>3. \A q \in Routes : working(q)' <=> working(q)
    BY <1>00, <2>1, <2>2 DEF working
  <2>4. UNCHANGED <<myRoute, allConnected>>
    BY <1>1 DEF Becomes, linked, held
  <2> QED
    BY <1>0, <2>3, <2>4 DEF Quiet
<1>2. ASSUME NEW c, NEW d, NEW gnrl, Scan, SetCommand(rt, Replaced(c), genCom[rt], d, gnrl)
      PROVE  /\ Owned'
             /\ \/ \E r \in Routes : Plain!Take(r)
                \/ UNCHANGED <<myRoute, busyRoutes>>
  BY <1>0, <1>2, ReplacedWorks, SetCommandReserves DEF Scan
<1>4. ASSUME UNCHANGED <<linked, workCmds>> PROVE Quiet
  BY <1>0, <1>4 DEF Quiet, linked, held, working
<1>5. CASE InformFromStranger \/ ScanOther \/ StillWorking
  BY <1>4, <1>5, QuietReserves DEF InformFromStranger, ScanOther, StillWorking
<1>6. CASE ScanParallel \/ ScanKept \/ LeftCleanStop \/ LeftSave \/ ScanFar
           \/ NextDone \/ NextFailed
  <2>1. Scan /\ \E c : Becomes(c)
    BY <1>6 DEF ScanParallel, ScanKept, LeftCleanStop, LeftSave, ScanFar, NextDone,
                NextFailed, Left, Covered, Ahead
  <2> QED
    BY <1>1, <2>1, QuietReserves
<1>7. CASE LeftForClean \/ LeftFailed \/ LeftSilos \/ LeftBunker
  <2>1. Scan /\ \E c : \/ Becomes(c)
                       \/ \E d, gnrl : SetCommand(rt, Replaced(c), genCom[rt], d, gnrl)
    BY <1>7 DEF LeftForClean, LeftFailed, LeftSilos, LeftBunker, ToRouteLeft, Left, Covered
  <2> QED
    BY <1>1, <1>2, <2>1, QuietReserves
<1>8. CASE RemoveCommand
  <2>1. rt \in Routes
    BY <1>8, InHand DEF RemoveCommand, Scanned
  <2> PICK i \in removable : workCmds' = [workCmds EXCEPT ![rt] = RemoveAt(@, i)]
    BY <1>8 DEF RemoveCommand
  <2>2. i \in DOMAIN workCmds[rt] /\ i # genCom[rt] /\ workCmds[rt] \in Seq(RouteCmds)
    BY <1>00, <2>1 DEF removable
  <2>3. working(rt)
    BY <2>2 DEF working
  <2>4. genCom[rt] \in 1 .. Len(workCmds[rt])
    BY <1>00, <2>1, <2>2, <2>3 DEF Safe, GenComLive
  <2>5. Len(workCmds[rt]) > 1
    BY <2>2, <2>4
  <2>6. RemoveAt(workCmds[rt], i) # <<>>
    BY <2>2, <2>5, Removal
  <2>7. \A q \in Routes : working(q)' <=> working(q)
    BY <1>00, <2>1, <2>3, <2>6 DEF working
  <2>8. Quiet
    BY <1>0, <1>8, <2>7 DEF RemoveCommand, Quiet, linked, held
  <2> QED
    BY <2>8, QuietReserves
<1>9. CASE RouteDone
  BY <1>9, DoneReserves
<1>10. CASE NextQueued
  <2>1. rt \in Routes /\ SetCommand(rt, <<>>, 0, Head(queued), TRUE)
    BY <1>10, InHand DEF NextQueued, Ending, Scanned
  <2>2. <<>> \in Seq(RouteCmds)
    OBVIOUS
  <2> QED
    BY <1>0, <2>1, <2>2, SetCommandReserves
<1> QED
  BY <1>5, <1>6, <1>7, <1>8, <1>9, <1>10 DEF InformStep

(* The same for an order of the operator.                                  *)
LEMMA OrderReserves ==
  ASSUME TypeOK, Safe, Owned, unitList = InitList,
         NEW r \in Routes, Start(r) \/ Stop(r) \/ CleanStop(r) \/ Freeze(r)
  PROVE  Owned' /\ (Plain!Take(r) \/ UNCHANGED <<myRoute, busyRoutes>>)
<1>1. UNCHANGED unitList /\ \E c, gnrl : SetCommand(r, <<>>, 0, c, gnrl)
  BY DEF Start, Stop, CleanStop, Freeze, Restart
<1>2. <<>> \in Seq(RouteCmds)
  OBVIOUS
<1> QED
  BY <1>1, <1>2, SetCommandReserves

(* Every step of the program is a step of the reservation, or none.        *)
LEMMA StepReserves ==
  ASSUME FixedLists, IInv, NoEdits, Owned, [Next]_vars
  PROVE  Owned' /\ [Plain!Next]_<<myRoute, busyRoutes>>
<1>0. TypeOK /\ Safe /\ unitList = InitList
  BY DEF IInv, NoEdits
<1>1. ASSUME UNCHANGED <<held, routeVars>> PROVE Quiet
  BY <1>1 DEF Quiet, held, routeVars, working
<1>2. CASE UNCHANGED vars
  BY <1>0, <1>1, <1>2, QuietReserves DEF vars, unitVars, held
<1>3. CASE UnitThread /\ UNCHANGED routeVars
  BY <1>0, <1>1, <1>3, QuietReserves DEF UnitThread, commandFromRoute, Observe
<1>4. CASE UnitPlant /\ UNCHANGED routeVars
  <2>1. UNCHANGED held
    BY <1>4 DEF UnitPlant, Contactor, LevelChange, Rescan, Bounce, detectAlarm, resetAlarm,
                UserSetMode
  <2> QED
    BY <1>0, <1>1, <1>4, <2>1, QuietReserves
<1>5. CASE RouteThread
  <2>1. InformStep \/ \E r \in Routes : Start(r) \/ Stop(r) \/ CleanStop(r) \/ Freeze(r)
    BY <1>0, <1>5, HandlersFixed
  <2> QED
    BY <1>0, <2>1, InformReserves, OrderReserves DEF Plain!Next
<1>6. CASE \E r \in Routes : Operator(r) \/ Show(r)
  <2>1. Quiet
    BY <1>6 DEF Operator, Click, AddInRoute, Show, Quiet, held, unitVars, working
  <2> QED
    BY <1>0, <2>1, QuietReserves
<1> QED
  BY <1>2, <1>3, <1>4, <1>5, <1>6 DEF Next

(* The unit that a route at work holds is the unit it works for.           *)
LEMMA WorksForHeld == ASSUME TypeOK, Safe PROVE worksFor = myRoute
<1>1. myRoute \in [Units -> Routes \cup {NoRoute}]
  BY DEF TypeOK, HeldTypes
<1>2. \A u \in Units : myRoute[u] # NoRoute => working(myRoute[u])
  BY DEF Safe, AtWork
<1> QED
  BY <1>1, <1>2 DEF worksFor

(* So the two reservations start and step alike.                           *)
LEMMA PlainIsReserved ==
  /\ IInv /\ Plain!Init => Reserved!Init
  /\ IInv /\ IInv' /\ [Plain!Next]_<<myRoute, busyRoutes>>
       => [Reserved!Next]_<<worksFor, busyRoutes>>
<1>1. IInv => worksFor = myRoute
  BY WorksForHeld DEF IInv
<1>2. IInv' => (worksFor = myRoute)'
  BY <1>1, PTL
<1>3. ASSUME worksFor = myRoute, Plain!Init PROVE Reserved!Init
  BY <1>3 DEF Plain!Init, Reserved!Init, busyRoutes
<1>4. ASSUME worksFor = myRoute, worksFor' = myRoute', NEW r \in Routes,
             Plain!Take(r) \/ Plain!GiveBack(r)
      PROVE  Reserved!Take(r) \/ Reserved!GiveBack(r)
  BY <1>4 DEF Plain!Take, Plain!GiveBack, Plain!Free, Reserved!Take, Reserved!GiveBack,
              Reserved!Free, busyRoutes
<1> QED
  BY <1>1, <1>2, <1>3, <1>4 DEF Plain!Next, Reserved!Next

(* Routes whose lists are not edited implement the reservation of units: a *)
(* route gets to work by taking all of its units at once, only if all of   *)
(* them are free, and gives all of them back at once.                      *)
THEOREM RoutesReserve == ASSUME FixedLists PROVE Spec => Reserves
<1>1. Init => NoEdits /\ Owned /\ Plain!Init
  <2> SUFFICES ASSUME Init PROVE NoEdits /\ Owned /\ Plain!Init
    OBVIOUS
  <2>1. NoEdits
    BY DEF Init, UnitInit, NoEdits
  <2>2. Owned
    BY DEF Init, Owned, working
  <2>3. Plain!Init
    BY DEF Init, UnitInit, Plain!Init, busyRoutes
  <2> QED
    BY <2>1, <2>2, <2>3
<1>2. IInv /\ NoEdits /\ Owned /\ [Next]_vars =>
        NoEdits' /\ Owned' /\ [Plain!Next]_<<myRoute, busyRoutes>>
  BY FixedNext, StepReserves
<1>3. Spec => []IInv
  BY Inductive
<1>4. Spec => Reserved!Init /\ [][Reserved!Next]_<<worksFor, busyRoutes>>
  BY <1>1, <1>2, <1>3, PlainIsReserved, PTL DEF Spec
<1> QED
  BY <1>4, PTL DEF Reserves, Reserved!Spec, busyRoutes

-----------------------------------------------------------------------------
(* Commands in range.  Every command at work spans units of the list and   *)
(* every command that waits will; spans shrink when a unit fails, and      *)
(* commands are started from within the scan over what is left.            *)

(* A run clean goes down the line.  The command that it starts for a unit  *)
(* that fails spans what lies between its progress and that unit.          *)
CleanDown(c) == c.name = "RtCmToRoutForClean" => c.type = "DownStepByStep"

(* Commands at work on a list of n units. *)
Spanning(n) ==
  {c \in RouteCmds :
     /\ CleanDown(c)
     /\ 0 <= c.beginUn /\ c.beginUn <= c.endUn + 1 /\ c.endUn < n
     /\ c.beginUn - 1 <= c.last /\ c.last <= c.endUn + 1}

(* Commands that SetCommand makes such commands; -1 is an open end. *)
Askable(n) ==
  {c \in RouteCmds :
     /\ CleanDown(c)
     /\ -1 <= c.beginUn /\ c.beginUn < n
     /\ -1 <= c.endUn /\ c.endUn < n
     /\ c.endUn = -1 \/ c.beginUn <= c.endUn + 1}

units(r) == Len(InitList[r])

NoEmptyList == \A r \in Routes : InitList[r] # <<>>

InRanges ==
  /\ ~fault
  /\ \A r \in Routes : /\ workCmds[r] \in Seq(Spanning(units(r)))
                       /\ queueCmds[r] \in Seq(Askable(units(r)))

RInv == TypeOK /\ NoEdits /\ InRanges

-----------------------------------------------------------------------------
(* Setting a command.                                                      *)

(* The length of a list is a number, and of a list with units not zero.    *)
LEMMA UnitsCount ==
  ASSUME NoEmptyList, NEW r \in Routes
  PROVE  units(r) \in Nat /\ units(r) > 0
<1>1. InitList[r] \in Seq(ListItems) /\ InitList[r] # <<>>
  BY RouteConstants DEF NoEmptyList
<1> QED
  BY <1>1 DEF units

(* Resolving the open ends of a command gives it a span of the list, with  *)
(* its first unit next.                                                    *)
LEMMA ResolvedSpan ==
  ASSUME NoEmptyList, TypeOK, unitList = InitList,
         NEW r \in Routes, NEW c \in Askable(units(r))
  PROVE  LET rc == Resolved(r, c)
         IN  /\ rc \in Spanning(units(r))
             /\ rc.type = c.type
             /\ rc.type # "Parallel" => InRange(r, next(rc))
             /\ \A n \in rc.beginUn .. rc.endUn : InRange(r, n)
<1> DEFINE n == units(r)
           b == IF c.beginUn = -1 THEN 0 ELSE c.beginUn
           e == IF c.endUn = -1 THEN n - 1 ELSE c.endUn
           l == IF c.type = "DownStepByStep" THEN e + 1 ELSE b - 1
           rc == [c EXCEPT !.beginUn = b, !.endUn = e, !.last = l]
<1>1. n \in Nat /\ n > 0 /\ n = Len(unitList[r])
  BY UnitsCount DEF units
<1>2. Resolved(r, c) = rc
  BY <1>1, Zenon DEF Resolved
<1>3. c \in RouteCmds /\ CleanDown(c)
  BY DEF Askable
<1>4. c.beginUn \in Int /\ c.endUn \in Int /\ c.type \in CmdTypes
  BY <1>3 DEF RouteCmds
<1>5. /\ -1 <= c.beginUn /\ c.beginUn < n
      /\ -1 <= c.endUn /\ c.endUn < n
      /\ c.endUn = -1 \/ c.beginUn <= c.endUn + 1
  BY DEF Askable
<1> HIDE DEF n
<1>6. b \in 0 .. n - 1 /\ e \in 0 .. n - 1 /\ b <= e + 1
  BY <1>1, <1>4, <1>5
<1>7. l = IF c.type = "DownStepByStep" THEN e + 1 ELSE b - 1
  OBVIOUS
<1> HIDE DEF b, e, l
<1>8. b \in Int /\ e \in Int /\ l \in Int
  BY <1>1, <1>6, <1>7
<1>9. rc \in RouteCmds
  BY <1>3, <1>8, SpanType
<1>10. /\ rc.beginUn = b /\ rc.endUn = e /\ rc.last = l
       /\ rc.type = c.type /\ rc.name = c.name
  BY <1>3 DEF RouteCmds
<1> HIDE DEF rc
<1>11. rc \in Spanning(n)
  BY <1>1, <1>3, <1>6, <1>7, <1>9, <1>10 DEF Spanning, CleanDown
<1>12. \A k \in 0 .. n - 1 : InRange(r, k)
  BY <1>1 DEF InRange
<1>13. rc.type # "Parallel" => next(rc) \in 0 .. n - 1
  BY <1>4, <1>6, <1>7, <1>10 DEF next, CmdTypes
<1>14. \A k \in rc.beginUn .. rc.endUn : k \in 0 .. n - 1
  BY <1>1, <1>6, <1>10
<1> QED
  BY <1>2, <1>10, <1>11, <1>12, <1>13, <1>14 DEF n

(* SetCommand sends to units of the list only, and the command it adds to  *)
(* commands that span the list spans it too.                               *)
LEMMA SetCommandRange ==
  ASSUME NoEmptyList, TypeOK, unitList = InitList,
         NEW r \in Routes, NEW work \in Seq(Spanning(units(r))), NEW g0,
         NEW c \in Askable(units(r)), NEW gnrl, SetCommand(r, work, g0, c, gnrl)
  PROVE  /\ fault' = fault
         /\ \A q \in Routes : q # r => workCmds'[q] = workCmds[q]
         /\ workCmds'[r] \in Seq(Spanning(units(r)))
<1> DEFINE rc == Resolved(r, c)
<1>0. workCmds \in [Routes -> Seq(RouteCmds)]
  BY DEF TypeOK, CommandTypes
<1>1. /\ rc \in Spanning(units(r))
      /\ rc.type # "Parallel" => InRange(r, next(rc))
      /\ \A n \in rc.beginUn .. rc.endUn : InRange(r, n)
  BY ResolvedSpan
<1>2. CASE allConnected[r] \/ canConnect(r)
  <2>1. /\ workCmds' = [workCmds EXCEPT ![r] = Append(work, rc)]
        /\ IF rc.type = "Parallel" THEN SendAll(r, rc) ELSE Send(r, next(rc), rc.name)
    BY <1>2 DEF SetCommand
  <2>2. fault' = fault
    BY <1>1, <2>1 DEF SendAll, Send
  <2> HIDE DEF rc
  <2>3. Append(work, rc) \in Seq(Spanning(units(r)))
    BY <1>1
  <2> QED
    BY <1>0, <2>1, <2>2, <2>3
<1>3. CASE ~(allConnected[r] \/ canConnect(r))
  <2>1. workCmds' = [workCmds EXCEPT ![r] = work] /\ UNCHANGED fault
    BY <1>3 DEF SetCommand
  <2> QED
    BY <1>0, <2>1
<1> QED
  BY <1>2, <1>3

-----------------------------------------------------------------------------
(* The orders of the operator.                                             *)

(* A command over the whole list may be asked for.                         *)
LEMMA WholeList ==
  ASSUME NoEmptyList, NEW r \in Routes, NEW name \in RouteCommands, NEW type \in CmdTypes,
         NEW waf \in BOOLEAN,
         name = "RtCmToRoutForClean" => type = "DownStepByStep"
  PROVE  Cmd(name, type, waf, -1, -1) \in Askable(units(r))
<1> DEFINE c == Cmd(name, type, waf, -1, -1)
<1>1. c \in RouteCmds
  BY CmdType
<1>2. c.name = name /\ c.type = type /\ c.beginUn = -1 /\ c.endUn = -1
  BY DEF Cmd
<1>3. units(r) \in Nat /\ units(r) > 0
  BY UnitsCount
<1> HIDE DEF c
<1> QED
  BY <1>1, <1>2, <1>3 DEF Askable, CleanDown, c

(* A new command list over the whole list.                                 *)
LEMMA RestartRange ==
  ASSUME NoEmptyList, RInv, NEW r \in Routes, NEW c \in Askable(units(r)),
         NEW gnrl, NEW queue \in Seq(Askable(units(r))), Restart(r, c, gnrl, queue)
  PROVE  InRanges'
<1>1. SetCommand(r, <<>>, 0, c, gnrl) /\ queueCmds' = [queueCmds EXCEPT ![r] = queue]
  BY DEF Restart
<1>2. <<>> \in Seq(Spanning(units(r)))
  OBVIOUS
<1>3. TypeOK /\ unitList = InitList /\ InRanges
  BY DEF RInv, NoEdits
<1>4. queueCmds \in [Routes -> Seq(RouteCmds)]
  BY <1>3 DEF TypeOK, CommandTypes
<1>5. /\ fault' = fault
      /\ \A q \in Routes : q # r => workCmds'[q] = workCmds[q]
      /\ workCmds'[r] \in Seq(Spanning(units(r)))
  BY <1>1, <1>2, <1>3, SetCommandRange
<1> QED
  BY <1>1, <1>3, <1>4, <1>5 DEF InRanges

(* Start, stop, clean stop and freeze.                                     *)
LEMMA OrderRange ==
  ASSUME NoEmptyList, RInv, NEW r \in Routes,
         Start(r) \/ Stop(r) \/ CleanStop(r) \/ Freeze(r)
  PROVE  InRanges'
<1>1. <<>> \in Seq(Askable(units(r)))
  OBVIOUS
<1>2. ASSUME NEW name \in {"RtCmToRoute", "RtCmStop", "RtCmToSave", "RtCmCleanStop",
                           "RtCmToRoutForClean"},
             NEW type \in CmdTypes, NEW waf \in BOOLEAN,
             name = "RtCmToRoutForClean" => type = "DownStepByStep"
      PROVE  Cmd(name, type, waf, -1, -1) \in Askable(units(r))
  BY <1>2, WholeList DEF RouteCommands
<1>3. CASE Start(r)
  <2>1. Cmd("RtCmToRoute", "DownStepByStep", TRUE, -1, -1) \in Askable(units(r))
    BY <1>2 DEF CmdTypes
  <2> QED
    BY <1>1, <1>3, <2>1, RestartRange DEF Start
<1>4. CASE Stop(r)
  <2>1. /\ Cmd("RtCmStop", "Parallel", FALSE, -1, -1) \in Askable(units(r))
        /\ Cmd("RtCmToSave", "UpStepByStep", FALSE, -1, -1) \in Askable(units(r))
    BY <1>2 DEF CmdTypes
  <2> QED
    BY <1>1, <1>4, <2>1, RestartRange DEF Stop
<1>5. CASE CleanStop(r)
  <2> DEFINE c == Cmd("RtCmToRoutForClean", "DownStepByStep", TRUE, -1, -1)
             d == Cmd("RtCmCleanStop", "UpStepByStep", FALSE, -1, -1)
  <2>1. c \in Askable(units(r)) /\ d \in Askable(units(r))
    BY <1>2 DEF CmdTypes
  <2>2. Restart(r, c, FALSE, <<d>>)
    BY <1>5 DEF CleanStop
  <2> HIDE DEF c, d
  <2>3. <<d>> \in Seq(Askable(units(r)))
    BY <2>1, SingleSeq
  <2> QED
    BY <2>1, <2>2, <2>3, RestartRange
<1>6. CASE Freeze(r)
  <2>1. Cmd("RtCmStop", "Parallel", FALSE, -1, -1) \in Askable(units(r))
    BY <1>2 DEF CmdTypes
  <2> QED
    BY <1>1, <1>6, <2>1, RestartRange DEF Freeze
<1> QED
  BY <1>3, <1>4, <1>5, <1>6

-----------------------------------------------------------------------------
(* The scan of a command.                                                  *)

(* A command that keeps its span spans the list wherever its progress      *)
(* moves within it.                                                        *)
LEMMA MovedSpan ==
  ASSUME NEW n, NEW c \in Spanning(n), NEW d \in RouteCmds,
         d.name = c.name, d.type = c.type,
         d.beginUn = c.beginUn, d.endUn = c.endUn,
         c.beginUn - 1 <= d.last, d.last <= c.endUn + 1
  PROVE  d \in Spanning(n)
  BY DEF Spanning, CleanDown

(* A short command that is over keeps its span.                            *)
LEMMA ShortSpan ==
  ASSUME NEW n, NEW c \in Spanning(n)
  PROVE  Short(c) \in Spanning(n)
<1>1. c \in RouteCmds /\ c.beginUn - 1 <= c.last /\ c.last <= c.endUn + 1
  BY DEF Spanning
<1> DEFINE d == Short(c)
<1>2. d \in RouteCmds
  BY <1>1, ShortType
<1>3. /\ d.name = c.name /\ d.type = c.type /\ d.beginUn = c.beginUn
      /\ d.endUn = c.endUn /\ d.last = c.last
  BY <1>1 DEF Short, RouteCmds
<1> HIDE DEF d
<1>4. d \in Spanning(n)
  BY <1>1, <1>2, <1>3, MovedSpan
<1> QED
  BY <1>4 DEF d

(* The command under scan spans the list, the unit that answers is in its  *)
(* span, and a command that spans the list may take its place.             *)
LEMMA UnderRange ==
  ASSUME NoEmptyList, RInv, Scan
  PROVE  /\ rt \in Routes
         /\ cmd \in Spanning(units(rt))
         /\ unN \in Int /\ cmd.beginUn <= unN /\ unN <= cmd.endUn
         /\ \A c \in Spanning(units(rt)) : Replaced(c) \in Seq(Spanning(units(rt)))
         /\ \A k \in cmd.beginUn .. cmd.endUn : InRange(rt, k)
<1>0. TypeOK /\ unitList = InitList /\ InRanges
  BY DEF RInv, NoEdits
<1>1. Scanning /\ Addressed
  BY DEF Scan
<1>2. rt \in Routes /\ unN \in Int /\ pos + 1 \in 1 .. Len(workCmds[rt])
  BY <1>0, <1>1, UnderScan
<1>3. workCmds[rt] \in Seq(Spanning(units(rt)))
  BY <1>0, <1>2 DEF InRanges
<1>4. cmd \in Spanning(units(rt))
  BY <1>2, <1>3 DEF cmd
<1>5. ASSUME NEW c \in Spanning(units(rt))
      PROVE  Replaced(c) \in Seq(Spanning(units(rt)))
  <2> DEFINE w == workCmds[rt]
             i == pos + 1
  <2>1. w \in Seq(Spanning(units(rt))) /\ i \in 1 .. Len(w)
    BY <1>2, <1>3
  <2>2. Replaced(c) = [w EXCEPT ![i] = c]
    BY DEF Replaced
  <2> HIDE DEF w, i
  <2> QED
    BY <2>1, <2>2, ExceptSeq
<1>6. units(rt) \in Nat /\ units(rt) = Len(unitList[rt])
  BY <1>0, <1>2, UnitsCount DEF units
<1>7. \A k \in cmd.beginUn .. cmd.endUn : InRange(rt, k)
  BY <1>4, <1>6 DEF Spanning, RouteCmds, InRange
<1> QED
  BY <1>1, <1>2, <1>4, <1>5, <1>7 DEF Addressed

(* A scan that changes the command only.                                   *)
LEMMA BecomesRange ==
  ASSUME NoEmptyList, RInv, Scan, NEW c \in Spanning(units(rt)), Becomes(c), fault' = fault
  PROVE  InRanges'
<1>1. rt \in Routes /\ Replaced(c) \in Seq(Spanning(units(rt)))
  BY UnderRange
<1>2. workCmds' = [workCmds EXCEPT ![rt] = Replaced(c)] /\ UNCHANGED queueCmds
  BY DEF Becomes
<1>3. workCmds \in [Routes -> Seq(RouteCmds)] /\ InRanges
  BY DEF RInv, TypeOK, CommandTypes
<1>4. \A q \in Routes : workCmds'[q] = (IF q = rt THEN Replaced(c) ELSE workCmds[q])
  BY <1>1, <1>2, <1>3
<1> QED
  BY <1>1, <1>2, <1>3, <1>4 DEF InRanges

(* A scan that starts another command.                                     *)
LEMMA SpawnRange ==
  ASSUME NoEmptyList, RInv, Scan,
         NEW c \in Spanning(units(rt)), NEW d \in Askable(units(rt)), NEW gnrl,
         SetCommand(rt, Replaced(c), genCom[rt], d, gnrl),
         NEW queue \in Seq(Askable(units(rt))),
         queueCmds' = [queueCmds EXCEPT ![rt] = queue]
  PROVE  InRanges'
<1>0. TypeOK /\ unitList = InitList /\ InRanges
  BY DEF RInv, NoEdits
<1>1. rt \in Routes /\ Replaced(c) \in Seq(Spanning(units(rt)))
  BY UnderRange
<1>2. /\ fault' = fault
      /\ \A q \in Routes : q # rt => workCmds'[q] = workCmds[q]
      /\ workCmds'[rt] \in Seq(Spanning(units(rt)))
  BY <1>0, <1>1, SetCommandRange
<1>3. queueCmds \in [Routes -> Seq(RouteCmds)]
  BY <1>0 DEF TypeOK, CommandTypes
<1>4. \A q \in Routes : queueCmds'[q] = (IF q = rt THEN queue ELSE queueCmds[q])
  BY <1>1, <1>3
<1> QED
  BY <1>0, <1>1, <1>2, <1>4 DEF InRanges

(* The steps of the scan that start no command.  A unit that fails ahead   *)
(* of the progress cuts the span down to what has been passed.             *)
LEMMA ScanRange ==
  ASSUME NoEmptyList, RInv,
         \/ ScanOther    \/ ScanParallel  \/ ScanKept  \/ ScanFar
         \/ NextDone     \/ NextFailed    \/ LeftSave  \/ LeftCleanStop
  PROVE  InRanges'
<1>1. CASE ScanOther
  BY <1>1 DEF ScanOther, RInv, InRanges
<1>2. ASSUME Scan
      PROVE  /\ rt \in Routes /\ cmd \in Spanning(units(rt))
             /\ unN \in Int /\ cmd.beginUn <= unN /\ unN <= cmd.endUn
             /\ \A k \in cmd.beginUn .. cmd.endUn : InRange(rt, k)
             /\ cmd \in RouteCmds /\ cmd.beginUn \in Int /\ cmd.endUn \in Int
             /\ cmd.last \in Int /\ cmd.type \in CmdTypes
  <2>1. /\ rt \in Routes /\ cmd \in Spanning(units(rt))
        /\ unN \in Int /\ cmd.beginUn <= unN /\ unN <= cmd.endUn
        /\ \A k \in cmd.beginUn .. cmd.endUn : InRange(rt, k)
    BY <1>2, UnderRange
  <2> QED
    BY <2>1 DEF Spanning, RouteCmds
<1>3. CASE ScanParallel
  <2> DEFINE seen == IF cmd.respCount <= count(cmd) THEN cmd.respCount + 1
                     ELSE cmd.respCount
             c == [cmd EXCEPT !.respCount = seen, !.last = unN,
                              !.good = @ /\ resp = cmd.name,
                              !.finCmd = @ \/ seen = count(cmd)]
  <2>1. Scan /\ Becomes(c) /\ UNCHANGED fault
    BY <1>3 DEF ScanParallel
  <2>2. seen \in Nat
    BY <1>2, <2>1 DEF RouteCmds, count
  <2> HIDE DEF seen
  <2>3. /\ c \in RouteCmds
        /\ c.name = cmd.name /\ c.type = cmd.type
        /\ c.beginUn = cmd.beginUn /\ c.endUn = cmd.endUn /\ c.last = unN
    BY <1>2, <2>1, <2>2 DEF RouteCmds
  <2> HIDE DEF c
  <2>4. c \in Spanning(units(rt))
    BY <1>2, <2>1, <2>3, MovedSpan
  <2> QED
    BY <2>1, <2>4, BecomesRange
<1>4. CASE ScanKept
  BY <1>2, <1>4, BecomesRange DEF ScanKept, Covered
<1>5. CASE ScanFar
  BY <1>2, <1>5, BecomesRange DEF ScanFar, Ahead
<1>6. CASE NextDone
  <2> DEFINE c == [cmd EXCEPT !.good = TRUE, !.last = unN]
             f == [c EXCEPT !.finCmd = TRUE]
  <2>1. /\ Scan /\ cmd.type # "Parallel"
        /\ \/ Becomes(f) /\ UNCHANGED fault
           \/ ~atEnd(c) /\ Becomes(c) /\ Send(rt, next(c), c.name)
    BY <1>6 DEF NextDone, Ahead
  <2>2. c \in RouteCmds
    BY <1>2, <2>1, GoodLastType
  <2>3. /\ c.name = cmd.name /\ c.type = cmd.type
        /\ c.beginUn = cmd.beginUn /\ c.endUn = cmd.endUn /\ c.last = unN
    BY <1>2, <2>1 DEF RouteCmds
  <2> HIDE DEF c
  <2>4. c \in Spanning(units(rt))
    BY <1>2, <2>1, <2>2, <2>3, MovedSpan
  <2>5. /\ f \in RouteCmds
        /\ f.name = c.name /\ f.type = c.type
        /\ f.beginUn = c.beginUn /\ f.endUn = c.endUn /\ f.last = c.last
    BY <2>2 DEF RouteCmds
  <2> HIDE DEF f
  <2>6. f \in Spanning(units(rt))
    BY <1>2, <2>1, <2>3, <2>4, <2>5, MovedSpan
  <2>7. ASSUME ~atEnd(c), Send(rt, next(c), c.name) PROVE fault' = fault
    <3>1. next(c) \in cmd.beginUn .. cmd.endUn
      BY <1>2, <2>1, <2>3, <2>7 DEF atEnd, next, CmdTypes
    <3> QED
      BY <1>2, <2>1, <2>7, <3>1 DEF Send
  <2> QED
    BY <2>1, <2>4, <2>6, <2>7, BecomesRange
<1>7. CASE NextFailed
  <2> DEFINE g == cmd.good /\ cmd.name = "RtCmToRoutForClean"
             c == [cmd EXCEPT !.finCmd = TRUE, !.good = g]
             d == IF c.type = "UpStepByStep" THEN [c EXCEPT !.endUn = c.last]
                  ELSE [c EXCEPT !.beginUn = c.last]
  <2>1. /\ Scan /\ cmd.type # "Parallel" /\ unN = next(cmd)
        /\ Becomes(d) /\ UNCHANGED fault
    BY <1>7 DEF NextFailed, Ahead
  <2>2. /\ c \in RouteCmds
        /\ c.name = cmd.name /\ c.type = cmd.type
        /\ c.beginUn = cmd.beginUn /\ c.endUn = cmd.endUn /\ c.last = cmd.last
    <3>1. g \in BOOLEAN
      BY <1>2, <2>1 DEF RouteCmds
    <3> HIDE DEF g
    <3> QED
      BY <1>2, <2>1, <3>1 DEF RouteCmds
  <2> HIDE DEF c
  <2>3. /\ d \in RouteCmds
        /\ d.name = cmd.name /\ d.type = cmd.type /\ d.last = cmd.last
        /\ d.beginUn = IF cmd.type = "UpStepByStep" THEN cmd.beginUn ELSE cmd.last
        /\ d.endUn = IF cmd.type = "UpStepByStep" THEN cmd.last ELSE cmd.endUn
    BY <1>2, <2>1, <2>2 DEF RouteCmds
  <2> HIDE DEF d
  <2>4. /\ CleanDown(cmd) /\ 0 <= cmd.beginUn /\ cmd.endUn < units(rt)
        /\ cmd.beginUn - 1 <= cmd.last /\ cmd.last <= cmd.endUn + 1
        /\ units(rt) \in Nat
    BY <1>2, <2>1, UnitsCount DEF Spanning
  <2>5. d \in Spanning(units(rt))
    <3>1. CASE cmd.type = "UpStepByStep"
      <4>1. unN = cmd.last + 1
        BY <2>1, <3>1 DEF next
      <4> QED
        BY <1>2, <2>1, <2>3, <2>4, <3>1, <4>1 DEF Spanning, CleanDown
    <3>2. CASE cmd.type = "DownStepByStep"
      <4>1. unN = cmd.last - 1
        BY <2>1, <3>2 DEF next
      <4> QED
        BY <1>2, <2>1, <2>3, <2>4, <3>2, <4>1 DEF Spanning, CleanDown
    <3> QED
      BY <1>2, <2>1, <3>1, <3>2 DEF CmdTypes
  <2> QED
    BY <2>1, <2>5, BecomesRange
<1>8. ASSUME Scan PROVE \A name : Send(rt, unN, name) => fault' = fault
  BY <1>2, <1>8 DEF Send
<1>9. CASE LeftSave
  <2>1. Scan /\ Becomes(Short(cmd)) /\ Send(rt, unN, "RtCmStop")
    BY <1>9 DEF LeftSave, Left, Covered
  <2> QED
    BY <1>2, <1>8, <2>1, ShortSpan, BecomesRange
<1>10. CASE LeftCleanStop
  <2> DEFINE c == Finished(cmd, TRUE, cmd.good)
  <2>1. Scan /\ Becomes(Short(c)) /\ Send(rt, unN, "RtCmStop")
    BY <1>10 DEF LeftCleanStop, Left, Covered
  <2>2. c \in Spanning(units(rt))
    <3>1. cmd.good \in BOOLEAN
      BY <1>2, <2>1 DEF RouteCmds
    <3>2. /\ c \in RouteCmds
          /\ c.name = cmd.name /\ c.type = cmd.type
          /\ c.beginUn = cmd.beginUn /\ c.endUn = cmd.endUn /\ c.last = cmd.last
      BY <1>2, <2>1, <3>1, FinishedType DEF Finished, RouteCmds
    <3>3. cmd.beginUn - 1 <= cmd.last /\ cmd.last <= cmd.endUn + 1
      BY <1>2, <2>1 DEF Spanning
    <3> HIDE DEF c
    <3> QED
      BY <1>2, <2>1, <3>2, <3>3, MovedSpan
  <2> HIDE DEF c
  <2> QED
    BY <1>8, <2>1, <2>2, ShortSpan, BecomesRange
<1> QED
  BY <1>1, <1>3, <1>4, <1>5, <1>6, <1>7, <1>9, <1>10

(* A command asked for with a span of its own.                             *)
LEMMA AskedSpan ==
  ASSUME NEW n \in Nat, NEW name \in RouteCommands, NEW type \in CmdTypes,
         NEW waf \in BOOLEAN, NEW b \in Int, NEW e \in Int,
         name = "RtCmToRoutForClean" => type = "DownStepByStep",
         -1 <= b, b < n, -1 <= e, e < n, e = -1 \/ b <= e + 1
  PROVE  Cmd(name, type, waf, b, e) \in Askable(n)
<1> DEFINE c == Cmd(name, type, waf, b, e)
<1>1. c \in RouteCmds
  BY CmdType
<1>2. c.name = name /\ c.type = type /\ c.beginUn = b /\ c.endUn = e
  BY DEF Cmd
<1> HIDE DEF c
<1>3. c \in Askable(n)
  BY <1>1, <1>2 DEF Askable, CleanDown
<1> QED
  BY <1>3 DEF c

(* The steps of the scan that start a command over what lies before the    *)
(* unit that has left.                                                     *)
LEMMA LeftRange ==
  ASSUME NoEmptyList, RInv,
         \/ LeftForClean \/ LeftFailed \/ LeftSilos \/ LeftBunker
  PROVE  InRanges'
<1> DEFINE n == units(rt)
<1>1. Scan /\ cmd.type # "Parallel" /\ covered(cmd, unN)
  BY DEF LeftForClean, LeftFailed, LeftSilos, LeftBunker, ToRouteLeft, Left, Covered
<1>2. /\ rt \in Routes /\ cmd \in Spanning(n)
      /\ unN \in Int /\ cmd.beginUn <= unN /\ unN <= cmd.endUn
  BY <1>1, UnderRange
<1>3. /\ cmd \in RouteCmds /\ CleanDown(cmd)
      /\ 0 <= cmd.beginUn /\ cmd.endUn < n
      /\ cmd.beginUn - 1 <= cmd.last /\ cmd.last <= cmd.endUn + 1
  BY <1>2 DEF Spanning
<1>4. /\ cmd.beginUn \in Int /\ cmd.endUn \in Int /\ cmd.last \in Int
      /\ cmd.good \in BOOLEAN /\ n \in Nat
  BY <1>2, <1>3, UnitsCount DEF RouteCmds
<1>5. queueCmds[rt] \in Seq(Askable(n))
  BY <1>2 DEF RInv, InRanges
<1>6. ASSUME UNCHANGED queueCmds
      PROVE  queueCmds' = [queueCmds EXCEPT ![rt] = queueCmds[rt]]
  BY <1>2, <1>6 DEF RInv, TypeOK, CommandTypes
<1>7. ASSUME NEW c \in Spanning(n), NEW d \in Askable(n), NEW gnrl \in BOOLEAN,
             \/ SetCommand(rt, Replaced(c), genCom[rt], d, gnrl) /\ UNCHANGED queueCmds
             \/ Becomes(c) /\ UNCHANGED fault
      PROVE  InRanges'
  BY <1>1, <1>5, <1>6, <1>7, SpawnRange, BecomesRange
<1> HIDE DEF n
<1>8. ASSUME NEW waf \in BOOLEAN, NEW good \in BOOLEAN
      PROVE  /\ Short([Finished(cmd, waf, good) EXCEPT !.last = unN + 1]) \in Spanning(n)
             /\ Short(Finished(cmd, waf, good)) \in Spanning(n)
  <2> DEFINE f == Finished(cmd, waf, good)
             g == [f EXCEPT !.last = unN + 1]
  <2>1. /\ f \in RouteCmds
        /\ f.name = cmd.name /\ f.type = cmd.type
        /\ f.beginUn = cmd.beginUn /\ f.endUn = cmd.endUn /\ f.last = cmd.last
    BY <1>3, FinishedType DEF Finished, RouteCmds
  <2> HIDE DEF f
  <2>2. /\ g \in RouteCmds
        /\ g.name = f.name /\ g.type = f.type
        /\ g.beginUn = f.beginUn /\ g.endUn = f.endUn /\ g.last = unN + 1
    BY <1>2, <2>1 DEF RouteCmds
  <2> HIDE DEF g
  <2>3. f \in Spanning(n) /\ g \in Spanning(n)
    BY <1>2, <1>3, <1>4, <2>1, <2>2, MovedSpan
  <2> QED
    BY <2>3, ShortSpan DEF f, g
<1>9. ASSUME NEW name \in RouteCommands, NEW type \in CmdTypes, NEW waf \in BOOLEAN,
              NEW e \in {unN - 1, unN},
              name = "RtCmToRoutForClean" => type = "DownStepByStep"
       PROVE  Cmd(name, type, waf, cmd.beginUn, e) \in Askable(n)
  <2>1. /\ e \in Int /\ -1 <= cmd.beginUn /\ cmd.beginUn < n
        /\ -1 <= e /\ e < n /\ cmd.beginUn <= e + 1
    BY <1>2, <1>3, <1>4
  <2> QED
    BY <1>4, <1>9, <2>1, AskedSpan
<1>10. CASE LeftForClean
  <2> DEFINE stops == unN # cmd.last
             l == IF stops THEN unN + 1 ELSE cmd.last + 1
             gd == cmd.good /\ ~stops
             c == [cmd EXCEPT !.good = gd, !.last = l]
             d == Cmd("RtCmStopOnRouteAlarm", "Parallel", FALSE, cmd.last, unN - 1)
  <2>1. IF stops /\ unN > 0
        THEN SetCommand(rt, Replaced(Short(c)), genCom[rt], d, FALSE) /\ UNCHANGED queueCmds
        ELSE Becomes(Short(c)) /\ UNCHANGED fault
    BY <1>10 DEF LeftForClean
  <2>2. cmd.last <= unN
    BY <1>1, <1>3, <1>10 DEF LeftForClean, CleanDown, covered
  <2>3. l \in Int /\ cmd.beginUn - 1 <= l /\ l <= cmd.endUn + 1 /\ gd \in BOOLEAN
    BY <1>2, <1>3, <1>4, <2>2
  <2>4. ASSUME stops, unN > 0 PROVE d \in Askable(n)
    <3>1. /\ -1 <= cmd.last /\ cmd.last < n /\ unN - 1 \in Int /\ -1 <= unN - 1
          /\ unN - 1 < n /\ cmd.last <= unN - 1 + 1
      BY <1>2, <1>3, <1>4, <2>2, <2>4
    <3> QED
      BY <1>4, <3>1, AskedSpan DEF RouteCommands, CmdTypes
  <2> HIDE DEF l, gd, d
  <2>5. /\ c \in RouteCmds
        /\ c.name = cmd.name /\ c.type = cmd.type
        /\ c.beginUn = cmd.beginUn /\ c.endUn = cmd.endUn /\ c.last = l
    BY <1>3, <2>3, GoodLastType DEF RouteCmds
  <2> HIDE DEF c
  <2>6. Short(c) \in Spanning(n)
    BY <1>2, <2>3, <2>5, MovedSpan, ShortSpan
  <2> QED
    BY <1>1, <1>5, <1>6, <2>1, <2>4, <2>6, SpawnRange, BecomesRange DEF n
<1>11. CASE LeftFailed
  <2> DEFINE c == Short([Finished(cmd, TRUE, FALSE) EXCEPT !.last = unN + 1])
             d == Cmd("RtCmStopOnRouteAlarm", "Parallel", TRUE, cmd.beginUn, unN - 1)
  <2>1. c \in Spanning(n)
    BY <1>8
  <2>2. d \in Askable(n)
    BY <1>9 DEF RouteCommands, CmdTypes
  <2>3. \/ SetCommand(rt, Replaced(c), genCom[rt], d, FALSE) /\ UNCHANGED queueCmds
        \/ Becomes(c) /\ UNCHANGED fault
    BY <1>11 DEF LeftFailed
  <2> HIDE DEF c, d
  <2> QED
    BY <1>7, <2>1, <2>2, <2>3
<1>12. CASE LeftSilos
  <2> DEFINE c == Short([Finished(cmd, FALSE, TRUE) EXCEPT !.last = unN + 1])
             d == Cmd("RtCmCleanStop", "UpStepByStep", FALSE, cmd.beginUn, unN - 1)
  <2>1. c \in Spanning(n)
    BY <1>8
  <2>2. d \in Askable(n)
    BY <1>9 DEF RouteCommands, CmdTypes
  <2>3. \/ SetCommand(rt, Replaced(c), genCom[rt], d, FALSE) /\ UNCHANGED queueCmds
        \/ Becomes(c) /\ UNCHANGED fault
    BY <1>12 DEF LeftSilos
  <2> HIDE DEF c, d
  <2> QED
    BY <1>7, <2>1, <2>2, <2>3
<1>13. CASE LeftBunker
  <2> DEFINE c == Short(Finished(cmd, FALSE, TRUE))
             d == Cmd("RtCmToRoutForClean", "DownStepByStep", TRUE, cmd.beginUn, unN - 1)
             q1 == Cmd("RtCmCleanStop", "UpStepByStep", FALSE, cmd.beginUn, unN - 1)
             q2 == Cmd("RtCmToRoute", "DownStepByStep", TRUE, cmd.beginUn, unN)
  <2>1. c \in Spanning(n)
    BY <1>8
  <2>2. d \in Askable(n) /\ q1 \in Askable(n)
    BY <1>9 DEF RouteCommands, CmdTypes
  <2>3. q2 \in Askable(n)
    BY <1>9 DEF RouteCommands, CmdTypes
  <2>4. /\ SetCommand(rt, Replaced(c), genCom[rt], d, TRUE)
        /\ queueCmds' = [queueCmds EXCEPT ![rt] = <<q1, q2>>]
    BY <1>13 DEF LeftBunker
  <2> HIDE DEF c, d, q1, q2
  <2>5. <<q1, q2>> \in Seq(Askable(n))
    BY <2>2, <2>3, PairSeq
  <2> QED
    BY <1>1, <2>1, <2>2, <2>4, <2>5, SpawnRange DEF n
<1> QED
  BY <1>10, <1>11, <1>12, <1>13

-----------------------------------------------------------------------------
(* The removal of commands and the end of the handler.                     *)

(* Commands are removed, dropped, or replaced by the next in the queue.    *)
LEMMA EndingRange ==
  ASSUME NoEmptyList, RInv,
         \/ InformFromStranger \/ RemoveCommand
         \/ RouteDone \/ NextQueued \/ StillWorking
  PROVE  InRanges'
<1>0. /\ TypeOK /\ unitList = InitList /\ InRanges
      /\ workCmds \in [Routes -> Seq(RouteCmds)]
      /\ queueCmds \in [Routes -> Seq(RouteCmds)]
  BY DEF RInv, NoEdits, TypeOK, CommandTypes
<1>1. rt \in Routes
  BY <1>0, InHand DEF InformFromStranger, RemoveCommand, RouteDone, NextQueued, StillWorking,
         Ending, Scanned
<1>2. /\ workCmds[rt] \in Seq(Spanning(units(rt)))
      /\ queueCmds[rt] \in Seq(Askable(units(rt)))
  BY <1>0, <1>1 DEF InRanges
<1>3. CASE InformFromStranger \/ StillWorking
  BY <1>0, <1>3 DEF InformFromStranger, StillWorking, InRanges
<1>4. CASE RemoveCommand
  <2>1. /\ UNCHANGED <<queueCmds, fault>>
        /\ \E i \in DOMAIN workCmds[rt] :
             workCmds' = [workCmds EXCEPT ![rt] = RemoveAt(@, i)]
    BY <1>4 DEF RemoveCommand, removable
  <2>2. PICK i \in DOMAIN workCmds[rt] :
          workCmds' = [workCmds EXCEPT ![rt] = RemoveAt(@, i)]
    BY <2>1
  <2>3. RemoveAt(workCmds[rt], i) \in Seq(Spanning(units(rt)))
    BY <1>2, Removal
  <2> QED
    BY <1>0, <1>1, <2>1, <2>2, <2>3 DEF InRanges
<1>5. CASE RouteDone
  <2>1. workCmds' = [workCmds EXCEPT ![rt] = <<>>] /\ UNCHANGED <<queueCmds, fault>>
    BY <1>5 DEF RouteDone
  <2>2. <<>> \in Seq(Spanning(units(rt)))
    OBVIOUS
  <2> QED
    BY <1>0, <1>1, <2>1, <2>2 DEF InRanges
<1>6. CASE NextQueued
  <2>1. /\ queued # <<>>
        /\ SetCommand(rt, <<>>, 0, Head(queued), TRUE)
        /\ queueCmds' = [queueCmds EXCEPT ![rt] = Tail(@)]
    BY <1>6 DEF NextQueued
  <2>2. Head(queued) \in Askable(units(rt)) /\ Tail(queueCmds[rt]) \in Seq(Askable(units(rt)))
    BY <1>2, <2>1 DEF queued
  <2>3. <<>> \in Seq(Spanning(units(rt)))
    OBVIOUS
  <2>4. /\ fault' = fault
        /\ \A q \in Routes : q # rt => workCmds'[q] = workCmds[q]
        /\ workCmds'[rt] \in Seq(Spanning(units(rt)))
    BY <1>0, <1>1, <2>1, <2>2, <2>3, SetCommandRange
  <2> QED
    BY <1>0, <1>1, <2>1, <2>2, <2>4 DEF InRanges
<1> QED
  BY <1>3, <1>4, <1>5, <1>6

(* Every step keeps the commands in range.                                 *)
LEMMA RangeNext ==
  ASSUME FixedLists, NoEmptyList, RInv, [Next]_vars
  PROVE  InRanges'
<1>1. ASSUME UNCHANGED <<fault, workCmds, queueCmds>> PROVE InRanges'
  BY <1>1 DEF RInv, InRanges
<1>2. CASE UNCHANGED vars
  BY <1>1, <1>2 DEF vars, routeVars
<1>3. CASE (UnitThread \/ UnitPlant) /\ UNCHANGED routeVars
  BY <1>1, <1>3 DEF routeVars
<1>4. CASE RouteThread
  <2>1. InformStep \/ \E r \in Routes : Start(r) \/ Stop(r) \/ CleanStop(r) \/ Freeze(r)
    BY <1>4, HandlersFixed DEF RInv
  <2>2. CASE InformStep
    BY <2>2, ScanRange, LeftRange, EndingRange DEF InformStep
  <2> QED
    BY <2>1, <2>2, OrderRange
<1>5. CASE \E r \in Routes : Operator(r) \/ Show(r)
  BY <1>1, <1>5 DEF Operator, Click, AddInRoute, Show
<1> QED
  BY <1>2, <1>3, <1>4, <1>5 DEF Next

(* Commands in range are what CmdsInRange says they are.                   *)
LEMMA RangeShown == RInv => CmdsInRange
<1> SUFFICES ASSUME RInv, NEW r \in Routes, NEW i \in DOMAIN workCmds[r]
             PROVE  LET c == workCmds[r][i]
                    IN  /\ 0 <= c.beginUn /\ c.beginUn <= c.endUn + 1
                        /\ c.endUn < Len(unitList[r])
                        /\ c.last \in c.beginUn - 1 .. c.endUn + 1
  BY DEF RInv, InRanges, CmdsInRange
<1>1. workCmds[r] \in Seq(Spanning(units(r))) /\ unitList = InitList
  BY DEF RInv, InRanges, NoEdits
<1>2. workCmds[r][i] \in Spanning(units(r))
  BY <1>1
<1> QED
  BY <1>1, <1>2 DEF Spanning, RouteCmds, units

(* A route whose list has units and is not edited never indexes it out of  *)
(* range (InformFromUnit, SetCommand), for every list, every sequence of   *)
(* clicks, and answers in every order.                                     *)
THEOREM CommandsInRange ==
  ASSUME FixedLists, NoEmptyList PROVE Spec => []CmdsInRange
<1>1. Init => NoEdits /\ InRanges
  <2> SUFFICES ASSUME Init PROVE NoEdits /\ InRanges
    OBVIOUS
  <2>1. NoEdits
    BY DEF Init, UnitInit, NoEdits
  <2>2. InRanges
    BY DEF Init, InRanges
  <2> QED
    BY <2>1, <2>2
<1>2. IInv /\ NoEdits /\ InRanges /\ [Next]_vars => NoEdits' /\ InRanges'
  BY FixedNext, RangeNext DEF IInv, RInv
<1>3. IInv /\ NoEdits /\ InRanges => CmdsInRange
  BY RangeShown DEF IInv, RInv
<1>4. Spec => []IInv
  BY Inductive
<1> QED
  BY <1>1, <1>2, <1>3, <1>4, PTL DEF Spec
=============================================================================
