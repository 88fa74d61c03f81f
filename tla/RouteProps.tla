----------------------------- MODULE RouteProps -----------------------------
(***************************************************************************)
(* Correctness of routes and units (module RouteInform).                   *)
(***************************************************************************)
EXTENDS RouteInform

CmdTypes == {"UpStepByStep", "DownStepByStep", "Parallel"}

RouteCmds == [name : RouteCommands, type : CmdTypes, workAftFin : BOOLEAN,
              beginUn : Int, endUn : Int, finCmd : BOOLEAN, good : BOOLEAN,
              last : Int, respCount : Nat]

Events == [ev : {"Inform"}, rt : Routes, un : Units, arg : RouteCommands]
          \cup [ev : {"Op"}, rt : Routes, un : {NoUnit}, arg : OpNames]
          \cup [ev : {"Add"}, rt : Routes, un : Units, arg : UnitModes]

HeldTypes ==
  /\ myRoute \in [Units -> Routes \cup {NoRoute}]
  /\ routeMode \in [Units -> UnitModes]
  /\ routeCommand \in [Units -> RouteCommands]

PlantTypes ==
  /\ mode \in [Units -> UnitModes]
  /\ eng \in [Units -> EngineStates]
  /\ out \in [Units -> BOOLEAN]
  /\ due \in [Units -> 0 .. MaxDue]
  /\ sensed \in [Units -> {"no", "mid", "yes"}]
  /\ alarm \in [Units -> BOOLEAN]
  /\ mayReset \in [Units -> BOOLEAN]
  /\ unheard \in [Units -> BOOLEAN]
  /\ disturb \in 0 .. MaxDisturb

QueueTypes ==
  /\ unitQ \in Seq(UnitCommands)
  /\ routeQ \in Seq(Events)

CommandTypes ==
  /\ workCmds \in [Routes -> Seq(RouteCmds)]
  /\ queueCmds \in [Routes -> Seq(RouteCmds)]
  /\ genCom \in [Routes -> Nat]
  /\ command \in [rt : Routes \cup {NoRoute}, ix : Nat]
  /\ pos \in Nat
  /\ fault \in BOOLEAN

ListTypes ==
  /\ unitList \in [Routes -> Seq(ListItems)]
  /\ allConnected \in [Routes -> BOOLEAN]
  /\ shown \in [Routes -> [st : BOOLEAN, str : BOOLEAN]]
  /\ ops \in 0 .. MaxOps
  /\ lastOp \in [Routes -> OpNames \cup {"none"}]

(* Types.  Among them: every answer in the queue of the routes thread is   *)
(* addressed to a route, that is, s_informToRoute is connected exactly as  *)
(* long as the unit is held (_ConnectUnit, DisconnectUnit).                *)
TypeOK == HeldTypes /\ PlantTypes /\ QueueTypes /\ CommandTypes /\ ListTypes

-----------------------------------------------------------------------------
(* Safety.                                                                 *)

working(r) == workCmds[r] # <<>>

main(r) == workCmds[r][genCom[r]]

(* _genCom is a pointer into _workCmds: through every clear, removal and   *)
(* replacement of commands it points at a command that is still there, and *)
(* it is null exactly when the route has nothing to do.  (route.cpp clears *)
(* _workCmds in seven places and resets _genCom in three.)                 *)
GenComLive ==
  \A r \in Routes : /\ genCom[r] \in 0 .. Len(workCmds[r])
                    /\ working(r) <=> genCom[r] # 0

(* No unit stays blocked for nothing: the route that holds it has it in    *)
(* its list and is at work, even when the operator edits the list between  *)
(* or during runs, or is just taking its units.  A unit held by an idle    *)
(* route could not be started by hand, nor taken by any other route.       *)
NoOrphanedUnit ==
  \A u \in Units : myRoute[u] # NoRoute =>
     /\ u \in unitsOf(myRoute[u])
     /\ working(myRoute[u]) \/ connecting(myRoute[u])

(* A route whose list is not edited never indexes it out of range: every   *)
(* command, as it shrinks, grows by answers out of order and spawns others *)
(* (SetCommand from InformFromUnit), spans units of the list, and its      *)
(* progress `last' stays within one unit of its span.                      *)
CmdsInRange ==
  /\ ~fault
  /\ \A r \in Routes : \A i \in DOMAIN workCmds[r] :
       LET c == workCmds[r][i]
       IN  /\ 0 <= c.beginUn /\ c.beginUn <= c.endUn + 1
           /\ c.endUn < Len(unitList[r])
           /\ c.last \in c.beginUn - 1 .. c.endUn + 1

(* An engine whose alarm was told has its start signal off, whatever the    *)
(* operator, the routes and late commands still in the queue ask for       *)
(* (_alarmDo, ElectroEngine::StartForward).  One that only a refused reset  *)
(* put into alarm may run on, as nobody was told (Unit::_resetAlarm); a     *)
(* noria keeps running when only its product sensor is in alarm.           *)
NoStartInAlarm ==
  \A u \in Units : Kind[u] = "engine" /\ alarm[u] /\ ~unheard[u] => ~out[u]

(* The route that a unit works for; what a route has taken before it gets  *)
(* to work does not count.                                                 *)
worksFor ==
  [u \in Units |-> IF myRoute[u] = NoRoute THEN NoRoute
                   ELSE IF working(myRoute[u]) THEN myRoute[u] ELSE NoRoute]

(* What routes promise about the units they share, for lists that are not  *)
(* edited: all units or none, and no unit in two routes at work.           *)
Reserved == INSTANCE Reservation WITH
  Needs <- [r \in Routes |-> {InitList[r][i].un : i \in DOMAIN InitList[r]}],
  owner <- worksFor,
  busy  <- [r \in Routes |-> workCmds[r] # <<>>]

(* Routes implement the reservation of units: SetCommand with              *)
(* _ConnectAllUnits takes them, the end of InformFromUnit with             *)
(* DisconnectAllUnit gives them back, and nothing else moves them; a route *)
(* that cannot have all of them leaves none taken, also when the units     *)
(* thread runs between.                                                    *)
Reserves == Reserved!Spec

-----------------------------------------------------------------------------
(* Order along the line.  An answer says neither which command nor which   *)
(* run it belongs to, so one that is still in a queue when the operator    *)
(* clicks again counts for the next run, and the order is lost.  What the  *)
(* code does guarantee is the order when the operator waits for the line   *)
(* to settle before the next click -- and, for a start, as long as nothing *)
(* disturbs it: an alarm downstream may meet a command already queued.     *)

settled ==
  /\ unitQ = <<>> /\ routeQ = <<>>
  /\ \A u \in Units : /\ due[u] = 0
                      /\ hasEngine(u) => (out[u] <=> sensed[u] = "yes")

PatientSpec == Init /\ [][Next /\ (ops' # ops => settled)]_vars

undisturbed == disturb = MaxDisturb

SwitchedOn(u)  == ~out[u] /\ out'[u]
SwitchedOff(u) == out[u] /\ ~out'[u]

(* In the list of the route that holds both, u comes before v.             *)
Upstream(r, u, v) ==
  /\ myRoute[u] = r /\ myRoute[v] = r
  /\ \E i, j \in DOMAIN unitList[r] :
       i < j /\ unitList[r][i].un = u /\ unitList[r][j].un = v

(* A line starts from its end: an engine that a command switches on has    *)
(* every engine downstream of it already on, so nothing is poured onto a   *)
(* conveyor that stands.                                                   *)
StartInOrder ==
  [][ commandFromRoute /\ undisturbed =>
        \A r \in Routes, u, v \in Units :
          /\ Upstream(r, u, v) /\ SwitchedOn(u)
          /\ hasEngine(v) /\ routeMode[v] = "UnMdStart"
          => out[v] ]_vars

(* A line that is told to stop stops from its beginning: an engine that is  *)
(* switched off for it has no engine upstream of it still on, whatever has *)
(* failed before and fails on the way.                                     *)
StopInOrder ==
  [][ commandFromRoute =>
        \A r \in Routes, u, v \in Units :
          /\ Upstream(r, u, v) /\ lastOp[r] \in {"Stop", "Freeze"}
          /\ hasEngine(u) /\ SwitchedOff(v)
          => ~out[u] ]_vars

(* A start that finished good has every engine of the line on.             *)
StartedRuns ==
  \A r \in Routes :
     /\ working(r)
     /\ main(r).name \in {"RtCmToRoute", "RtCmToRoutForClean"}
     /\ main(r).finCmd /\ main(r).good
     /\ undisturbed
     => \A u \in unitsOf(r) : hasEngine(u) /\ routeMode[u] = "UnMdStart" => out[u]

(* A unit that the start has passed runs, or the news that it does not is  *)
(* on its way: a tag the unit has yet to look at, or an answer that the    *)
(* route has yet to read.  No failure of a started unit goes unnoticed,    *)
(* but for a unit that a refused reset has put into alarm: a mode that does *)
(* not fit the command is not told in alarm (RouteUnit::_doOnModeChange),   *)
(* and of this alarm the route was not told either.                        *)
CoveredRuns ==
  \A r \in Routes : working(r) /\ main(r).name = "RtCmToRoute" =>
     \A i \in DOMAIN unitList[r] :
       LET u == unitList[r][i].un
       IN  /\ i - 1 \in main(r).last .. main(r).endUn
           /\ hasEngine(u) /\ routeMode[u] = "UnMdStart"
           => \/ out[u]
              \/ unheard[u]
              \/ sensed[u] = "yes"
              \/ due[u] > 0
              \/ \E k \in DOMAIN routeQ :
                   /\ routeQ[k].ev = "Inform" /\ routeQ[k].un = u
                   /\ routeQ[k].arg # "RtCmToRoute"

-----------------------------------------------------------------------------
(* What a comment says and the code does not do.                           *)

(* `Удаление выполненных команд': the removal loop of InformFromUnit       *)
(* removes commands that have finished.                                    *)
OnlyFinishedRemoved ==
  [][ RemoveCommand => \A i \in removable :
        workCmds'[rt] = RemoveAt(workCmds[rt], i) => workCmds[rt][i].finCmd ]_vars

-----------------------------------------------------------------------------
(* Liveness.  Qt's event loops hand every queued event to its handler, and *)
(* a contactor follows its start signal.  Nothing else is fair: neither    *)
(* the operator, nor alarms and their reset, nor the product.              *)

Fairness ==
  /\ WF_vars(RouteThread)
  /\ WF_vars(commandFromRoute /\ UNCHANGED routeVars)
  /\ \A u \in Units : /\ WF_vars(Observe(u) /\ UNCHANGED routeVars)
                      /\ WF_vars(Contactor(u) /\ UNCHANGED routeVars)

FairSpec == Spec /\ Fairness

Ends(op) ==
  \A r \in Routes : (lastOp[r] = op /\ working(r)) ~> ~(lastOp[r] = op /\ working(r))

(* A route that is told to stop ends and frees its units, unless it is     *)
(* told something else first: no answer it waits for is lost.              *)
StopEnds == Ends("Stop")

(* So does a route that is told to run clean and stop, or to freeze.       *)
ForcedEnds == Ends("CleanStop") /\ Ends("Freeze")

(* A start comes to its end, good or bad, unless another order overtakes   *)
(* it.                                                                     *)
StartEnds ==
  \A r \in Routes :
     (lastOp[r] = "Start" /\ working(r)) ~>
        ~(lastOp[r] = "Start" /\ working(r) /\ ~main(r).finCmd)

(* The unit asked next stands at a level the route does not want: it will   *)
(* answer when the product has risen or fallen.                            *)
awaitsLevel(r) ==
  \E u \in unitsOf(r) : /\ indexOf(r, u) - 1 = next(main(r))
                        /\ ~hasEngine(u)
                        /\ mode[u] # routeMode[u]

(* The command has no unit left that could answer it.  An answer left from *)
(* before the operator's last click gets a start to this point.            *)
emptied(r) == main(r).beginUn > main(r).endUn

(* The cycle of a bunker that asks for a change (run clean, stop clean,    *)
(* start again) goes through to its last command: the route hangs on the   *)
(* way only when a command failed, when it waits for the product, or when  *)
(* a command has lost all of its units.                                    *)
CycleServed ==
  \A r \in Routes :
     queueCmds[r] # <<>> ~>
        (queueCmds[r] # <<>> => \/ main(r).finCmd /\ ~main(r).good
                               \/ awaitsLevel(r)
                               \/ emptied(r))

=============================================================================
