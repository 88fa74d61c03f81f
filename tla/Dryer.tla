------------------------------- MODULE Dryer -------------------------------
(***************************************************************************)
(* A grain dryer, Dryer3VSM_Kromy: fans blow through it, burners heat the  *)
(* air, and a burner may only burn while every fan runs.  The dryer starts *)
(* and stops them one after the other, by timers and by the modes they     *)
(* report.  All units live in one thread; what a unit tells the dryer, and *)
(* what the operator asks of any of them, is an event of its queue, while  *)
(* timers expire whenever the loop gets to them.                           *)
(*                                                                         *)
(* The record d is the dryer: mode, seted and alarm are _currentMode,      *)
(* _setedMode and _alarm; cf and br the common modes _CFmode and _BrMode;   *)
(* startCF, startBr, stopBr and cooling the running timers; shotCF and     *)
(* shotBr the QTimer::singleShot calls under way, which no stop() reaches;  *)
(* loaded, that _bunker is above its lowest level; unit, the sub-units;     *)
(* order, the mode setMode was last asked for.                             *)
(*                                                                         *)
(* Sirens, temperatures with their PIDs, and the unload table are left out. *)
(***************************************************************************)
EXTENDS DryerUnit, Sequences, FiniteSets

CONSTANTS
  CFs,          \* the fans, in the order of the vector CFs
  Brs,          \* the burners, in the order of the vector Brs
  BlockedStop,  \* fans whose _blockedStop is set
  Handled,      \* sub-units whose own buttons the operator uses
  Lossy,        \* burners whose line to the plant may break
  Patient,      \* the delays are longer than the plant and the queue need
  MaxClicks,    \* bound on the buttons pressed
  MaxDisturb,   \* bound on the other steps plant and operator take at will
  MaxEvents     \* bound on the queue, for those who add to it

Elements(seq) == {seq[i] : i \in DOMAIN seq}
Fans     == Elements(CFs)
Burners  == Elements(Brs)
SubUnits == Fans \cup Burners

ASSUME DryerConstants ==
  /\ CFs \in Seq(Fans) /\ CFs # <<>>
  /\ Brs \in Seq(Burners) /\ Brs # <<>>
  /\ Fans \cap Burners = {}
  /\ BlockedStop \subseteq Fans /\ Handled \subseteq SubUnits
  /\ Lossy \subseteq Burners /\ Patient \in BOOLEAN
  /\ MaxClicks \in Nat /\ MaxDisturb \in Nat /\ MaxEvents \in Nat

VARIABLES
  d,        \* the dryer
  events,   \* event queue of the thread of the units
  clicks,   \* clicks left
  disturb   \* disturbing steps left

vars == <<d, events, clicks, disturb>>

CommonModes == Modes \cup {"UnMdPartStarted"}

Orders == {"UnMdStart", "UnMdStop", "UnMdColling", "UnMdCollingStop"}

Events == [ev : {"mode", "alarm", "start", "stop"}, arg : SubUnits]
          \cup [ev : {"setMode"}, arg : Orders]
          \cup [ev : {"bunker"}, arg : {"level"}]

-----------------------------------------------------------------------------
(* Orders to the sub-units.                                                *)

setSubMode(u, r, m) == IF u \in Fans THEN FanSetMode(r, m) ELSE BurnerSetMode(r, m)

(* _commandToSubUnitByType: m to those of us whose current or requested    *)
(* mode is one of targets.                                                 *)
command(s, us, m, targets) ==
  [s EXCEPT !.unit = [u \in SubUnits |->
     IF u \in us /\ isCurrOrSeted(s.unit[u], targets)
     THEN setSubMode(u, s.unit[u], m) ELSE s.unit[u]]]

(* Its answer is DoneWhait when that of one of them is.                    *)
anyWaits(s, us) == \E u \in us : waits(s.unit[u])

setBlocked(s, us, block) ==
  [s EXCEPT !.unit = [u \in SubUnits |->
     IF u \in us THEN [s.unit[u] EXCEPT !.blocked = block] ELSE s.unit[u]]]

(* _commonModeByType stops at the first unit whose mode is not that of the *)
(* first one.                                                              *)
commonMode(s, seq) ==
  LET curr(i) == s.unit[seq[i]].curr
      differs == {i \in DOMAIN seq : curr(i) # curr(1)}
      first   == CHOOSE i \in differs : \A j \in differs : i <= j
  IN  CASE differs = {} -> curr(1)
        [] differs # {} /\ "UnMdStart" \in {curr(1), curr(first)} -> "UnMdPartStarted"
        [] OTHER -> NoDef

(* The first unit of seq in us, if there is one, is ordered to start.      *)
startFirst(s, seq, us) ==
  LET next == {i \in DOMAIN seq : seq[i] \in us
                                  /\ \A j \in 1 .. (i - 1) : seq[j] \notin us}
  IN  [s EXCEPT !.unit = [u \in SubUnits |->
         IF \E i \in next : u = seq[i]
         THEN setSubMode(u, s.unit[u], "UnMdStart") ELSE s.unit[u]]]

_startCFbyTimer(s) ==
  startFirst(s, CFs, {u \in Fans : ~isCurrOrSeted(s.unit[u], {"UnMdStart"})})

_startBrByTimer(s) ==
  IF s.seted = "UnMdStart" /\ s.br # "UnMdStart" /\ ~s.alarm
  THEN startFirst(s, Brs, {u \in Burners : ~isCurrOrSeted(s.unit[u], {"UnMdStart"})})
  ELSE s

(* The burners a cooling dryer still has to put out.                       *)
toCool(s) ==
  {u \in Burners :
     LET r == s.unit[u]
     IN  \/ s.seted = "UnMdCollingStop" /\ ~isCurrOrSeted(r, {"UnMdCollingStop"})
         \/ /\ s.seted = "UnMdColling" /\ ~isCurrOrSeted(r, {"UnMdColling"})
            /\ \/ r.seted = "UnMdCollingStop"
               \/ isCurrOrSeted(r, {"UnMdStop", "UnMdStart"})}

(* It answers DoneWhait, whether or not its line carries the order.        *)
stopWaits(r) == r.connected /\ r.out

(* The loop breaks at the first burner that answers DoneWhait; those before *)
(* it have nothing to do, or take no order.                                *)
_stopBrByTimer(s) ==
  LET asked == {i \in DOMAIN Brs :
                  /\ Brs[i] \in toCool(s)
                  /\ \A j \in 1 .. (i - 1) :
                       ~(Brs[j] \in toCool(s) /\ stopWaits(s.unit[Brs[j]]))}
  IN  [s EXCEPT !.unit = [u \in SubUnits |->
         IF \E i \in asked : u = Brs[i]
         THEN BurnerSetMode(s.unit[u], s.seted) ELSE s.unit[u]]]

-----------------------------------------------------------------------------
(* Unit::setMode over _customSetMode.                                      *)

(* Mutant: _startCFDelay was never given to addTimer. *)
allTimerStop_Fans(s) == [s EXCEPT !.startBr = FALSE, !.cooling = FALSE]

allTimerStop(s) == [s EXCEPT !.startCF = FALSE, !.startBr = FALSE, !.cooling = FALSE]

noMode(s) == [s EXCEPT !.seted = NoDef]

setStart(s) ==
  CASE s.alarm \/ ~s.loaded   -> noMode(s)
    [] s.cf # "UnMdStart"     -> [s EXCEPT !.shotCF = @ + 1]
    [] s.br # "UnMdStart"     -> [s EXCEPT !.shotBr = @ + 1]
    [] OTHER                  -> noMode(s)

setStop(s) ==
  LET off == command(command(s, Burners, "UnMdStop", Modes), Fans, "UnMdStop", Modes)
  IN  IF anyWaits(off, Fans) THEN off ELSE noMode(off)

setCooling(s) ==
  CASE s.cf # "UnMdStart"         -> [s EXCEPT !.shotCF = @ + 1]
    [] s.br # "UnMdCollingStop"   -> _stopBrByTimer(s)
    [] OTHER -> [noMode(s) EXCEPT !.cooling = (s.seted = "UnMdCollingStop")]

setMode(s, m) ==
  LET asked == [allTimerStop(s) EXCEPT !.seted = m, !.order = m]
  IN  CASE m = "UnMdStart" -> setStart(asked)
        [] m = "UnMdStop"  -> setStop(asked)
        [] OTHER           -> setCooling(asked)

setCurrentMode(s, m) == [s EXCEPT !.mode = m, !.seted = NoDef]

-----------------------------------------------------------------------------
(* _updateStateAndMode, run when a common mode has changed.                *)

(* Every fan runs: the next burner is started or put out, and the dryer    *)
(* has reached its mode when the burners have.                             *)
withAir(s) ==
  LET b == CASE s.seted = "UnMdStart" /\ ~s.startBr /\ ~s.alarm -> _startBrByTimer(s)
             [] s.seted \in {"UnMdColling", "UnMdCollingStop"} /\ ~s.stopBr ->
                  _stopBrByTimer(s)
             [] OTHER -> s
      off == command(b, Fans, "UnMdStop", Modes)
  IN  CASE b.br = "UnMdCollingStop" /\ b.seted = "UnMdCollingStop" ->
             [b EXCEPT !.cooling = TRUE]
        [] b.br \in {"UnMdCollingStop", "UnMdColling"} /\ b.seted = "UnMdStop" ->
             IF anyWaits(off, Fans) THEN off ELSE setCurrentMode(off, "UnMdStop")
        [] b.br \in {"UnMdCollingStop", "UnMdColling"} /\ b.seted = "UnMdColling" ->
             setCurrentMode(b, "UnMdColling")
        [] b.br = "UnMdPartStarted" /\ b.seted = NoDef ->
             setCurrentMode([b EXCEPT !.cooling = FALSE], "UnMdStart")
        [] b.br = "UnMdStart" /\ b.seted = "UnMdStart" ->
             setCurrentMode([b EXCEPT !.cooling = FALSE], "UnMdStart")
        [] b.br \in {"UnMdPartStarted", "UnMdStart"} -> [b EXCEPT !.cooling = FALSE]
        [] OTHER -> b

(* Mutant: only burners that have reported their start are put out. *)
withoutAir_Current(s) ==
  LET t == [s EXCEPT !.startBr = FALSE]
      b == IF t.br \in {"UnMdPartStarted", "UnMdStart"}
           THEN [t EXCEPT !.unit = [u \in SubUnits |->
                   IF u \in Burners /\ t.unit[u].curr = "UnMdStart"
                   THEN BurnerSetMode(t.unit[u], "UnMdColling") ELSE t.unit[u]]]
           ELSE t
  IN  CASE b.cf = NoDef -> setCurrentMode(b, NoDef)
        [] b.cf = "UnMdStop" /\ b.br = "UnMdCollingStop" /\ ~b.cooling ->
             setCurrentMode(b, "UnMdCollingStop")
        [] OTHER -> b

(* A fan is missing: what burns is put out.                                *)
withoutAir(s) ==
  LET t == [s EXCEPT !.startBr = FALSE]
      b == IF t.br \in {"UnMdPartStarted", "UnMdStart"}
           THEN command(t, Burners, "UnMdColling", {"UnMdStart"}) ELSE t
  IN  CASE b.cf = NoDef -> setCurrentMode(b, NoDef)
        [] b.cf = "UnMdStop" /\ b.br = "UnMdStop" -> setCurrentMode(b, "UnMdStop")
        [] b.cf = "UnMdStop" /\ b.br = "UnMdCollingStop" /\ ~b.cooling ->
             setCurrentMode(b, "UnMdCollingStop")
        [] OTHER -> b

_updateStateAndMode(s) ==
  LET b == setBlocked(setBlocked(s, Fans, s.br \in {"UnMdStart", "UnMdPartStarted"}),
                      Burners, s.cf # "UnMdStart")
  IN  IF b.cf = "UnMdStart" THEN withAir(b) ELSE withoutAir(b)

(* _updateSubUnitMode: a sub-unit has told its mode.                       *)
Active == {"UnMdStart", "UnMdCollingStop", "UnMdColling"}

(* Mutant: the next fan waits for the whole common mode. *)
fanMode_Whole(s, u) ==
  LET curr == s.unit[u].curr
      cf   == commonMode(s, CFs)
      a    == IF curr # "UnMdStart" /\ s.seted \in Active /\ s.cooling
              THEN noMode(s) ELSE s
  IN  [a EXCEPT !.cf = cf,
                !.startCF = cf = "UnMdStart" /\ a.seted \in Active]

fanMode(s, u) ==
  LET curr == s.unit[u].curr
      cf   == commonMode(s, CFs)
      a    == IF curr # "UnMdStart" /\ s.seted \in Active /\ s.cooling
              THEN noMode(s) ELSE s
  IN  [a EXCEPT !.cf = cf,
                !.startCF = /\ cf \notin {"UnMdStart", "UnMdStop"}
                            /\ a.seted \in Active
                            /\ @ \/ curr = "UnMdStart"]

burnerMode(s, u) ==
  LET br == commonMode(s, Brs)
  IN  [s EXCEPT !.br = br,
                !.startBr = /\ br \notin {"UnMdStart", "UnMdColling"}
                            /\ s.cf = "UnMdStart"
                            /\ s.seted = "UnMdStart"
                            /\ @ \/ s.unit[u].curr \in {"UnMdColling", "UnMdStart"},
                !.stopBr = /\ br # "UnMdCollingStop"
                           /\ s.seted \in {"UnMdCollingStop", "UnMdColling"}]

(* Mutant: only a change of the fans is looked at. *)
_updateSubUnitMode_Fans(s, u) ==
  LET told == IF u \in Fans
              THEN IF s.unit[u].curr = s.cf THEN s ELSE fanMode(s, u)
              ELSE IF s.unit[u].curr = s.br THEN s ELSE burnerMode(s, u)
  IN  IF told.cf # s.cf THEN _updateStateAndMode(told) ELSE told

_updateSubUnitMode(s, u) ==
  LET told == IF u \in Fans
              THEN IF s.unit[u].curr = s.cf THEN s ELSE fanMode(s, u)
              ELSE IF s.unit[u].curr = s.br THEN s ELSE burnerMode(s, u)
  IN  IF <<told.cf, told.br>> # <<s.cf, s.br>> THEN _updateStateAndMode(told) ELSE told

-----------------------------------------------------------------------------
(* Other events.                                                           *)

(* _updateSubUnitState, of the bunker: no drying without grain.            *)
_updateSubUnitState(s) ==
  IF isCurrOrSeted([curr |-> s.mode, seted |-> s.seted], {"UnMdStart"}) /\ ~s.loaded
  THEN setMode(s, "UnMdColling") ELSE s

(* detectSubUnitAlarm and _alarmSubUnitDo *)
detectSubUnitAlarm(s) ==
  command([s EXCEPT !.alarm = TRUE, !.seted = NoDef],
          Burners, "UnMdColling", {"UnMdStart"})

(* detectAlarm and _alarmDo, for a tag of the dryer itself; button says    *)
(* that the emergency stop button _as is pressed.                          *)
detectAlarm(s, button) ==
  LET a == [s EXCEPT !.alarm = TRUE]
      b == IF button THEN setMode(a, "UnMdStop") ELSE a
  IN  IF isCurrOrSeted([curr |-> b.mode, seted |-> b.seted], {"UnMdStart"})
      THEN setMode(b, "UnMdColling") ELSE b

_coolingTimerEnd(s) ==
  IF s.br \in {"UnMdStop", "UnMdCollingStop"}
  THEN setBlocked(command(s, Fans, "UnMdStop", Modes), Fans, FALSE) ELSE s

(* The buttons of a sub-unit.  A blocked fan does not start, and does not  *)
(* stop if its _blockedStop is set.                                        *)
button(s, u, m) ==
  IF u \in Fans /\ s.unit[u].blocked /\ (m = "UnMdStart" \/ u \in BlockedStop)
  THEN s ELSE [s EXCEPT !.unit[u] = setSubMode(u, @, m)]

-----------------------------------------------------------------------------

DryerRecord ==
  [mode : Modes, seted : Modes, alarm : BOOLEAN, cf : CommonModes, br : CommonModes,
   startCF : BOOLEAN, startBr : BOOLEAN, stopBr : BOOLEAN, cooling : BOOLEAN,
   shotCF : Nat, shotBr : Nat, loaded : BOOLEAN, order : Modes,
   unit : [SubUnits -> UnitRecord]]

Handle(s, e) ==
  CASE e.ev = "mode"    -> _updateSubUnitMode(s, e.arg)
    [] e.ev = "alarm"   -> detectSubUnitAlarm(s)
    [] e.ev = "bunker"  -> _updateSubUnitState(s)
    [] e.ev = "setMode" -> setMode(s, e.arg)
    [] e.ev = "start"   -> button(s, e.arg, "UnMdStart")
    [] OTHER            -> button(s, e.arg, "UnMdStop")

HandleEvent ==
  /\ events # <<>>
  /\ events' = Tail(events)
  /\ d' = Handle(d, Head(events))
  /\ UNCHANGED <<clicks, disturb>>

Observe(u) ==
  LET r == updateState(d.unit[u], u \in Fans)
  IN  /\ d.unit[u].due > 0
      /\ r.state \in settled => Len(events) < MaxEvents
      /\ d' = [d EXCEPT !.unit[u] = r]
      /\ events' = IF r.state \in settled
                   THEN Append(events, [ev |-> "mode", arg |-> u]) ELSE events
      /\ UNCHANGED <<clicks, disturb>>

(* The state of a line is known to its unit, every contactor within reach  *)
(* has followed its output, and the thread has nothing to do.              *)
Quiet == /\ events = <<>>
         /\ \A u \in SubUnits :
              LET r == d.unit[u]
              IN  r.due = 0 /\ r.connected = r.linked /\ (r.linked => r.km = r.out)

Expire(running, s) ==
  /\ running
  /\ Patient => Quiet
  /\ d' = s
  /\ UNCHANGED <<events, clicks, disturb>>

StartCFDelay == Expire(d.startCF, _startCFbyTimer([d EXCEPT !.startCF = FALSE]))
StartBrDelay == Expire(d.startBr, _startBrByTimer([d EXCEPT !.startBr = FALSE]))
StopBrDelay  == Expire(d.stopBr, _stopBrByTimer([d EXCEPT !.stopBr = FALSE]))
CoolingTimer == Expire(d.cooling, _coolingTimerEnd([d EXCEPT !.cooling = FALSE]))
WarningCF    == Expire(d.shotCF > 0, _startCFbyTimer([d EXCEPT !.shotCF = @ - 1]))
WarningBr    == Expire(d.shotBr > 0, _startBrByTimer([d EXCEPT !.shotBr = @ - 1]))

-----------------------------------------------------------------------------
(* Plant and operator.                                                     *)

Post(e) ==
  /\ Len(events) < MaxEvents
  /\ events' = Append(events, e)

Disturb == disturb > 0 /\ disturb' = disturb - 1 /\ UNCHANGED clicks

Press(e) ==
  /\ clicks > 0 /\ clicks' = clicks - 1
  /\ Post(e)
  /\ UNCHANGED <<d, disturb>>

Click(m) == Press([ev |-> "setMode", arg |-> m])
UserButton(u, ev) == Press([ev |-> ev, arg |-> u])

report(r) == [r EXCEPT !.due = IF @ < MaxDue THEN @ + 1 ELSE @]

(* A contactor or relay follows the output, and its tag shows it.          *)
Contactor(u) ==
  /\ d.unit[u].linked
  /\ d.unit[u].km # d.unit[u].out
  /\ d' = [d EXCEPT !.unit[u] = report([d.unit[u] EXCEPT !.km = d.unit[u].out])]
  /\ UNCHANGED <<events, clicks, disturb>>

Rescan(u) ==
  /\ Disturb
  /\ d' = [d EXCEPT !.unit[u] = report(@)]
  /\ UNCHANGED events

(* detectAlarm of a sub-unit: RouteUnit::_alarmDo brings it to saveMode.   *)
Trip(u) ==
  /\ Disturb
  /\ Post([ev |-> "alarm", arg |-> u])
  /\ d' = [d EXCEPT !.unit[u] = setSubMode(u, [@ EXCEPT !.alarm = TRUE], "UnMdStop")]

OwnAlarm(pressed) == Disturb /\ d' = detectAlarm(d, pressed) /\ UNCHANGED events

Level ==
  /\ Disturb
  /\ Post([ev |-> "bunker", arg |-> "level"])
  /\ d' = [d EXCEPT !.loaded = ~@]

(* The line of a burner breaks, and comes back.  Its return is reported at *)
(* once if the unit never came to look at the loss.                        *)
LineBroken(u) ==
  /\ Disturb
  /\ d.unit[u].linked
  /\ d' = [d EXCEPT !.unit[u].linked = FALSE]
  /\ UNCHANGED events

LineBack(u) ==
  /\ ~d.unit[u].linked
  /\ Patient => Quiet
  /\ d' = [d EXCEPT !.unit[u] = LET back == [@ EXCEPT !.linked = TRUE]
                               IN  IF back.connected THEN report(back) ELSE back]
  /\ UNCHANGED <<events, clicks, disturb>>

(* Unit::_sensorConnect notices it.  The loss is an alarm, told once by the *)
(* unit and once by the tag; the order of _alarmDo is not taken any more.  *)
_sensorConnect(u) ==
  LET r == d.unit[u]
      lost == [r EXCEPT !.connected = FALSE, !.alarm = TRUE, !.seted = NoDef,
                        !.state = "UnStNotConnected", !.curr = NoDef]
      told == <<[ev |-> "alarm", arg |-> u], [ev |-> "mode", arg |-> u],
                [ev |-> "alarm", arg |-> u]>>
  IN  /\ r.connected # r.linked
      /\ r.connected => Len(events) < MaxEvents
      /\ d' = [d EXCEPT !.unit[u] =
                 report(IF r.connected THEN lost ELSE [r EXCEPT !.connected = TRUE])]
      /\ events' = IF r.connected THEN events \o told ELSE events
      /\ UNCHANGED <<clicks, disturb>>

(* The operator resets the alarms.  Afterwards those of stay are in alarm, *)
(* be it that theirs did not go or that a tag refused, which is told       *)
(* nobody; so is the dryer, or if one of its own tags refuses.  A unit     *)
(* without its sensors always refuses.                                     *)
resetAlarm(stay, own) ==
  /\ Disturb
  /\ \A u \in SubUnits \ stay : d.unit[u].connected
  /\ d' = [d EXCEPT !.alarm = (stay # {} \/ own),
                    !.unit = [u \in SubUnits |->
                       [d.unit[u] EXCEPT !.alarm = u \in stay]]]
  /\ UNCHANGED events

-----------------------------------------------------------------------------

(* The state after loading: nothing runs, and every sub-unit has told so.  *)
Init ==
  /\ d = [mode |-> "UnMdCollingStop", seted |-> NoDef, alarm |-> FALSE,
          cf |-> "UnMdStop", br |-> "UnMdCollingStop",
          startCF |-> FALSE, startBr |-> FALSE, stopBr |-> FALSE, cooling |-> FALSE,
          shotCF |-> 0, shotBr |-> 0, loaded |-> TRUE, order |-> NoDef,
          unit |-> [u \in SubUnits |->
            [curr |-> IF u \in Fans THEN "UnMdStop" ELSE "UnMdCollingStop",
             seted |-> NoDef, state |-> "UnStStoped", out |-> FALSE, km |-> FALSE,
             due |-> 0, blocked |-> u \in Burners, alarm |-> FALSE,
             linked |-> TRUE, connected |-> TRUE]]]
  /\ events = <<>>
  /\ clicks = MaxClicks
  /\ disturb = MaxDisturb

Thread == \/ HandleEvent
          \/ \E u \in SubUnits : Observe(u)
          \/ \E u \in Lossy : _sensorConnect(u)
Timers == \/ StartCFDelay \/ StartBrDelay \/ StopBrDelay \/ CoolingTimer
          \/ WarningCF \/ WarningBr
Plant  == \/ \E u \in SubUnits : Contactor(u) \/ Rescan(u) \/ Trip(u)
          \/ \E u \in Lossy : LineBroken(u) \/ LineBack(u)
User   == \/ \E m \in Orders : Click(m)
          \/ \E u \in Handled, ev \in {"start", "stop"} : UserButton(u, ev)
          \/ \E stay \in SUBSET SubUnits, own \in BOOLEAN : resetAlarm(stay, own)
          \/ \E pressed \in BOOLEAN : OwnAlarm(pressed)
          \/ Level

Next == Thread \/ Timers \/ Plant \/ User

Spec == Init /\ [][Next]_vars

=============================================================================
