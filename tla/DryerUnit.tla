----------------------------- MODULE DryerUnit -----------------------------
(***************************************************************************)
(* The units a dryer switches: its cyclone fans, which are OneEngRouteUnit  *)
(* engines, and its burners, BurnerVSM_Kromy.  A unit is a record, and an   *)
(* operation of Unit is an operator from records to records:                *)
(*   curr, seted  _currentMode and _setedMode                               *)
(*   state        _currentState, which names the state of the engine        *)
(*   out          the start output is on                                    *)
(*   km           the contactor or relay, as its tag shows it               *)
(*   due          reported changes the unit has not looked at, up to MaxDue *)
(*   blocked, alarm   _blocked and _alarm                                   *)
(*   linked      its tags have a line to the plant                          *)
(*   connected   _sensorsConnected, which the unit has made of that         *)
(***************************************************************************)
EXTENDS Naturals

NoDef == "UnMdNoDef"

Modes == {"UnMdNoDef", "UnMdStop", "UnMdStart", "UnMdColling", "UnMdCollingStop"}

States == {"UnStStoped", "UnStStartCommand", "UnStStarted", "UnStStopCommand",
           "UnStManualStarted", "UnStNotConnected"}

MaxDue == 2

UnitRecord ==
  [curr : Modes, seted : Modes, state : States, out : BOOLEAN, km : BOOLEAN,
   due : 0 .. MaxDue, blocked : BOOLEAN, alarm : BOOLEAN, linked : BOOLEAN,
   connected : BOOLEAN]

isCurrOrSeted(r, modes) == r.curr \in modes \/ r.seted \in modes

(* A written output is reported at once, and again when it is read back;   *)
(* OutETag::setValue writes nothing while there is no line.                *)
Write(r, value) ==
  IF r.linked
  THEN [r EXCEPT !.out = value, !.due = IF value = r.out THEN @ ELSE MaxDue]
  ELSE r

(* Unit::setMode keeps the mode it was asked for only if the unit has      *)
(* answered DoneWhait.                                                     *)
waits(r) == r.seted # NoDef

(* EngRouteUnit::_customSetMode over ElectroEngine; it does not look at    *)
(* _blocked.                                                               *)
FanSetMode(r, m) ==
  CASE m = "UnMdStop" ->
         [Write(r, FALSE) EXCEPT !.seted =
             IF r.state = "UnStStoped" THEN NoDef ELSE m]
    [] m = "UnMdStart" /\ ~r.alarm /\ r.state = "UnStStoped" ->
         [Write(r, TRUE) EXCEPT !.seted = m]
    [] m = "UnMdStart" /\ ~r.alarm /\ r.state = "UnStStartCommand" ->
         [r EXCEPT !.seted = m]
    [] OTHER -> [r EXCEPT !.seted = NoDef]

(* Mutant: a burner has no case for the mode of a cooling dryer. *)
BurnerSetMode_NoColling(r, m) ==
  LET may == m = "UnMdStart" /\ r.connected /\ ~r.blocked /\ ~r.alarm
  IN  CASE may /\ r.state = "UnStStartCommand" -> [r EXCEPT !.seted = m]
        [] may /\ r.state \notin {"UnStStartCommand", "UnStStarted"} ->
             [Write(r, TRUE) EXCEPT !.seted = IF r.linked THEN m ELSE NoDef]
        [] m \in {"UnMdStop", "UnMdCollingStop"} /\ r.connected /\ r.out ->
             [Write(r, FALSE) EXCEPT !.seted = "UnMdCollingStop"]
        [] OTHER -> [r EXCEPT !.seted = NoDef]

(* BurnerVSM_Kromy::_customSetMode: every other mode puts the burner out.  *)
(* It takes no order while its sensors are not connected.  When the line   *)
(* is down and it has not noticed yet, a start is given up, while a stop   *)
(* is waited for although nothing was written.                             *)
BurnerSetMode(r, m) ==
  LET may == m = "UnMdStart" /\ r.connected /\ ~r.blocked /\ ~r.alarm
  IN  CASE may /\ r.state = "UnStStartCommand" -> [r EXCEPT !.seted = m]
        [] may /\ r.state \notin {"UnStStartCommand", "UnStStarted"} ->
             [Write(r, TRUE) EXCEPT !.seted = IF r.linked THEN m ELSE NoDef]
        [] m # "UnMdStart" /\ r.connected /\ r.out ->
             [Write(r, FALSE) EXCEPT !.seted = "UnMdCollingStop"]
        [] OTHER -> [r EXCEPT !.seted = NoDef]

(* CheckStateSTART1KM, and the like state of a burner, which has no manual *)
(* state and knows no more than its two tags.                              *)
stateOf(r, isFan) ==
  CASE r.out /\ r.km   -> "UnStStarted"
    [] r.out /\ ~r.km  -> "UnStStartCommand"
    [] ~r.out /\ ~r.km -> "UnStStoped"
    [] OTHER -> IF isFan /\ r.state \notin {"UnStStarted", "UnStStartCommand"}
                THEN "UnStManualStarted" ELSE "UnStStopCommand"

(* _updateStateAndMode sets a mode in these states; in the others the unit *)
(* is on its way and keeps the mode it had.  Without sensors it has none.  *)
settled == {"UnStStarted", "UnStStoped", "UnStManualStarted", "UnStNotConnected"}

(* Mutant: an engine running against its output tells a mode of a group. *)
modeOf_Part(state, isFan) ==
  CASE state = "UnStStarted" -> "UnMdStart"
    [] state = "UnStStoped"  -> IF isFan THEN "UnMdStop" ELSE "UnMdCollingStop"
    [] OTHER -> "UnMdPartStarted"

modeOf(state, isFan) ==
  CASE state = "UnStStarted" -> "UnMdStart"
    [] state = "UnStStoped"  -> IF isFan THEN "UnMdStop" ELSE "UnMdCollingStop"
    [] OTHER -> NoDef

(* CheckState and Unit::updateState: what a unit makes of its tags.  It    *)
(* tells no mode while they are not connected.                             *)
updateState(r, isFan) ==
  LET state == IF r.connected THEN stateOf(r, isFan) ELSE "UnStNotConnected"
      seen  == [r EXCEPT !.state = state, !.due = @ - 1]
  IN  IF state \in settled
      THEN [seen EXCEPT !.curr = modeOf(state, isFan), !.seted = NoDef]
      ELSE seen

=============================================================================
