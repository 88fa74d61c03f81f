# reSCADA: a verification project

reSCADA runs grain elevators, dryers and boilers. An operator builds a *route*
(a line of conveyors, norias, valves and silos), starts it and stops it, and the
program sends each unit of the line its command in turn and reacts to what the
units and their sensors report. This directory holds TLA+ models of that code,
the TLC runs that check them, and proofs checked by TLAPS.

## 1. The system

### Threads and queues

| thread | what lives there | created at |
|---|---|---|
| main | `PromObject`, the windows (QML) | `promobject.cpp:20` |
| "Units thread" | every `Unit` with its `ETag`s | `promobject.cpp:47` |
| "Route thread" | every `Route` | `promobject.cpp:51` |
| one per driver | `Driver`, its `Group`s and `Tag`s | `TSP/driver.cpp` |
| log | `Log` | `promobject.cpp:34` |

Objects of different threads talk by Qt signals: the call becomes an event in the
queue of the receiver's thread and is handled when the event loop gets to it, one
event at a time, in the order of the queue. There are few locks and few answers to
"has this been done": a command is obeyed when the unit says so by another event,
and that event does not say to which command, or to which run, it belongs. Some
calls go across threads directly (`RouteUnit::setMyRoute`, `currentMode`).

### Components

| component | state | operations | talks to |
|---|---|---|---|
| `Route` | list of units with their modes, commands at work and in the queue, pointer to the main command | Start, Stop, CleanStop, Freeze, AddUnit, DeleteLastUnit, CleanUnitList, InformFromUnit | units (commands), window |
| `RouteUnit` | the route that holds it, the mode it has in the route, the command it follows | commandFromRoute, setMyRoute, addInRoute, reactions to a mode change and an alarm | its route |
| `Unit` and subclasses | mode, state, alarm, connection, sub-units | setMode, updateState, detectAlarm, resetAlarm | tags, sub-units, window |
| `ElectroEngine` | engine state | StartForward, Stop, CheckState... | output and contactor tags |
| `ETag` and subclasses | value, imitation, alarm, timer | setValue, checkVal, needBe, resetAlarm | `Tag`, owner unit |
| `Tag`, `Group`, `Driver` | value, quality; task queue | write, update, read | PLC, `ETag` |
| `PromObject` | routes and units of the object | creates, deletes and dispatches | everything |
| `UnitGroup` | mode of a group | setMode, updateMode | units |
| `Log` | two buffers | Logging, bufferToDB | SQLite |
| dryers, burners, boilers, PID | a start/stop program each | a step per timer or sensor | their sub-units |

### What is hard here, and what makes each component correct

* **Routes.** A line must start from its end and stop from its beginning. A unit
  belongs to one route at a time, and is given back. Each run has to end. All of
  this depends on answers that arrive late, twice or for something else, on
  alarms at any time, on lists edited while a run is on, and on a pointer into a
  list that shrinks.
* **Units.** An alarm stops an engine, and a command queued before the alarm must
  not start it again. The alarm of a unit must follow those of its tags and
  sub-units.
* **Tags.** A sensor that has to change within a time raises an alarm if it does
  not, and only then; the timer races with the report. A written output has to
  come back from the driver.
* **Drivers.** Polling is a chain in which each shot or answer schedules the next, and
  it must survive everything that breaks. A write may be overtaken, overwritten or
  lost, and what the program believes of an output must come to agree with the controller.
* **Dryers.** A burner may burn only while every fan runs. The fans start one after the
  other and then the burners, and stop the other way round, by a chain of timers and
  reported modes; operator, alarms and an empty bunker cut in at any moment.
* **Log.** No line is lost between the two buffers.

`PROJECT.json` lists these hazards with their lines and with the properties that
cover them.

## 2. The modules

```
  Prom            enumerations (SCADAenums.h)
   |
  RouteUnit       units thread: commands, answers, engines, levels, alarms
   |
  Route           routes thread: the operator's operations, SetCommand
   |
  RouteInform     Route::InformFromUnit; Init, Next, Spec
   |
  RouteProps ---- Reservation (abstract: who holds which unit)
   |       \
  MCRoute   RouteProofs -- RouteSafety -- RouteWatch -- RouteOrder -- RouteStart   (proofs)

  InETag          an input tag: operators on its record
   |
  UnitAlarm       units thread: alarms and lines of units over tags, sub-units
   |
  AlarmProps ---- MCAlarm
   |
  AlarmProofs     (proofs)

  DryerUnit       a fan or a burner: operators on its record
   |
  Dryer           units thread: modes, timers, blocks, alarms of a dryer
   |
  DryerProps ---- MCDryer
   |
  DryerProofs     (proofs)

  ModBus          driver thread: tags, group, tasks, requests; the controller
   |
  OutETag         units thread: output tags; both threads composed
   |
  OutputProps --- MCOutput
   |
  OutputProofs    (proofs)
```

Routes and alarms meet in `detectAlarm`: what comes to the top in `UnitAlarm` is what
takes a unit of a route into alarm in `RouteUnit`, at any moment. They are not
composed: a route sees of a unit's tags nothing but that alarm. Outputs lie below all of
them: `Write` in `RouteUnit` and `DryerUnit` is `OutETag::setValue` as a unit sees it when
the line is good, reported once when it is set and once when it is read back. A dryer
gives its orders with `Unit::setMode`, without routes.

### RouteUnit

State: `myRoute`, `routeMode`, `routeCommand` (fields of `RouteUnit`), `mode`,
`alarm` (of `Unit`), `eng` (of `ElectroEngine`), `out` (the start output),
`sensed` (the contactor, or the level of a silos or bunker), `mayReset`
(`_mayResetAlarm` of the contactor's tag), `due` (reported
changes the unit has not looked at), and the event queues of the two threads,
`unitQ` and `routeQ`. `unheard` is a history variable: a refused reset has put the
unit into alarm, and no tag has told of an alarm since.

| action | code |
|---|---|
| `commandFromRoute` | `RouteUnit::commandFromRoute` with `setMode`, `_customSetMode`, `StartForward`/`Stop`, and the write of the output |
| `Observe` | a tag's report: `CheckStateSTART1KM`, then `updateState`, `_updateStateAndMode`, `_setCurrentMode`, `_doOnModeChange` |
| `detectAlarm`, `resetAlarm` | `Unit::detectAlarm` with `_alarmDo`; `Unit::_resetAlarm` |
| `UserSetMode` | the start and stop buttons of an engine |
| `Contactor`, `LevelChange`, `Rescan` | what drivers report: external |
| `Bounce` | the branch of `InETag::_checkVal` for a contactor that falls off within its set time |

`resetAlarm` counts the alarm anew, as `Unit::_resetAlarm` does (`unit.cpp:458-466`). A contactor that has
come on and fallen off again within its set time has raised no alarm, but has lost its permission
(`_mayResetAlarm`, `InETag.cpp:373`): it refuses the reset (`ETag.cpp:296`), and its unit comes into alarm
by the reset itself. `detectAlarm` ignores the empty text that comes with it (`unit.cpp:397`), so `_alarmDo` does not
run: the start output stays on, and the route hears nothing. The permission is back when the contactor has come on again, or
when the engine is off and looks at its tags.

Abstractions. The four kinds of units (`Kind`) stand for the classes that answer a
route differently. The tags are connected: the lines of a route's units do not break. `setMyRoute` is one atomic write of
the three fields. `CheckState` and `updateState` are one step: they are two
events of the same thread and nothing but the tags is read between them. A
rejection's reason is only logged. A value that is reported while two reports are
waiting (`MaxDue`) is merged with them: looking a third time at the same
tags changes nothing.
`UserSetMode` lets the operator stop an engine of a route when it is not in
`BlockedStop`, as `EngRouteUnit` does.

### Route

State: `unitList`, `workCmds`, `queueCmds`, `allConnected` are the fields of the
same names; `genCom` is the index of the command that `_genCom` points at, 0 for
null. `RouteCmd` lives in a `QList`, whose nodes do not move when it grows, so an
index that follows removals is what the pointer is. `shown` is what the window
last learned (`Show`), which is what its buttons are guarded by, and `ops` bounds
the clicks. `fault` is set by the first index out of range; the code's behaviour is
undefined from there on and the model stops.

`Click` puts an operation in the queue of the routes thread; `Start`, `Stop`,
`CleanStop`, `Freeze`, `DeleteLastUnit`, `CleanUnitList` and `AddUnit` are the
handlers. `SetCommand` is an operator, with `_ConnectAllUnits` inside: it takes the units that are
free, and when one belongs to another route it gives back those it took and those it held.

Under `Spec` the handler of an operation is one step. `SplitSpec` adds the loop of `_ConnectAllUnits` unit by unit:
while an operation is at the head of the queue and its route is not connected,
`ConnectNext` takes the next free unit of the list, and the units thread, other clicks and the window
run between; the rest of the handler, from the unit reached on, is then the step that follows, with the giving
back when another route has one of the units. The giving back is one step, as every release is. Units taken
for a command that waits in the queue (`NextQueued`) are taken in one step.

### RouteInform

`InformFromUnit` is a loop over the commands at work, a loop that removes some and an
ending. The units thread runs meanwhile, so each turn of either loop is a step
of its own, with `pos` the loop's index, while the event stays at the head of
`routeQ`. The branches are actions: `ScanOther` (the unit is out of the command's
range), `ScanParallel`, `ScanKept` and `Left...` (a unit already passed),
`NextDone`, `NextFailed`, `ScanFar` (a unit ahead), `RemoveCommand`, and
`RouteDone`, `NextQueued`, `StillWorking`.

`command` is the function's static pointer: the removal loop reads
`command->finCmd` whatever command it is about to remove, so the pointer is kept
from call to call, and once its target is freed the flag is any Boolean
(`finCmdRead`).

Never created by the code, and so not in the model: a parallel `RtCmToRoute`, a
step-by-step `RtCmStop`, `RtCmClearCmList`. `ascCount`, `done()` and the timer
of `Route` have no effect. `DelUnit` has no caller.

### Reservation

The abstract specification: a route takes all of its units in one step when all
are free, keeps exactly those, and gives all back in one step. Routes implement
it under `owner <- worksFor`, `busy <- workCmds # <<>>`: a unit belongs to the route that holds it and is at
work, so that what a route has taken before it has all does not count.

### InETag and UnitAlarm

State: `tag`, the record of each input tag (`InETag` with `ETag`); `chDt`, the static
byte of `InETag::_checkVal`; `quality`, whether the driver reads the tag;
`alarm` and `lost`, which are `_alarm` and `_alarmConnection` of each unit; `evQ`,
the queue of the units thread; `left`, which bounds what is asked. `InETag` has
one operator for each function of a tag, from record to record, and
beside it operators for what the call signals (`raises`, `atOnce`, `overdue`,
`refuses`). `UnitAlarm` joins the record and the signals in one step
(`Signalled`), since the slots of the unit are called directly.

| action | code |
|---|---|
| `_acceptValue` | `ETag::_acceptValue`, `InETag::_checkVal` |
| `NeedBe`, `OnlyChange` | `InETag::needBe`, `onlyChange`: what a unit requires of a tag |
| `writeImitOn`, `writeImitOff`, `writeImitVal`, `setDetectLevel`, `writeIgnorAlarm` | the operator's slots of the same names, with `_checkVal` and `Unit::_sensorConnect` |
| `ResetAlarm` | `Unit::_resetAlarm`, into the sub-units and back out through `subUnTagAlarmReseted` |
| `SetTimerFires`, `SetTimerEnd` | the timeout, and `_setTimerEnd` when the queued event is handled |
| `QualityChange`, `LineBack`, `LineBroken` | the driver, and `_qualityChangedSlot` later |
| `detectSubUnitAlarm` | the queued `s_alarmForAnderUnit` in the unit above |

Abstractions. Values and requests are handled in the step in which they come: nothing
of them is read before their turn, so one that waits is one that comes later.
What is decided at one time and handled at another stays in the queue: timer
ends, quality, alarms of sub-units. There are two levels of units, as the plants have
them. All tags are known to the server and read once (`_firstLoad` is over).
`_alarmDo` is what `RouteUnit` models for engines and is empty here, as are
`_resetAlarmDo` and the subclasses' alarms of their own (`upClassAlarm`). Pulse mode,
`_timeMax` and changed timer intervals are left out.

### DryerUnit and Dryer

State: the record `d`, with the dryer's own fields (`mode`, `seted`, `alarm`), the common
modes `cf` and `br` (`_CFmode`, `_BrMode`), the timers, the single shots under way
(`shotCF`, `shotBr`), whether the bunker is loaded, the last order, and the record of each
sub-unit; `events`, the queue of the units thread; `clicks` and `disturb` bound the operator
and the plant. Everything of a dryer happens in one thread, so every function is an
operator from record to record, and the code's calls are compositions of them: a
handler is one step with all the `setMode` calls it makes.

| action | code |
|---|---|
| `HandleEvent` | the queued slots: `_updateSubUnitMode` with `_updateStateAndMode`; `detectSubUnitAlarm` with `_alarmSubUnitDo`; `_updateSubUnitState` for the bunker; `setMode` of the window's buttons; the buttons of a sub-unit |
| `Observe` | a sub-unit looks at its tags (`CheckState`, `updateState`) and tells its mode |
| `StartCFDelay`, `StartBrDelay`, `StopBrDelay`, `CoolingTimer` | the timeouts of the four timers |
| `WarningCF`, `WarningBr` | `QTimer::singleShot` called through a timer object: the end of the warning before a start |
| `OwnAlarm` | `detectAlarm` of a tag of the dryer, with `_alarmDo`; the emergency button |
| `Trip`, `resetAlarm`, `Level` | alarms of sub-units, the operator's reset, the bunker |
| `LineBroken`, `LineBack` | the line of a burner breaks and comes back (`ETag::_qualityChangedSlot`) |
| `_sensorConnect` | `Unit::_sensorConnect` of a burner: it notices either |
| `Contactor`, `Rescan` | what drivers report: external |

Abstractions. The states of the dryer itself only drive its window and are left out, as are
sirens, PIDs, the humidity and the unload table: nothing of them is read by what is modelled.
`CoolingTimer` and the delays have no length: they expire at any moment, or, when
`Patient`, not before the plant has settled. `_updateSubUnitState` has a branch for burners
that is never reached: `BurnerVSM_Kromy::_setCurrentState` assigns `_currentState` before
it calls the base class, which then sees no change and tells no one; the model leaves it
out, and `FireNeedsAir` shows what is left of its purpose.
`_setSetedMode(UnMdCollingStop)` in a burner's stop is what `setMode` keeps while it waits.

Lines. The lines of the burners in `Lossy` break at any moment. From then on an order writes nothing: a start is given
up (`BurnerVSM_Kromy.cpp:127`), a stop is answered as if it were under way (`:141`). When the unit notices
(`_sensorConnect`) it comes into alarm, which the dryer is told, has no mode, takes no order (`:109`) and refuses every
reset; when the line is back it looks at its tags again. With `Patient` a line does not come back before the loss
is noticed and everything that follows from it is done. The lines of the fans and of the dryer's own tags hold.

`resetAlarm` counts the alarms anew (`unit.cpp:458-466`): whichever units have a tag that refuses are in alarm
afterwards, were they before or not, and so is the dryer, or if a tag of its own refuses. Nobody is told.

### ModBus and OutETag

State: the record `drv`, the driver with its group, tags, task list, requests, connection, and
the two queues (`posted` into the driver's thread, `told` out of it), with the registers `plc` of
the controller; `etag`, the record of each output tag; `sets` and `disturb`, the bounds.

| action | code |
|---|---|
| `SetValue` | `OutETag::setValue` in the units thread, with `Tag::writeValue`, which it calls across threads |
| `_acceptValue`, `_qualityChangedSlot`, `_setTimerEnd` | the queued slots of the same names |
| `SetTimer` | the timeout of `_setTimer`: its slot is queued, and `stop()` does not take it back |
| `writeImit`, `writeImitVal` | the operator's imitation |
| `HandleNextTask` | a 1 ms shot: `handleNextTask` with `getTask`, or `read`/`write` up to the request that is sent |
| `HandlePosted` | `createWriteTask`, `connect`, `disconnect` from the driver's queue |
| `Reply` | a request that is finished: the lambdas of `read` and `write` |
| `RequestFails`, `LinkBreaks` | the error branches of the same lambdas, for one request or for all |
| `Serve`, `Delay`, `LinkUp`, `PlantSets` | the controller, time, the line: external |

Abstractions. A driver has one group. The addresses are abstracted to `Ranges`, the read tasks
that `getTask` makes of the group. A connection is off, being made or there; what
`connectDevice` returns is any of them. Conversions and limits of values, pulses, saved
values and alarms of outputs are left out; a broadcast, whose request is finished when it is
sent, too.

## 3. What the runs check

The runs of routes use one route (`shared`: two) of two or three units, and bound the
operator's clicks (`MaxOps`) and the steps that plant and operator take at will
(`MaxDisturb`). No run checks deadlock: with the clicks used up and the line
settled, the model stops as it should. In `alarms`, one tag
has a timer and the other has none but resets itself, one is high and one low, and
the line resets itself while the engine does not; four steps of drivers, program and
operator, with any number of steps of timers and event loop between them, suffice to
require a state, lose it, reset or ignore it and require it anew.

| run | plant, bounds | shows |
|---|---|---|
| `patient` | engine, noria, silos; 2 clicks, 1 disturbance | `StartedRuns`, `CoveredRuns`, `StartInOrder`, `StopInOrder` |
| `edit` | engine, dryer bunker, list edited; 2 clicks, 1 disturbance | `TypeOK`, `NoStartInAlarm`, `GenComLive`, `NoOrphanedUnit` |
| `shared` | two routes with a common noria, units taken one by one (`SplitSpec`); 2 clicks | `NoOrphanedUnit`, `Reserves` (refinement) |
| `live` | engine, noria; 2 clicks | `StopEnds`, `ForcedEnds`, `StartEnds` |
| `cycle` | silos, bunker; 3 clicks, 1 disturbance | `CycleServed`, `StopEnds`, `CmdsInRange` |
| `removed` | engine, silos, 1 disturbance | finds `OnlyFinishedRemoved` violated |
| `alarms` | a line with a level sensor, an engine with a contactor; 4 steps | `AlarmTypeOK`, `AlarmKnown`, `WatchKept`, `NoticedInTime`, `AlarmArrives` |
| `told` | the same; 3 steps | finds `ToldAll` violated |
| `dryer` | two fans, two burners, the buttons of a fan, timers of any length; 2 clicks | `DryerTypeOK`, `BlocksFollow`, `BurnersGuarded`, `StopHolds` |
| `dryer_live` | two fans, a burner whose line may break, long delays; 2 clicks, 1 disturbance | `OrdersEnd`, `FireNeedsAir` |
| `interlock` | a fan, two burners, the buttons of all; 4 clicks | finds `BurnersGuarded` violated |
| `output` | one output, two values; 2 settings, 1 disturbance | `OutputTypeOK`, `PollingGoesOn`, `TasksBounded`, `BeliefFollows`, `DemandServed`, `BeliefReal` |

Why the bounds are enough to be interesting. Two units make an order; the third
gives a command a beginning, a middle and an end. Two clicks let any operation
overtake any other with its answers in every queue; three, in `cycle`, let a second
run meet what the first has left (`patient` passes with three too, in some three minutes, and `cycle` with four, in eight). One disturbance makes a unit fail at every
point of every operation, which spawns a command, shrinks a span or ends a run.

Two fans and two burners are what makes "the next one" and a partial mode; two clicks with
timers that may expire at any moment let an order overtake the timers and the answers of
the one before. `dryer` has no disturbance, since its properties are proved for any number of
them (section 4); `dryer_live` has one. The queue is bounded by `MaxEvents` for
those who add to it: a sub-unit that waits to tell its mode tells the same a moment later.

One output is enough for `output`: tags share only the task list and the line, and what they share is
proved for any number of tags. Two settings overtake each other on their way;
one disturbance is a broken line, a failed request, a reconnection, an imitation or a register set by the
controller, at any moment.

`PatientSpec`. An answer carries neither command nor run. A click while answers
are on their way therefore lets an old answer count for the new run:
the route believes that a unit runs which does not, and starts the unit
before it. `StartInOrder`, `StartedRuns`, `StopInOrder` and `CoveredRuns` are not
true of such histories, nor are `StartInOrder` and `StartedRuns` when an alarm downstream
meets a start command already queued upstream. They are checked for an operator who
clicks when the line has settled, and the two about starts as long as nothing has
disturbed the line. What the code guarantees whatever the operator does is checked
under `Spec`.

`StopInOrder` speaks of lines told to stop or to freeze only. When a unit fails in a clean run,
`LeftForClean` stops the units from the one started last (`route.cpp:222`), so that the engine upstream that has just been told to start
keeps running over those that stop; in a start the failure of the unit reached last stops nothing upstream (`route.cpp:262`), and a running noria answers that stop
by running on (`Noria.cpp:33`).

Also not true, and so not stated: after a stop the line is off. A second report of
a contactor that has not opened yet makes an engine look manually started
(`electroengine.cpp:225`); it then refuses the stop, and the route ends with
the rest of the line running and free. A clean stop does not stop engines either: none
accepts `UnMdCleanStop` (`EngRouteUnit.cpp:25`), so that the route ends and
releases them running, and for the same reason `cycle` checks a bunker fed
by a silos. And a late answer to an earlier command counts as refusal
of the present one (`route.cpp:311`): the run ends, the units are released, and
the command is handled afterwards.

Nor does the cycle of a bunker always go through. A command may fail, and the product may never rise or fall to the level
that the next unit waits for (`awaitsLevel`). And a second start clicked while answers
are under way, with the bunker's level changing, can be cut down to the bunker alone by a stale answer
(`route.cpp:311`); the clean run it then asks for ends at `unitN - 1`, before its beginning
(`route.cpp:254`), no answer falls inside it, and the commands queued behind it wait
for ever. That takes three clicks. `CycleServed` says that these are the only ways in which the cycle stops:
it excepts the command whose end lies before its beginning (`emptied`), and `cycle` has the three clicks.

Also not true: an engine in alarm is off. One that a refused reset has put into alarm (see RouteUnit) runs on, and as
a mode that does not fit the command is not reported in alarm (`RouteUnit.cpp:142`), a later stop of it by its button
goes unnoticed by the route. `NoStartInAlarm` and `CoveredRuns` except just that unit, by `unheard`; that no
start command switches such an engine on is in `canStart`.

Of the alarms, not true and so not stated:
* *A refused state cannot be reset away.* An alarm raised by the timer can be reset while the
  state is still missing, since `needBe` has left `_mayResetAlarm` set; and a tag
  that resets itself clears it at the next look at any value. This is why `WatchKept`
  excepts resets and such tags.
* *Only an alarm mode alarms.* `_setTimerEnd` does not ask `_alarmOn`.
* *The timer counts from the last request.* The queued end of an earlier timer raises
  the alarm of the new request early, and stops its timer.
* *What was ignored comes back.* When ignoring stops, an alarm returns only if it
  was up before; one that was ignored as it arose does not.
* *A unit in alarm has told the one above.* A reset of a unit whose tag refuses
  without an alarm puts the unit into alarm silently.

Of the dryer, not true and so not stated:
* *A stop that is answered was given.* A stop ordered while the line of a burner is down and the unit has not noticed
  writes nothing and is answered `DoneWhait`. `FireNeedsAir` says that the burner is put out nevertheless once the line is back:
  the burner then tells its mode anew, the common mode changes, and the interlock finds it. It needs a line that stays
  down until the loss is noticed (`Patient`): after a shorter break nothing has been noticed and the burner burns on,
  without air, which TLC finds at once if `LineBack` is let go early.
* *A stop stays a stop.* The warning siren howls for a while before the first fan starts, and its
  end is a static `QTimer::singleShot` (`Dryer3VSM_Kromy.cpp:599`) that the stop does not take back:
  `StopHolds` excepts it by `shotCF = 0`, and so says nothing of a stop while the siren howls; what it shows is that
  the delays between fans and between burners, the cooling timer and what is still reported switch nothing on after a stop.
* *An order that was accepted ends in its mode.* `OrdersEnd` says that it ends: an alarm, an empty
  bunker or a fan that stops drops it. If a delay is shorter than a contactor takes, the chain
  of timers can break off and an order to cool stays for ever; `dryer_live` assumes that the delays are
  longer (`Patient`), as the operator sets them. A stop that arrives while a fan starts is
  never confirmed either, so `OrdersEnd` leaves stops out.
* *The emergency button stops the dryer.* `_alarmDo` orders a stop, and the next line, which finds the
  dryer still in `UnMdStart`, orders it to cool (`Dryer3VSM_Kromy.cpp:657-661`).
* *An alarm stops the chain of fans.* It drops the order but not `_startCFDelay`.
* *The common mode of three units is that of the three.* `_commonModeByType` compares with the
  first unit and returns at the first that differs: stopped, unknown, started gives
  `UnMdNoDef` and not `UnMdPartStarted`.

Of outputs, not true and so not stated:
* *What a unit asks for gets to the controller.* An output that is set without a connection is only
  remembered: the line that would write it afterwards is commented out
  (`OutETag.cpp:302`). `DemandServed` speaks of a demand that was written and whose timer
  runs.
* *The timer is that of the demand.* The queued end of an earlier timer comes while the driver has
  reported the later demand, which it does before the controller has it (`modbus.cpp:341`); nothing asks
  again then. `output` assumes timers that outlast the way of a value (`Patient`).
* *A write that fails is over.* Without a connection `write` ends before `readyFiller`
  (`modbus.cpp:300`), and the tag goes on as if a write were under way.

### Fairness

`FairSpec` asks for weak fairness of the two event loops and of the contactors:
Qt hands every queued event to its handler, the drivers report what they read,
and a contactor follows its signal. Nothing is asked of the operator, of alarms and
their reset, or of the product's level. Under it every operation ends, and every
answer that a route waits for comes.

`FairAlarms` asks for weak fairness of the event loop and of each running timer: a
`QTimer` that is not stopped fires. Nothing is asked of drivers, programs or the operator.

`FairSpec` of `DryerProps` asks for weak fairness of the event loop, stated as the queue losing its first event,
of the looks that units take at their tags and at their lines, of the running timers together and of the contactors. Nothing
is asked of a broken line: it may stay so, and `FireNeedsAir` excepts a burner out of reach. Of the
timers one at a time is enough: one that expires does not keep another from
expiring for ever, as it has to be started again by an answer.

`FairSpec` of `OutputProps` asks for weak fairness of the two event loops, of shots and timers, of the
controller, which serves what it was asked, of the delay of the group and of a connection that
is being made, which comes to an end, be it failure. Nothing is asked of units, faults or the operator.

### Findings

* `removed`: the loop that removes finished commands (`route.cpp:357`) tests the
  flag of another command, the last one addressed.
* `told`: the static `ChDt` of `_checkVal` (`InETag.cpp:349`) is set to 1 when the value
  has changed and otherwise keeps what the last call, of whatever tag, has left. A
  turn that comes without a new value (the detect level is moved, imitation is switched on)
  then makes it 4 or 5, and no `s_detected` or `s_undetected` goes out: whoever acts on
  the signal does not learn of the turn.
* `interlock`: the interlock of the dryer (`Dryer3VSM_Kromy.cpp:860`) runs when a common mode changes, and tells to cool
  those burners whose current or requested mode is `UnMdStart` at that moment. Two burners are on and wait for
  their relays; the fan is stopped by its button. The dryer blocks the burners, but does not
  put them out, as its common mode of burners is still "stopped". The start button of a burner is pressed
  again: blocked, it refuses, and the refusal clears its requested mode. Then both relays
  answer. The first report makes a partial mode, and the command that follows puts out whom it
  addresses; the other burner is addressed by nothing, and burns without air. The proof of `DryerGuarded`
  shows that this needs the burners' own buttons.

Also seen while modelling, and listed as hazards where they bite: `AddUnit` (`route.cpp:618`) leaves
`_allUnitsConnected` set, against its comment (`route.h:31`), so that a unit added to a route at work takes commands
without being held; `_correctByLimits` tests the upper limit for both limits (`OutETag.cpp:431`); the
Simatic driver never polls again after a disconnection during a shot (`simatic.cpp:645`).

## 4. What is proved

For every set of routes and units, every kind of unit, every list and every
bound (modules `RouteProofs`, `RouteSafety`, `RouteWatch`, `RouteOrder`, `RouteStart`; for tags and units of any
number, `AlarmProofs`; for any number of fans and burners, `DryerProofs`; for any set of tags and
read tasks, `OutputProofs`):

| theorem | statement |
|---|---|
| `TypeCorrect` | `Spec => []TypeOK` |
| `MainCommandLive` | `Spec => []GenComLive` |
| `NoUnitOrphaned` | `Spec => []NoOrphanedUnit` |
| `AlarmKeepsOff` | `Spec => []NoStartInAlarm` |
| `RoutesReserve` | `FixedLists` implies `Spec => Reserves` |
| `CommandsInRange` | `FixedLists` and `NoEmptyList` imply `Spec => []CmdsInRange` |
| `StartsWatched` | `FixedLists`, `NoEmptyList` and `DistinctLists` imply `PatientSpec => []CoveredRuns` |
| `StopsInOrder` | `FixedLists`, `NoEmptyList` and `DistinctLists` imply `PatientSpec => StopInOrder` |
| `StartsInOrder` | `FixedLists`, `NoEmptyList` and `DistinctLists` imply `PatientSpec => StartInOrder` |
| `StartsRun` | `FixedLists`, `NoEmptyList`, `DistinctLists` and `ListsAgree` imply `PatientSpec => []StartedRuns` |
| `AlarmTypeCorrect` | `Spec => []AlarmTypeOK` |
| `AlarmsAreKnown` | `Spec => []AlarmKnown` |
| `WatchHolds` | `Spec => WatchKept` |
| `DryerTypes` | `Spec => []DryerTypeOK` |
| `DryerBlocks` | `Spec => []BlocksFollow` |
| `DryerStops` | `Spec => StopHolds` |
| `DryerGuarded` | `Handled \cap Burners = {}` and `Lossy = {}` imply `Spec => []BurnersGuarded` |
| `OutputTypes` | `Spec => []OutputTypeOK` |
| `OutputPolled` | `Spec => []PollingGoesOn` |
| `OutputTasks` | `Spec => []TasksBounded` |
| `OutputBelieved` | `Spec => []BeliefFollows` |

The constants are assumed to be what `UnitConstants` and `RouteConstants` say: the
null route is no route, kinds and lists are well typed; and what `AlarmConstants` says: each
tag has a unit, and a unit above has none above it. `DryerConstants` says that a dryer has a fan and a burner
and that none is both; `ModBusConstants` that the read tasks are disjoint, not empty, and cover
the group, as the loop of `getTask` makes them.

*Types.* `TypeOK` is inductive. The step that is not immediate is that an answer
in `routeQ` always names a route: a unit speaks only when it is held. Each handler has
a lemma, and those of `InformFromUnit` rest on one about `SetCommand`.

*Safety.* The inductive invariant is `IInv = TypeOK /\ Safe`, where `Safe` joins
`GenComLive` and `AtWork`, which is `NoOrphanedUnit` without its exception for a route that is taking its units: between
two handlers of `Spec` there is none. `GenComLive` is inductive with
types alone. `AtWork` needs it: a route releases its units when its main
command ends and none is left, so that "has a main command" and "has commands"
must be the same thing. `NoStartInAlarm` needs only the units thread, and is inductive with the types alone: the
reset that is refused is the one step that leaves an engine in alarm on, and it marks the unit (`unheard`).

*Refinement.* `FixedLists` says that the operator cannot edit the lists. Then no list changes, no edit event is
ever queued, and the units that a route at work holds are exactly those of its
list (`Owned`). With it each step of `Spec` either changes no owner and no busy
flag, or is `Take` or `GiveBack` of one route. The step that matters is a
`SetCommand` that fails to connect: it releases what it held, and is shown to
happen only to an idle route. The proof is about `Plain`, the reservation with the holders themselves for owners; as every
holder is at work between handlers (`AtWork`), they are the owners of `Reserves`. What happens between the takings of
one handler is left to `shared`.

*Range.* `CmdsInRange` says little of the commands that wait, so `RInv` adds what they will
become: a command at work is in `Spanning` its list, with its progress within its span, and one that waits in
`Askable`, where -1 is an end still open. Connecting resolves the open ends (`ResolvedSpan`), which takes a unit
in the list (`NoEmptyList`: a command on an empty list addresses a unit that is not there, `route.cpp:131`). A unit that fails
cuts the span, and a command for cleaning starts, when a unit fails, a stop from its progress to the unit before the
failed one: that this is a span of the list needs that such commands go down the line (`CleanDown`).

*Confirmations.* `CoveredRuns` says that the route's belief in a start is never stale without the news being on
its way. It needs an invariant over both threads, `WInv`. Its core is that a confirmation in the queue is `Sound`: its
engine is `fit` (it shows some life, being switched on, with its contactor on or with a tag to look at, and is not in alarm; or it was put into
alarm unheard, which the theorem excepts), or a later answer in the
queue takes the confirmation back (`Followed`). The units thread keeps this because a unit whose
life ends says so in the same step (`UnitStep`): it looks at its last tag and answers, or it
comes into alarm and answers. The routes thread keeps it because a scan only removes
the answer it has read, the first one; and `Watched` says the same of the units that the start has passed, of the
answers the scan has yet to read. What is left is where the patience of the operator counts: a click is handled first
(`OpFirst`) by a route with no old answer in the queue (`FreshStart`), so that no confirmation of an
earlier run is met by a new one. Starts go down the line from its end (`ForwardCmds`), which makes the unit that a
confirmation adds the one that has just spoken (`DistinctLists`: `AddUnit` takes no unit twice).
An engine in alarm refuses the start (`AlarmRefuses`), and one that shows no life has seen that it
stands (`UnitsRest`), so that it cannot confirm by accident.

*Stops.* `StopInOrder` is about the step in which an engine goes off, so its invariant, `HInv`, is about the orders on
their way there. While a route is at work because it was told to stop, every order in `unitQ` to a unit of its list
is a stop, and every engine upstream of the unit addressed is off or has a stop before it in the
queue (`StopsFollow`): this covers both the stop one by one and the stop of all at once, where the queue itself is what
keeps the order. It holds at first because a click finds no orders on their way (`ClickQuiet`; this is what
the patience is for: the orders of a start still in the queue would switch an engine on again behind the stop). It goes on
because the stop sends to the next unit only after the last one has confirmed, and to one it has passed
only if that one fails (`PassedOff`), and because a confirmation comes from an engine that is off
(`StopsConfirmed`) and that follows its stop (`Obeyed`); an engine that is off while stops are all that is
on its way stays off (`StaysOff`), alarms and buttons of units notwithstanding. That the route sends nothing else needs that a
stop is its only command (`Alone`), so that nothing queued and nothing that fails starts another. Of the
other routes, `RouteStep` says that they order units of their own only (`Owned`).

*Starts.* A start hands one order from unit to unit, from the end of the line to its beginning, and `StartInOrder` is
about the step in which an engine takes it. Its invariant, `BInv`, is about that order (`InLine`): the units behind it
have confirmed and stay as the start wants them (`BehindSteady`), the units ahead of it rest
(`AheadRests`), the order goes to the unit between them and nowhere else (`OrdersNext`), and every answer in the
queue is true of the unit as it is now (`AnswersTrue`), although it names no run. The last two keep
each other: a unit gets one order, at rest and with no answer of it on the way, so that what it answers is what it
does; and it moves the start by one. It rests on nothing being left of the last click (`ClickRests`), on engines that
rest knowing whether they run (`Known`), and on a start never failing behind its progress, so that it
is the route's only command (`OneCommand`): this is where a disturbance would break the order. The theorem covers
clean starts too, with the stop that follows them from the queue of commands.

`StartedRuns` adds `SInv`: no start of an undisturbed line fails on its way. A start begins with every unit at rest and
its range at unit 0 (`Whole`); the unit it comes to is at rest or has taken the order and stays with it (`NextObeys`), so that
`InformFromUnit` never closes the start on a refusal, which for a start for cleaning it would still call good. A start that is
over has then passed every unit of the line, and `BehindSteady` says what they do. This needs `ListsAgree`: each unit has in the
lists a mode that it can take (`addInRoute` offers no other), and no engine is run by one list and kept off by another. Without
it TLC finds `StartedRuns` false for two clicks on two lines that share a noria: a clean stop gives it back while it
runs, a start for cleaning of the line that keeps it off takes it, the noria sees itself run by hand and
refuses, and the start ends good with the engine before it off.

*Alarms.* `AlarmKnown` is inductive with the types. Two facts carry it. Every handler but
the reset ends in `Signalled`, and one lemma (`SignalledKnown`) says that it keeps
`AlarmKnown` whenever the tag does not come to an alarm without a signal and the
queue loses no alarm of a sub-unit; its case that is not immediate is a
sub-unit that counts itself free, for which no tag of it may be left. And
the reset (`ResetAlarmKeeps`): a tag that keeps its alarm refuses, so that its unit stays
in alarm, by the refusal or by the count that overwrites it, and the unit above by that of its
sub-unit. `WatchKept` is a property of steps and needs no invariant beyond the types: each handler is shown to
leave a tag `Tended`, that is, if its state is needed and missing then there is an alarm or a timer, unless it was
needed, missing and without both before, when the end of its timer is in the queue; and that is taken out only by
the handler that raises the alarm.

*Dryer.* An operator on the dryer's record composes many orders to many units, so each has
lemmas that say what it keeps (`Keeps`: the common modes and the modes told, no blocked burner
switched on), that it switches nothing on (`Calm`), and that a lit burner is one known to start
(`Lit`). `Inv` joins the types, `Blocks` and `Stopped`: a dryer that is told to stop has no mode left
to reach and no fan to start, so that whichever timer expires finds nothing to do. `FireInv`
adds, for `BurnersGuarded`: burners that are on have told their start or are asked for it (`Lit`, which a
burner's own start button breaks, as `interlock` shows); what a burner has told is in the common mode or still in
the queue (`Known`); and once the dryer knows of fire without air, nothing burns (`NoFire`), which
`withoutAir` establishes because of `Lit` and the blocks preserve.

*Output.* `Inv` is the conjunction of the four invariants. Relations between driver records carry
the proof: what an operator keeps of the chain of shots (`Alive`), of the task list (`Distinct`) and of the agreement
between a tag and what was last told of it (`Follows`). The step that matters for `PollingGoesOn` is
`abortAll`, which ends every request at once and must leave a shot for each; for
`TasksBounded`, that `getTask` makes tasks only when there are none, and that `without` leaves no write
of the tag; for `BeliefFollows`, that `setValue` of a tag tells every change and nothing else, and
that the units take what they are told in its order.

Not proved, only checked: liveness (out of the prover's reach).

## 5. Not modelled, and the plan

1. The Simatic driver: its reconnection (`simatic.cpp:645`), its list of writes at the end and reads at the
   beginning. `OutETag` over either driver, from an abstract driver that both implement.
2. Pulses and alarms of outputs (`OutDiscretETag`), saved values, limits.
3. `UnitAlarm`: the first load, the modes and states of sub-units, pulse mode.
4. Engines with two contactors and with a stop signal; frequency converters; valves.
5. `PromObject`: creating, choosing and deleting routes across the threads, and
   `setMyRoute` in steps.
6. The dryer's unload table with its screws and the humidity; the other dryer; a boiler.
7. `Log`, `UnitGroup`.

Left out for good: drawing and layout (QML other than the route window), the
vendored libraries, numeric control (PID), texts, and the ini files. More than half of the repository's lines are
of these kinds: snap7 alone has some 18000, and constructors that only name tags and wire
signals make up much of the units; the models stand for what decides.

`Dryer3VSM_KromyOLD.cpp` and the like define the same classes again: they are earlier versions, which
no build can link with the present ones, and are not modelled.
