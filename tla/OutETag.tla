------------------------------- MODULE OutETag -------------------------------
(***************************************************************************)
(* The output tags of the units, OutETag: what a unit asks for goes to the *)
(* driver (module ModBus) and comes back as a reported value, and a timer   *)
(* asks again for what has not come back.  Units and driver run in threads *)
(* of their own and talk by queued events, except that setValue reads the  *)
(* quality of the tag and writes its newValue from across.                 *)
(*                                                                         *)
(* Pulses, limits, conversions, saved values and the alarms of outputs are *)
(* left out.                                                               *)
(***************************************************************************)
EXTENDS ModBus

CONSTANTS
  Timed,        \* tags whose _setTimer has an interval
  Default,      \* _defaultValue; QVariant(0) unless the unit says otherwise
  Patient,      \* the timers are longer than a value needs to come back
  MaxSets,      \* bound on what units ask for
  MaxDisturb    \* bound on faults, the controller's own changes and clicks

ASSUME OutETagConstants ==
  /\ Timed \subseteq Tags /\ Default \in Values
  /\ Patient \in BOOLEAN /\ MaxSets \in Nat /\ MaxDisturb \in Nat

VARIABLES
  drv,      \* the driver with its tags
  etag,     \* the output tags
  sets,     \* settings left
  disturb   \* disturbing steps left

vars == <<drv, etag, sets, disturb>>

(* value, seted, imit, imitVal: _value, _setedValue, _imit, _imitVal;       *)
(* timer: _setTimer is running; first: _ferstLoad, with what is done then: *)
(* the output is set to its default (LoadDefault) or taken as it is.       *)
ETagRecord ==
  [value : Values, seted : Values, timer : BOOLEAN, imit : BOOLEAN,
   imitVal : Values, first : {"load", "take", "no"}]

-----------------------------------------------------------------------------

(* OutETag::setValue.  While the output is imitated, the imitation takes   *)
(* the value, unless notImit; without a connection the value is only       *)
(* remembered, and no timer is started for it.                             *)
imitates(e, notImit) == e.imit /\ ~notImit

writes(s, t, e, notImit) == ~imitates(e, notImit) /\ s.tag[t].quality = "Good"

setETag(s, t, e, v, notImit) ==
  CASE imitates(e, notImit)     -> [e EXCEPT !.imitVal = v]
    [] writes(s, t, e, notImit) -> [e EXCEPT !.seted = v, !.timer = t \in Timed]
    [] OTHER                    -> [e EXCEPT !.seted = v]

setTag(s, t, e, v, notImit) ==
  IF writes(s, t, e, notImit) THEN writeValue(s, t, v) ELSE s

-----------------------------------------------------------------------------
(* The thread of the units.                                                *)

(* A unit sets its output.                                                 *)
SetValue(t, v) ==
  /\ sets > 0 /\ sets' = sets - 1
  /\ etag' = [etag EXCEPT ![t] = setETag(drv, t, @, v, FALSE)]
  /\ drv' = setTag(drv, t, etag[t], v, FALSE)
  /\ UNCHANGED disturb

Told1(t, ev) == drv.told[t] # <<>> /\ Head(drv.told[t]).ev = ev

taken(t) == [drv EXCEPT !.told[t] = Tail(@)]

_acceptValue(t) ==
  /\ Told1(t, "value")
  /\ etag' = [etag EXCEPT ![t].value = Head(drv.told[t]).val]
  /\ drv' = taken(t)
  /\ UNCHANGED <<sets, disturb>>

(* The slot reads the tag as it is now.  The first time there is a         *)
(* connection, the output is set to its default, or taken as it is.        *)
_qualityChangedSlot(t) ==
  LET good  == drv.tag[t].quality = "Good"
      e     == IF good /\ ~etag[t].imit
               THEN [etag[t] EXCEPT !.value = drv.tag[t].value] ELSE etag[t]
      first == [e EXCEPT !.first = "no"]
      loads == good /\ e.first = "load"
  IN  /\ Told1(t, "quality")
      /\ etag' = [etag EXCEPT ![t] =
           CASE loads                      -> setETag(drv, t, first, Default, TRUE)
             [] good /\ e.first = "take" -> [first EXCEPT !.seted = e.value]
             [] OTHER                      -> e]
      /\ drv' = IF loads THEN setTag(taken(t), t, first, Default, TRUE) ELSE taken(t)
      /\ UNCHANGED <<sets, disturb>>

(* Mutant: the timer's end only logs. *)
_setTimerEnd_Logs(t) ==
  /\ Told1(t, "timer")
  /\ drv' = taken(t)
  /\ UNCHANGED <<etag, sets, disturb>>

(* What has not come back is asked for again.                              *)
_setTimerEnd(t) ==
  LET e     == etag[t]
      again == e.value # e.seted
  IN  /\ Told1(t, "timer")
      /\ etag' = [etag EXCEPT ![t] =
                    IF again THEN setETag(drv, t, e, e.seted, FALSE) ELSE e]
      /\ drv' = IF again THEN setTag(taken(t), t, e, e.seted, FALSE) ELSE taken(t)
      /\ UNCHANGED <<sets, disturb>>

(* A write of t has been asked for and has not come to the controller.     *)
Waits(t) ==
  \/ \E i \in DOMAIN drv.posted : drv.posted[i] = [ev |-> "write", tag |-> t]
  \/ \E i \in DOMAIN drv.tasks : drv.tasks[i] = writeTask(t)
  \/ \E i \in DOMAIN drv.requests :
        drv.requests[i].task = writeTask(t) /\ ~drv.requests[i].done

(* No write of t is under way and all that was told of t has been heard.   *)
Quiet(t) ==
  /\ ~Waits(t)
  /\ \A i \in DOMAIN drv.requests : drv.requests[i].task # writeTask(t)
  /\ drv.told[t] = <<>>

(* The timer's slot is connected through the queue: to stop the timer does *)
(* not take back an end that waits there.                                  *)
SetTimer(t) ==
  /\ etag[t].timer
  /\ Patient => Quiet(t)
  /\ etag' = [etag EXCEPT ![t].timer = FALSE]
  /\ drv' = [drv EXCEPT !.told[t] = Append(@, [ev |-> "timer"])]
  /\ UNCHANGED <<sets, disturb>>

-----------------------------------------------------------------------------
(* The thread of the driver.                                               *)

DriverStep(s) == drv' = s /\ UNCHANGED <<etag, sets, disturb>>

HandleNextTask ==
  /\ drv.shots > 0
  /\ \E c \in Links : DriverStep(handleNextTask([drv EXCEPT !.shots = @ - 1], c))

HandlePosted ==
  /\ drv.posted # <<>>
  /\ \E c \in Links :
       DriverStep(Posted([drv EXCEPT !.posted = Tail(@)], Head(drv.posted), c))

Reply ==
  /\ drv.requests # <<>>
  /\ LET r    == Head(drv.requests)
         rest == [drv EXCEPT !.requests = Tail(@)]
     IN  r.done /\ DriverStep(doNext(succeed(rest, r), r.task))

-----------------------------------------------------------------------------
(* The controller, the line and the operator.                              *)

Serve ==
  \E i \in DOMAIN drv.requests :
    /\ ~drv.requests[i].done
    /\ \A j \in 1 .. (i - 1) : drv.requests[j].done
    /\ DriverStep(serve(drv, i))

(* The delay of the group passes.                                          *)
Delay == ~drv.due /\ DriverStep([drv EXCEPT !.due = TRUE])

LinkUp ==
  /\ drv.conn = "connecting"
  /\ \E c \in {"off", "on"} : DriverStep([drv EXCEPT !.conn = c])

Disturb(s) ==
  /\ disturb > 0 /\ disturb' = disturb - 1
  /\ drv' = s
  /\ UNCHANGED <<etag, sets>>

LinkBreaks == drv.conn = "on" /\ Disturb(abortAll(drv))

(* A request is not answered in time, or answered with an exception.       *)
RequestFails ==
  /\ drv.requests # <<>>
  /\ LET r    == Head(drv.requests)
         rest == [drv EXCEPT !.requests = Tail(@)]
     IN  Disturb(doNext(fail(rest, r), r.task))

(* The program of the controller, or a panel, sets the register.           *)
PlantSets(t, v) == drv.plc[t] # v /\ Disturb([drv EXCEPT !.plc[t] = v])

Click(ev) == Disturb([drv EXCEPT !.posted = Append(@, [ev |-> ev])])

writeImit(t) ==
  /\ disturb > 0 /\ disturb' = disturb - 1
  /\ etag' = [etag EXCEPT ![t].imit = ~@, ![t].timer = etag[t].timer /\ etag[t].imit]
  /\ UNCHANGED <<drv, sets>>

writeImitVal(t, v) ==
  /\ disturb > 0 /\ disturb' = disturb - 1
  /\ etag' = [etag EXCEPT ![t].imitVal = v]
  /\ UNCHANGED <<drv, sets>>

-----------------------------------------------------------------------------

(* The program has loaded, the tags have not been read.                    *)
Init ==
  /\ drv = InitDriver(Default)
  /\ \E how \in [Tags -> {"load", "take"}] :
       etag = [t \in Tags |-> [value |-> Default, seted |-> Default, timer |-> FALSE,
                               imit |-> FALSE, imitVal |-> Default, first |-> how[t]]]
  /\ sets = MaxSets
  /\ disturb = MaxDisturb

UnitsThread ==
  \E t \in Tags : _acceptValue(t) \/ _qualityChangedSlot(t) \/ _setTimerEnd(t)
DriverThread == HandleNextTask \/ HandlePosted \/ Reply
Plant == \/ Serve \/ Delay \/ LinkUp \/ LinkBreaks \/ RequestFails
         \/ \E t \in Tags, v \in Values : PlantSets(t, v)
User  == \/ \E t \in Tags, v \in Values : SetValue(t, v) \/ writeImitVal(t, v)
         \/ \E t \in Tags : writeImit(t)
         \/ \E ev \in {"connect", "disconnect"} : Click(ev)

Next == \/ UnitsThread \/ DriverThread \/ Plant \/ User
        \/ \E t \in Tags : SetTimer(t)

Spec == Init /\ [][Next]_vars

=============================================================================
