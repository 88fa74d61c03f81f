----------------------------- MODULE AlarmProps -----------------------------
(* What the alarms of tags and units promise. *)
EXTENDS UnitAlarm

Events ==
  [ev : {"SetEnd", "Quality"}, id : Tags]
    \cup {SubAlarm(u) : u \in {x \in Units : Parent[x] \in Units}}

AlarmTypeOK ==
  /\ tag \in [Tags -> InETags]
  /\ chDt \in 0 .. 255
  /\ quality \in [Tags -> BOOLEAN]
  /\ alarm \in [Units -> BOOLEAN] /\ lost \in [Units -> BOOLEAN]
  /\ evQ \in Seq(Events)
  /\ left \in 0 .. MaxSteps

In(q, e)  == \E i \in DOMAIN q : q[i] = e
Queued(e) == In(evQ, e)

(* An alarm of a tag that is not ignored is known to its unit, and to the  *)
(* unit above or on its way there, whatever is reset, counted again or     *)
(* reconnected in between (Unit::detectAlarm, _resetAlarm,                 *)
(* subUnTagAlarmReseted, detectSubUnitAlarm).                              *)
AlarmKnown ==
  \A t \in Tags : tag[t].alarm /\ ~tag[t].ignor =>
    LET u == Owner[t]
    IN  /\ alarm[u]
        /\ Parent[u] \in Units => alarm[Parent[u]] \/ Queued(SubAlarm(u))

(* The state that the unit needs, with an alarm, is missing, and something *)
(* will tell or has told.                                                  *)
Wanting(t) == missing(tag[t]) /\ tag[t].alarmOn
Guarded(t) == tag[t].alarm \/ tag[t].timer \/ Queued([ev |-> "SetEnd", id |-> t])

(* A needed state that is missing is guarded by an alarm, a running timer  *)
(* or the timer's end in the queue, and loses that only when the operator  *)
(* resets or ignores alarms.  A tag whose timer has no interval, and one   *)
(* that resets its own alarm, is not covered (InETag::needBe, _checkVal,   *)
(* _setTimerEnd).                                                          *)
WatchKept ==
  [][ \A t \in (Tags \cap Timed) \ SelfResetting :
        /\ Wanting(t) => Guarded(t)
        /\ Wanting(t)' /\ ~Guarded(t)'
        => \/ tag[t].ignor
           \/ \E u \in {Owner[t], Parent[Owner[t]]} \cap Units : ResetAlarm(u) ]_vars

(* `чтобы emit s_valueChd и detrct/undetect шли после логов': after        *)
(* _checkVal has logged that a tag is (un)detected, it says so.            *)
ToldAll == \A t \in Tags : tag[t].told = tag[t].detect

AlarmFairness == WF_vars(UnitsThread) /\ \A t \in Tags : WF_vars(SetTimerFires(t))

FairAlarms == Spec /\ AlarmFairness

(* A state that is needed with an alarm and missing while the timer runs   *)
(* comes or becomes an alarm, unless the operator ignores it or the unit   *)
(* no longer needs it: the end of the timer is neither lost nor eaten by   *)
(* that of an earlier one.                                                 *)
NoticedInTime ==
  \A t \in Timed :
    Wanting(t) /\ tag[t].timer ~> ~Wanting(t) \/ tag[t].alarm \/ tag[t].ignor

(* An alarm of a tag reaches the unit at the top, unless it goes before.   *)
AlarmArrives ==
  \A t \in Tags :
    Parent[Owner[t]] \in Units =>
      ((tag[t].alarm /\ ~tag[t].ignor) ~>
         (alarm[Parent[Owner[t]]] \/ ~tag[t].alarm \/ tag[t].ignor))

=============================================================================
