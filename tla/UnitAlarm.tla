------------------------------ MODULE UnitAlarm ------------------------------
(* The alarm and the connection of units over their tags and sub-units      *)
(* (Unit), on the units thread.  What a driver reports and what the         *)
(* operator and the unit's program ask for is handled in the step in which  *)
(* it comes.  What is decided at one time and handled at another waits in   *)
(* evQ: the end of a tag's timer, a change of the line's quality, and the   *)
(* alarm of a sub-unit.                                                     *)
EXTENDS InETag, Sequences

CONSTANTS Units, NoUnit,
          Owner,       \* the unit of a tag
          Parent,      \* the unit that a unit is a sub-unit of, or NoUnit
          Rank,        \* the place of a tag in its unit's list _tags
          SelfReset,   \* units with _alarmSelfReset
          Values, Levels, InitLevel,
          MaxSteps     \* bound on what drivers, program and operator do

ASSUME AlarmConstants ==
  /\ NoUnit \notin Units
  /\ Owner \in [Tags -> Units]
  /\ Parent \in [Units -> Units \cup {NoUnit}]
  /\ \A u \in Units : Parent[u] \in Units => Parent[Parent[u]] = NoUnit
  /\ Rank \in [Tags -> Nat] /\ SelfReset \subseteq Units
  /\ Values \subseteq Int /\ Levels \subseteq Int
  /\ InitLevel \in [Tags -> Levels] /\ MaxSteps \in Nat

VARIABLES tag,       \* the record of each input tag
          chDt,      \* the static ChDt of InETag::_checkVal
          quality,   \* the driver reads the tag
          alarm,     \* _alarm of each unit
          lost,      \* _alarmConnection of each unit
          evQ, left

vars == <<tag, chDt, quality, alarm, lost, evQ, left>>

TagsOf(u) == {t \in Tags : Owner[t] = u}
SubsOf(u) == {s \in Units : Parent[s] = u}

-----------------------------------------------------------------------------
(* What a tag's signals do to its unit. *)

connected(t, c) == c.imit \/ quality[t]

sensorsConnected(t, c) ==
  connected(t, c) /\ \A s \in TagsOf(Owner[t]) \ {t} : connected(s, tag[s])

(* _sensorConnect: the first time that a tag is not connected is an alarm. *)
_sensorConnect(t, c) == [lost EXCEPT ![Owner[t]] = ~sensorsConnected(t, c)]
breaks(t, c) == ~sensorsConnected(t, c) /\ ~lost[Owner[t]]

(* s_alarmForAnderUnit of a unit, as often as it has signalled. *)
SubAlarm(u) == [ev |-> "SubAlarm", id |-> u]
SubAlarms_Always(u, n) == [i \in 1 .. n |-> SubAlarm(u)]
SubAlarms(u, n) == IF Parent[u] = NoUnit THEN <<>> ELSE [i \in 1 .. n |-> SubAlarm(u)]

Count(b) == IF b THEN 1 ELSE 0

(* subUnTagAlarmReseted: the alarm of a unit that resets itself. *)
recount_Tags(u, tg, al, ls) == (\E t \in TagsOf(u) : tg[t].alarm) \/ ls[u]
recount(u, tg, al, ls) ==
  \/ \E t \in TagsOf(u) : tg[t].alarm
  \/ \E s \in SubsOf(u) : al[s]
  \/ ls[u]

(* Tag t has become c.  It has freed its alarm (then a unit that resets    *)
(* itself counts again, with the lines ls, and so does the unit above it   *)
(* if nothing is left), and it has signalled n alarms (detectAlarm).       *)
Signalled(t, c, ls, freed, n, q) ==
  LET u       == Owner[t]
      tg      == [tag EXCEPT ![t] = c]
      counted == freed /\ u \in SelfReset
      remains == recount(u, tg, alarm, ls)
      own     == IF counted THEN remains ELSE alarm[u]
      up      == counted /\ ~remains /\ Parent[u] \in SelfReset
  IN  /\ tag' = tg
      /\ alarm' = [x \in Units |->
                     CASE x = u -> own \/ n > 0
                       [] x = Parent[u] /\ up ->
                            recount(x, tg, [alarm EXCEPT ![u] = FALSE], ls)
                       [] OTHER -> alarm[x]]
      /\ evQ' = q \o SubAlarms(u, n)

(* The same, with a call of _checkVal for c. *)
Checked(t, c, ls, n, q) ==
  Signalled(t, _checkVal(t, c, chDt), ls, resetsItself(t, c), n + Count(signals(t, c)), q)

-----------------------------------------------------------------------------
(* The drivers, the program of the unit and the operator. *)

Ask == left > 0 /\ left' = left - 1

(* Tag::s_onValueChanged -> _acceptValue *)
_acceptValue(t) ==
  /\ Ask
  /\ \E v \in Values \ {tag[t].value} :
       LET c == accept(tag[t], v)
       IN  IF c.imit
           THEN tag' = [tag EXCEPT ![t] = c] /\ UNCHANGED <<chDt, alarm, evQ>>
           ELSE Checked(t, c, lost, 0, evQ) /\ chDt' = ChDt(t, c, chDt)
  /\ UNCHANGED <<quality, lost>>

(* The line to a tag breaks or is back; the slot runs later. *)
QualityChange(t) ==
  /\ Ask
  /\ quality' = [quality EXCEPT ![t] = ~@]
  /\ evQ' = Append(evQ, [ev |-> "Quality", id |-> t])
  /\ UNCHANGED <<tag, chDt, alarm, lost>>

(* needBe and onlyChange, as the unit's program or another tag calls them. *)
NeedBe(t) ==
  /\ Ask
  /\ \E d, a, timed \in BOOLEAN :
       LET c == tag[t]
           linked == connected(t, c)
       IN  Signalled(t, needBe(t, c, d, a, timed, linked), lost, FALSE,
                     Count(atOnce(t, c, d, a, timed, linked)), evQ)
  /\ UNCHANGED <<chDt, quality, lost>>

OnlyChange(t) ==
  /\ Ask
  /\ tag' = [tag EXCEPT ![t] = onlyChange(@)]
  /\ UNCHANGED <<chDt, quality, alarm, lost, evQ>>

writeImitOn(t) ==
  /\ Ask /\ ~tag[t].imit
  /\ LET c  == [tag[t] EXCEPT !.imit = TRUE]
         ls == _sensorConnect(t, c)
         n  == Count(breaks(t, c))
     IN  /\ lost' = ls
         /\ IF c.imitVal # c.value
            THEN Checked(t, c, ls, n, evQ) /\ chDt' = ChDt(t, c, chDt)
            ELSE Signalled(t, c, ls, FALSE, n, evQ) /\ UNCHANGED chDt
  /\ UNCHANGED quality

writeImitOff(t) ==
  /\ Ask /\ tag[t].imit
  /\ LET c  == [tag[t] EXCEPT !.imit = FALSE]
         n  == Count(breaks(t, c))
     IN  /\ lost' = _sensorConnect(t, c)
         /\ IF c.imitVal # c.value
            THEN Checked(t, c, lost, n, evQ) /\ chDt' = ChDt(t, c, chDt)
            ELSE Signalled(t, c, lost, FALSE, n, evQ) /\ UNCHANGED chDt
  /\ UNCHANGED quality

writeImitVal(t) ==
  /\ Ask
  /\ \E v \in Values \ {tag[t].imitVal} :
       LET c == [tag[t] EXCEPT !.preValue = tag[t].imitVal, !.imitVal = v]
       IN  IF c.imit
           THEN Checked(t, c, lost, 0, evQ) /\ chDt' = ChDt(t, c, chDt)
           ELSE tag' = [tag EXCEPT ![t] = c] /\ UNCHANGED <<chDt, alarm, evQ>>
  /\ UNCHANGED <<quality, lost>>

setDetectLevel(t) ==
  /\ Ask
  /\ \E l \in Levels \ {tag[t].level} :
       LET c == [tag[t] EXCEPT !.level = l]
       IN  Checked(t, c, lost, 0, evQ) /\ chDt' = ChDt(t, c, chDt)
  /\ UNCHANGED <<quality, lost>>

(* Ignoring stops; an alarm that is still up comes back. *)
writeIgnorAlarm(t) ==
  /\ Ask
  /\ Signalled(t, [tag[t] EXCEPT !.ignor = ~@], lost, FALSE,
               Count(tag[t].alarm /\ tag[t].ignor), evQ)
  /\ UNCHANGED <<chDt, quality, lost>>

-----------------------------------------------------------------------------
(* Unit::_resetAlarm of u and of its sub-units, as the window calls it.  In *)
(* a unit that resets itself every tag that frees its alarm makes the unit  *)
(* count again, so that of the refusals only those of later tags remain.    *)
resetOwn_Granted(u, tg) ==
  IF u \in SelfReset THEN recount(u, tg, alarm, lost) ELSE lost[u]
resetOwn(u, tg) ==
  LET freed == {t \in TagsOf(u) : tag[t].mayReset}
      later == {t \in TagsOf(u) : \A f \in freed : Rank[t] > Rank[f]}
  IN  IF u \in SelfReset /\ freed # {}
      THEN recount(u, tg, alarm, lost) \/ \E t \in later : refuses(tag[t])
      ELSE lost[u] \/ \E t \in TagsOf(u) : refuses(tag[t])

ResetAlarm(u) ==
  /\ Ask
  /\ LET us  == {u} \cup SubsOf(u)
         tg  == [t \in Tags |-> IF Owner[t] \in us THEN resetAlarm(tag[t]) ELSE tag[t]]
         sub == [x \in Units |-> IF x \in us THEN resetOwn(x, tg) ELSE alarm[x]]
         top == IF u \in SelfReset /\ SubsOf(u) # {} THEN recount(u, tg, sub, lost)
                ELSE sub[u] \/ \E s \in SubsOf(u) : sub[s]
         own == [sub EXCEPT ![u] = top]
     IN  /\ tag' = tg
         /\ alarm' = IF Parent[u] \in SelfReset
                     THEN [own EXCEPT ![Parent[u]] = recount(Parent[u], tg, own, lost)]
                     ELSE own
  /\ UNCHANGED <<chDt, quality, lost, evQ>>

-----------------------------------------------------------------------------
(* The event loop of the units thread. *)

ev == Head(evQ)
Event(name) == evQ # <<>> /\ ev.ev = name

(* QTimer::timeout, connected to _setTimerEnd by the queue. *)
SetTimerFires(t) ==
  /\ tag[t].timer
  /\ tag' = [tag EXCEPT ![t].timer = FALSE]
  /\ evQ' = Append(evQ, [ev |-> "SetEnd", id |-> t])
  /\ UNCHANGED <<chDt, quality, alarm, lost, left>>

SetTimerEnd ==
  /\ Event("SetEnd")
  /\ LET c == tag[ev.id]
     IN  Signalled(ev.id, _setTimerEnd(c), lost, FALSE, Count(overdue(c)), Tail(evQ))
  /\ UNCHANGED <<chDt, quality, lost, left>>

(* _qualityChangedSlot of ETag and then of InETag, which checks the value  *)
(* once more: that moves ChDt only.                                        *)
LineBack ==
  /\ Event("Quality") /\ quality[ev.id]
  /\ LET t  == ev.id
         ls == _sensorConnect(t, tag[t])
         n  == Count(breaks(t, tag[t]))
     IN  /\ lost' = ls
         /\ IF tag[t].imit
            THEN Signalled(t, tag[t], ls, FALSE, n, Tail(evQ)) /\ UNCHANGED chDt
            ELSE \E v \in Values :
                   LET c == accept(tag[t], v)
                   IN  /\ Checked(t, c, ls, n, Tail(evQ))
                       /\ chDt' = IF v # tag[t].value THEN 1 ELSE ChDt(t, c, chDt)
  /\ UNCHANGED <<quality, left>>

LineBroken ==
  /\ Event("Quality") /\ ~quality[ev.id]
  /\ LET t == ev.id
         c == [tag[t] EXCEPT !.alarm = @ \/ ~tag[t].imit]
     IN  /\ lost' = _sensorConnect(t, c)
         /\ Signalled(t, c, lost, FALSE,
                      Count(breaks(t, c)) + Count(~tag[t].imit), Tail(evQ))
  /\ UNCHANGED <<chDt, quality, left>>

detectSubUnitAlarm ==
  /\ Event("SubAlarm")
  /\ LET p == Parent[ev.id]
     IN  /\ alarm' = [alarm EXCEPT ![p] = TRUE]
         /\ evQ' = Tail(evQ) \o SubAlarms(p, 1)
  /\ UNCHANGED <<tag, chDt, quality, lost, left>>

UnitsThread == SetTimerEnd \/ LineBack \/ LineBroken \/ detectSubUnitAlarm

-----------------------------------------------------------------------------
(* Loaded, every tag read once, nothing asked of any tag. *)
InitTag(t, v) ==
  LET d == IF t \in Low THEN v <= InitLevel[t] ELSE v >= InitLevel[t]
  IN  [value |-> v, preValue |-> v, imit |-> FALSE, imitVal |-> v, level |-> InitLevel[t],
       detect |-> d, told |-> d, DnotU |-> FALSE, alarmOn |-> FALSE, onlyChange |-> TRUE,
       timer |-> FALSE, alarm |-> FALSE, mayReset |-> TRUE, ignor |-> FALSE]

Init ==
  /\ \E v \in [Tags -> Values] : tag = [t \in Tags |-> InitTag(t, v[t])]
  /\ chDt = 0
  /\ quality = [t \in Tags |-> TRUE]
  /\ alarm = [u \in Units |-> FALSE]
  /\ lost = [u \in Units |-> FALSE]
  /\ evQ = <<>> /\ left = MaxSteps

Asked(t) ==
  \/ _acceptValue(t) \/ QualityChange(t)
  \/ NeedBe(t) \/ OnlyChange(t)
  \/ writeImitOn(t) \/ writeImitOff(t) \/ writeImitVal(t)
  \/ setDetectLevel(t) \/ writeIgnorAlarm(t)

Next ==
  \/ \E t \in Tags : Asked(t) \/ SetTimerFires(t)
  \/ \E u \in Units : ResetAlarm(u)
  \/ UnitsThread

Spec == Init /\ [][Next]_vars

=============================================================================
