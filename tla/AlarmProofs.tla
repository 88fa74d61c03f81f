----------------------------- MODULE AlarmProofs -----------------------------
(***************************************************************************)
(* Proofs about the alarms of tags and units: their types, and that an     *)
(* alarm of a tag is known to its unit and above (AlarmKnown).  Every      *)
(* handler changes a tag and signals through Signalled, so both rest on    *)
(* one lemma about it.                                                     *)
(***************************************************************************)
EXTENDS AlarmProps, SequenceTheorems, TLAPS

(* A queue keeps what it holds when something is added to it, and what is  *)
(* behind its head when the head is taken.                                 *)
LEMMA QueueKeeps ==
  ASSUME NEW q \in Seq(Events), NEW r \in Seq(Events), NEW e, In(q, e)
  PROVE  In(q \o r, e)
<1>1. PICK i \in DOMAIN q : q[i] = e
  BY DEF In
<1>2. i \in DOMAIN (q \o r) /\ (q \o r)[i] = e
  BY <1>1
<1> QED
  BY <1>2 DEF In

LEMMA QueueTakes ==
  ASSUME NEW q \in Seq(Events), q # <<>>, NEW e, e # Head(q), In(q, e)
  PROVE  In(Tail(q), e)
<1>1. PICK i \in DOMAIN q : q[i] = e
  BY DEF In
<1>2. i # 1 /\ i - 1 \in DOMAIN Tail(q) /\ Tail(q)[i - 1] = e
  BY <1>1
<1> QED
  BY <1>2 DEF In

(* Appending one event keeps the rest.                                     *)
LEMMA QueueAppends ==
  ASSUME NEW q \in Seq(Events), NEW x \in Events, NEW e, In(q, e) \/ e = x
  PROVE  In(Append(q, x), e)
<1>1. CASE e = x
  <2>1. Len(q) + 1 \in DOMAIN Append(q, x) /\ Append(q, x)[Len(q) + 1] = x
    OBVIOUS
  <2> QED
    BY <1>1, <2>1 DEF In
<1>2. CASE In(q, e)
  <2>1. PICK i \in DOMAIN q : q[i] = e
    BY <1>2 DEF In
  <2>2. i \in DOMAIN Append(q, x) /\ Append(q, x)[i] = e
    BY <2>1
  <2> QED
    BY <2>2 DEF In
<1> QED
  BY <1>1, <1>2

-----------------------------------------------------------------------------
(* Types of the calls of a tag.                                            *)

LEMMA DetectTypes ==
  ASSUME NEW t \in Tags, NEW c \in InETags
  PROVE  _checkDetect(t, c) \in BOOLEAN
<1>1. value(c) \in Int /\ c.level \in Int
  BY DEF InETags, value
<1>2. CASE t \in Low
  BY <1>1, <1>2 DEF _checkDetect
<1>3. CASE t \notin Low
  BY <1>1, <1>3 DEF _checkDetect
<1> QED
  BY <1>2, <1>3

LEMMA CheckValTypes ==
  ASSUME NEW t \in Tags, NEW c \in InETags, NEW ch
  PROVE  /\ _checkVal(t, c, ch) \in InETags
         /\ resetsItself(t, c) \in BOOLEAN
         /\ signals(t, c) \in BOOLEAN
<1>1. _checkDetect(t, c) \in BOOLEAN
  BY DetectTypes
<1>2. c.detect \in BOOLEAN /\ c.onlyChange \in BOOLEAN /\ c.mayReset \in BOOLEAN /\ c.alarm \in BOOLEAN
  BY DEF InETags
<1>3. mayReset(t, c) \in BOOLEAN /\ resetsItself(t, c) \in BOOLEAN
  BY <1>1, <1>2 DEF mayReset, resetsItself
<1>4. raises(t, c) \in BOOLEAN /\ signals(t, c) \in BOOLEAN
  BY DEF raises, signals
<1>5. _checkVal(t, c, ch) \in InETags
  <2> DEFINE d == _checkDetect(t, c)
             r == (c.alarm \/ raises(t, c)) /\ ~resetsItself(t, c)
             s == IF ChDt(t, c, ch) \in {2, 3} THEN d ELSE c.told
  <2>1. d \in BOOLEAN /\ r \in BOOLEAN /\ s \in BOOLEAN
    BY <1>1 DEF InETags
  <2>2. _checkVal(t, c, ch) =
          [c EXCEPT !.detect = d, !.mayReset = mayReset(t, c), !.alarm = r, !.told = s]
    BY DEF _checkVal
  <2> HIDE DEF d, r, s
  <2> QED
    BY <1>3, <2>1, <2>2 DEF InETags
<1> QED
  BY <1>3, <1>4, <1>5

LEMMA ChDtTypes ==
  ASSUME NEW t \in Tags, NEW c \in InETags, NEW ch \in 0 .. 255
  PROVE  ChDt(t, c, ch) \in 0 .. 255
  BY DEF ChDt

LEMMA NeedBeTypes ==
  ASSUME NEW t \in Tags, NEW c \in InETags, NEW d \in BOOLEAN, NEW a \in BOOLEAN,
         NEW timed \in BOOLEAN, NEW linked \in BOOLEAN
  PROVE  /\ needBe(t, c, d, a, timed, linked) \in InETags
         /\ atOnce(t, c, d, a, timed, linked) \in BOOLEAN
<1> DEFINE wait  == waits(timed, linked)
           up    == atOnce(t, c, d, a, timed, linked)
<1>1. _checkDetect(t, c) \in BOOLEAN
  BY DetectTypes
<1>2. wait \in BOOLEAN /\ up \in BOOLEAN
  BY DEF waits, atOnce
<1>3. needBe(t, c, d, a, timed, linked) \in InETags
  <2> HIDE DEF wait, up
  <2>1. c.mayReset \in BOOLEAN /\ c.alarm \in BOOLEAN /\ c.ignor \in BOOLEAN
    BY DEF InETags
  <2>2. needBe(t, c, d, a, timed, linked) =
          [c EXCEPT !.DnotU = d, !.alarmOn = a, !.onlyChange = FALSE,
                    !.timer    = wait /\ t \in Timed,
                    !.detect   = IF wait THEN c.detect ELSE _checkDetect(t, c),
                    !.mayReset = wait \/ _checkDetect(t, c) = d
                                 \/ (IF a THEN c.ignor ELSE c.mayReset),
                    !.alarm    = c.alarm \/ up]
    BY DEF needBe, wait, up
  <2> QED
    BY <1>1, <1>2, <2>1, <2>2 DEF InETags
<1> QED
  BY <1>2, <1>3

LEMMA CountTypes ==
  ASSUME NEW b \in BOOLEAN
  PROVE  Count(b) \in Nat /\ (b => Count(b) > 0)
  BY DEF Count

(* The signals of a unit to the unit above are events.                     *)
LEMMA SubAlarmTypes ==
  ASSUME NEW u \in Units, NEW n \in Nat
  PROVE  /\ SubAlarms(u, n) \in Seq(Events)
         /\ Parent[u] \in Units /\ n > 0 => In(SubAlarms(u, n), SubAlarm(u))
<1> USE AlarmConstants
<1>1. CASE Parent[u] = NoUnit
  BY <1>1 DEF SubAlarms
<1>2. CASE Parent[u] \in Units
  <2>1. SubAlarm(u) \in Events
    BY <1>2 DEF Events
  <2>2. SubAlarms(u, n) = [i \in 1 .. n |-> SubAlarm(u)]
    BY <1>2 DEF SubAlarms
  <2>3. SubAlarms(u, n) \in Seq(Events)
    BY <2>1, <2>2
  <2>4. n > 0 => 1 \in DOMAIN SubAlarms(u, n) /\ SubAlarms(u, n)[1] = SubAlarm(u)
    BY <2>2
  <2> QED
    BY <2>3, <2>4 DEF In
<1> QED
  BY <1>1, <1>2

(* What Signalled leaves has its types.                                    *)
LEMMA SignalledTypes ==
  ASSUME AlarmTypeOK, NEW t \in Tags, NEW c \in InETags, NEW ls \in [Units -> BOOLEAN],
         NEW freed \in BOOLEAN, NEW n \in Nat, NEW q \in Seq(Events),
         Signalled(t, c, ls, freed, n, q)
  PROVE  /\ tag' \in [Tags -> InETags]
         /\ alarm' \in [Units -> BOOLEAN]
         /\ evQ' \in Seq(Events)
<1> USE AlarmConstants
<1>1. tag' \in [Tags -> InETags]
  BY DEF Signalled, AlarmTypeOK
<1>2. alarm' \in [Units -> BOOLEAN]
  BY DEF Signalled, AlarmTypeOK, recount
<1>3. evQ' \in Seq(Events)
  <2>1. SubAlarms(Owner[t], n) \in Seq(Events)
    BY SubAlarmTypes
  <2> QED
    BY <2>1 DEF Signalled
<1> QED
  BY <1>1, <1>2, <1>3

-----------------------------------------------------------------------------
(* A unit is not its own parent, and a unit above has none above it.       *)
LEMMA TwoLevels ==
  ASSUME NEW u \in Units, Parent[u] \in Units
  PROVE  Parent[u] # u /\ Parent[Parent[u]] = NoUnit
  BY AlarmConstants

(* Signalled keeps alarms known when the tag does not come to an alarm     *)
(* without a signal and the queue loses no signal of a sub-unit.           *)
LEMMA SignalledKnown ==
  ASSUME AlarmTypeOK, AlarmKnown,
         NEW t \in Tags, NEW c \in InETags, NEW ls \in [Units -> BOOLEAN],
         NEW freed \in BOOLEAN, NEW n \in Nat, NEW q \in Seq(Events),
         Signalled(t, c, ls, freed, n, q),
         c.alarm /\ ~c.ignor => n > 0 \/ (tag[t].alarm /\ ~tag[t].ignor),
         \A v \in Units : In(evQ, SubAlarm(v)) => In(q, SubAlarm(v))
  PROVE  AlarmKnown'
<1> DEFINE u       == Owner[t]
           p       == Parent[u]
           tg      == [tag EXCEPT ![t] = c]
           counted == freed /\ u \in SelfReset
           remains == recount(u, tg, alarm, ls)
<1> USE AlarmConstants
<1>1. /\ tag' = tg
      /\ tg[t] = c /\ \A s \in Tags \ {t} : tg[s] = tag[s]
      /\ u \in Units
  BY DEF Signalled, AlarmTypeOK
<1>2. \A x \in Units :
        alarm'[x] = CASE x = u -> (IF counted THEN remains ELSE alarm[u]) \/ n > 0
                      [] x = p /\ counted /\ ~remains /\ p \in SelfReset ->
                           recount(x, tg, [alarm EXCEPT ![u] = FALSE], ls)
                      [] OTHER -> alarm[x]
  BY DEF Signalled
<1>3. evQ' = q \o SubAlarms(u, n) /\ SubAlarms(u, n) \in Seq(Events)
  BY <1>1, SubAlarmTypes DEF Signalled
<1>4. \A v \in Units : In(evQ, SubAlarm(v)) => In(evQ', SubAlarm(v))
  BY <1>3, QueueKeeps
<1>5. p \in Units /\ n > 0 => In(evQ', SubAlarm(u))
  <2> SUFFICES ASSUME p \in Units, n > 0
               PROVE  In(evQ', SubAlarm(u))
    OBVIOUS
  <2>1. In(SubAlarms(u, n), SubAlarm(u))
    BY <1>1, SubAlarmTypes
  <2>2. PICK i \in DOMAIN SubAlarms(u, n) : SubAlarms(u, n)[i] = SubAlarm(u)
    BY <2>1 DEF In
  <2>3. Len(q) + i \in DOMAIN evQ' /\ evQ'[Len(q) + i] = SubAlarm(u)
    BY <1>3, <2>2
  <2> QED
    BY <2>3 DEF In
<1> SUFFICES ASSUME NEW s \in Tags, tg[s].alarm, ~tg[s].ignor
             PROVE  /\ alarm'[Owner[s]]
                    /\ Parent[Owner[s]] \in Units =>
                         alarm'[Parent[Owner[s]]] \/ In(evQ', SubAlarm(Owner[s]))
  BY <1>1 DEF AlarmKnown, Queued
<1> HIDE DEF tg, counted, remains
<1>6. CASE s = t /\ n > 0
  <2>1. alarm'[u] = ((IF counted THEN remains ELSE alarm[u]) \/ n > 0)
    BY <1>1, <1>2
  <2>2. alarm'[u]
    BY <1>6, <2>1
  <2> QED
    BY <1>5, <1>6, <2>2
<1>7. CASE ~(s = t /\ n > 0)
  <2> DEFINE o == Owner[s]
             a == Parent[o]
  <2>1. tag[s].alarm /\ ~tag[s].ignor
    BY <1>1, <1>7
  <2>2. /\ o \in Units /\ alarm[o]
        /\ a \in Units => alarm[a] \/ In(evQ, SubAlarm(o))
    BY <2>1 DEF AlarmKnown, Queued
  <2>3. \A al, x : x = o => recount(x, tg, al, ls)
    BY DEF recount, TagsOf
  <2>4. alarm'[o]
    BY <1>2, <2>2, <2>3 DEF remains
  <2>5. ASSUME a \in Units, alarm[a]
        PROVE  alarm'[a]
    <3>1. a # o /\ Parent[a] = NoUnit
      BY <2>2, <2>5, TwoLevels
    <3>2. CASE a = u
      <4>1. remains
        BY <2>2, <3>2 DEF remains, recount, SubsOf
      <4> QED
        BY <1>1, <1>2, <2>5, <3>2, <4>1
    <3>3. CASE a # u /\ o = u
      BY <1>2, <2>3, <2>5, <3>3 DEF remains
    <3>4. CASE a # u /\ o # u
      <4>1. recount(a, tg, [alarm EXCEPT ![u] = FALSE], ls)
        <5>1. o \in SubsOf(a) /\ [alarm EXCEPT ![u] = FALSE][o] = alarm[o]
          BY <2>2, <3>4 DEF SubsOf, AlarmTypeOK
        <5> QED
          BY <2>2, <5>1 DEF recount
      <4> QED
        BY <1>2, <2>5, <3>4, <4>1
    <3> QED
      BY <3>2, <3>3, <3>4
  <2> QED
    BY <1>4, <2>2, <2>4, <2>5
<1> QED
  BY <1>6, <1>7

(* A call of _checkVal is such a signal: an alarm that it raises it also    *)
(* signals, unless the tag was in alarm before.                            *)
LEMMA CheckedKnown ==
  ASSUME AlarmTypeOK, AlarmKnown,
         NEW t \in Tags, NEW c \in InETags, NEW ls \in [Units -> BOOLEAN],
         NEW n \in Nat, NEW q \in Seq(Events),
         Checked(t, c, ls, n, q),
         c.alarm /\ ~c.ignor => tag[t].alarm /\ ~tag[t].ignor,
         \A v \in Units : In(evQ, SubAlarm(v)) => In(q, SubAlarm(v))
  PROVE  /\ tag' \in [Tags -> InETags]
         /\ alarm' \in [Units -> BOOLEAN]
         /\ evQ' \in Seq(Events)
         /\ AlarmKnown'
<1> DEFINE d == _checkVal(t, c, chDt)
           m == n + Count(signals(t, c))
<1>1. d \in InETags /\ resetsItself(t, c) \in BOOLEAN /\ signals(t, c) \in BOOLEAN
  BY CheckValTypes
<1>2. m \in Nat /\ (signals(t, c) => m > 0)
  BY <1>1, CountTypes
<1>3. Signalled(t, d, ls, resetsItself(t, c), m, q)
  BY DEF Checked
<1>4. d.ignor = c.ignor /\ (d.alarm => c.alarm \/ raises(t, c))
  BY DEF _checkVal, InETags
<1>5. d.alarm /\ ~d.ignor => m > 0 \/ (tag[t].alarm /\ ~tag[t].ignor)
  BY <1>2, <1>4 DEF signals
<1> HIDE DEF d, m
<1> QED
  BY <1>1, <1>2, <1>3, <1>5, SignalledTypes, SignalledKnown

-----------------------------------------------------------------------------
(* The handlers, one lemma each.                                           *)

Inv == AlarmTypeOK /\ AlarmKnown

(* A tag's record and its connection have their types.                     *)
LEMMA TagTypes ==
  ASSUME AlarmTypeOK, NEW t \in Tags
  PROVE  /\ tag[t] \in InETags
         /\ tag[t].value \in Int /\ tag[t].preValue \in Int /\ tag[t].imitVal \in Int
         /\ tag[t].imit \in BOOLEAN /\ tag[t].alarm \in BOOLEAN /\ tag[t].ignor \in BOOLEAN
         /\ tag[t].mayReset \in BOOLEAN
         /\ Owner[t] \in Units
  BY AlarmConstants DEF AlarmTypeOK, InETags

LEMMA LineTypes ==
  ASSUME AlarmTypeOK, NEW t \in Tags, NEW c \in InETags
  PROVE  /\ _sensorConnect(t, c) \in [Units -> BOOLEAN]
         /\ connected(t, c) \in BOOLEAN
         /\ breaks(t, c) \in BOOLEAN
<1>1. connected(t, c) \in BOOLEAN
  BY DEF connected, AlarmTypeOK, InETags
<1>2. sensorsConnected(t, c) \in BOOLEAN
  BY DEF sensorsConnected
<1>3. breaks(t, c) \in BOOLEAN
  BY DEF breaks
<1>4. _sensorConnect(t, c) \in [Units -> BOOLEAN]
  BY <1>2 DEF _sensorConnect, AlarmTypeOK
<1> QED
  BY <1>1, <1>3, <1>4

(* The bound on what is asked.                                             *)
LEMMA AskTypes ==
  ASSUME AlarmTypeOK, Ask
  PROVE  left' \in 0 .. MaxSteps
  BY AlarmConstants DEF AlarmTypeOK, Ask

(* Nothing of what AlarmKnown speaks of changes but the tags, of which     *)
(* none comes to an alarm, and the queue, which grows.                     *)
LEMMA QuietKnown ==
  ASSUME AlarmKnown,
         \A s \in Tags : tag'[s].alarm /\ ~tag'[s].ignor => tag[s].alarm /\ ~tag[s].ignor,
         UNCHANGED alarm,
         \A v \in Units : In(evQ, SubAlarm(v)) => In(evQ', SubAlarm(v))
  PROVE  AlarmKnown'
  BY AlarmConstants DEF AlarmKnown, Queued

(* Both ways in which a handler ends.                                      *)
LEMMA SignalledKeeps ==
  ASSUME Inv, NEW t \in Tags, NEW c \in InETags, NEW ls \in [Units -> BOOLEAN],
         NEW n \in Nat, NEW q \in Seq(Events), Signalled(t, c, ls, FALSE, n, q),
         c.alarm /\ ~c.ignor => n > 0 \/ (tag[t].alarm /\ ~tag[t].ignor),
         \A v \in Units : In(evQ, SubAlarm(v)) => In(q, SubAlarm(v)),
         UNCHANGED chDt, quality' \in [Tags -> BOOLEAN],
         lost' \in [Units -> BOOLEAN], left' \in 0 .. MaxSteps
  PROVE  Inv'
<1> USE DEF Inv
<1>1. AlarmKnown'
  BY SignalledKnown
<1>2. AlarmTypeOK'
  BY SignalledTypes DEF AlarmTypeOK
<1> QED
  BY <1>1, <1>2

LEMMA CheckedKeeps ==
  ASSUME Inv, NEW t \in Tags, NEW c \in InETags, NEW ls \in [Units -> BOOLEAN],
         NEW n \in Nat, NEW q \in Seq(Events), Checked(t, c, ls, n, q),
         c.alarm = tag[t].alarm, c.ignor = tag[t].ignor,
         \A v \in Units : In(evQ, SubAlarm(v)) => In(q, SubAlarm(v)),
         chDt' = ChDt(t, c, chDt) \/ chDt' = 1, quality' \in [Tags -> BOOLEAN],
         lost' \in [Units -> BOOLEAN], left' \in 0 .. MaxSteps
  PROVE  Inv'
<1> USE DEF Inv
<1>1. /\ tag' \in [Tags -> InETags] /\ alarm' \in [Units -> BOOLEAN]
      /\ evQ' \in Seq(Events) /\ AlarmKnown'
  BY CheckedKnown
<1>2. chDt' \in 0 .. 255
  <2>1. chDt \in 0 .. 255
    BY DEF AlarmTypeOK
  <2>2. ChDt(t, c, chDt) \in 0 .. 255
    BY <2>1, ChDtTypes
  <2> QED
    BY <2>2
<1> QED
  BY <1>1, <1>2 DEF AlarmTypeOK

(* What a handler leaves alone keeps its type.                             *)
LEMMA Left ==
  ASSUME AlarmTypeOK
  PROVE  /\ UNCHANGED quality => quality' \in [Tags -> BOOLEAN]
         /\ UNCHANGED lost => lost' \in [Units -> BOOLEAN]
         /\ UNCHANGED left => left' \in 0 .. MaxSteps
         /\ lost \in [Units -> BOOLEAN] /\ evQ \in Seq(Events)
  BY DEF AlarmTypeOK

LEMMA AcceptTypes ==
  ASSUME AlarmTypeOK, NEW t \in Tags, NEW v \in Values
  PROVE  /\ accept(tag[t], v) \in InETags
         /\ accept(tag[t], v).alarm = tag[t].alarm
         /\ accept(tag[t], v).ignor = tag[t].ignor
  BY TagTypes, AlarmConstants DEF accept, InETags

(* A handler that changes a tag only, and not its alarm.                   *)
LEMMA QuietKeeps ==
  ASSUME Inv, NEW t \in Tags, NEW c \in InETags, tag' = [tag EXCEPT ![t] = c],
         c.alarm = tag[t].alarm, c.ignor = tag[t].ignor,
         UNCHANGED <<chDt, quality, alarm, lost, evQ>>, left' \in 0 .. MaxSteps
  PROVE  Inv'
<1> USE DEF Inv
<1>1. AlarmTypeOK'
  BY DEF AlarmTypeOK
<1>2. AlarmKnown'
  BY QuietKnown DEF AlarmTypeOK
<1> QED
  BY <1>1, <1>2

LEMMA AcceptKeeps ==
  ASSUME Inv, NEW t \in Tags, _acceptValue(t)
  PROVE  Inv'
<1> USE DEF Inv
<1>1. PICK v \in Values \ {tag[t].value} :
        IF accept(tag[t], v).imit
        THEN tag' = [tag EXCEPT ![t] = accept(tag[t], v)] /\ UNCHANGED <<chDt, alarm, evQ>>
        ELSE Checked(t, accept(tag[t], v), lost, 0, evQ) /\ chDt' = ChDt(t, accept(tag[t], v), chDt)
  BY Zenon DEF _acceptValue
<1> DEFINE c == accept(tag[t], v)
<1>2. c \in InETags /\ c.alarm = tag[t].alarm /\ c.ignor = tag[t].ignor
  BY AcceptTypes
<1>3. UNCHANGED <<quality, lost>> /\ left' \in 0 .. MaxSteps
  BY AskTypes DEF _acceptValue
<1> HIDE DEF c
<1>4. CASE c.imit
  <2>1. tag' = [tag EXCEPT ![t] = c] /\ UNCHANGED <<chDt, alarm, evQ>>
    BY <1>1, <1>4 DEF c
  <2> QED
    BY <1>2, <1>3, <2>1, QuietKeeps
<1>5. CASE ~c.imit
  <2>1. Checked(t, c, lost, 0, evQ) /\ chDt' = ChDt(t, c, chDt)
    BY <1>1, <1>5 DEF c
  <2> QED
    BY <1>2, <1>3, <2>1, CheckedKeeps, Left
<1> QED
  BY <1>4, <1>5

LEMMA QualityChangeKeeps ==
  ASSUME Inv, NEW t \in Tags, QualityChange(t)
  PROVE  Inv'
<1> DEFINE e == [ev |-> "Quality", id |-> t]
<1> USE DEF Inv
<1>1. e \in Events
  BY DEF Events
<1>2. /\ quality' = [quality EXCEPT ![t] = ~@] /\ evQ' = Append(evQ, e)
      /\ UNCHANGED <<tag, chDt, alarm, lost>>
  BY DEF QualityChange
<1> HIDE DEF e
<1>3. AlarmTypeOK'
  BY <1>1, <1>2, AskTypes DEF AlarmTypeOK, QualityChange
<1>4. AlarmKnown'
  BY <1>1, <1>2, QueueAppends, QuietKnown DEF AlarmTypeOK
<1> QED
  BY <1>3, <1>4

LEMMA NeedBeKeeps ==
  ASSUME Inv, NEW t \in Tags, NeedBe(t)
  PROVE  Inv'
<1> DEFINE l == connected(t, tag[t])
<1> USE DEF Inv
<1>1. PICK d \in BOOLEAN, a \in BOOLEAN, timed \in BOOLEAN :
        Signalled(t, needBe(t, tag[t], d, a, timed, l), lost, FALSE,
                  Count(atOnce(t, tag[t], d, a, timed, l)), evQ)
  BY Zenon DEF NeedBe
<1> DEFINE b == atOnce(t, tag[t], d, a, timed, l)
           c == needBe(t, tag[t], d, a, timed, l)
<1>2. tag[t] \in InETags /\ l \in BOOLEAN
  BY TagTypes, LineTypes
<1>3. c \in InETags /\ b \in BOOLEAN
  BY <1>2, NeedBeTypes
<1>4. c.ignor = tag[t].ignor /\ (c.alarm => tag[t].alarm \/ b)
  BY <1>2 DEF needBe, InETags
<1>5. Count(b) \in Nat /\ (b => Count(b) > 0)
  BY <1>3, CountTypes
<1>6. UNCHANGED <<chDt, quality, lost>> /\ left' \in 0 .. MaxSteps
  BY AskTypes DEF NeedBe
<1>7. c.alarm /\ ~c.ignor => Count(b) > 0 \/ (tag[t].alarm /\ ~tag[t].ignor)
  BY <1>4, <1>5
<1> HIDE DEF b, c
<1>8. Signalled(t, c, lost, FALSE, Count(b), evQ)
  BY <1>1 DEF b, c
<1> QED
  BY <1>3, <1>5, <1>6, <1>7, <1>8, SignalledKeeps, Left

LEMMA OnlyChangeKeeps ==
  ASSUME Inv, NEW t \in Tags, OnlyChange(t)
  PROVE  Inv'
<1> DEFINE c == onlyChange(tag[t])
<1>1. c \in InETags /\ c.alarm = tag[t].alarm /\ c.ignor = tag[t].ignor
  BY TagTypes DEF Inv, onlyChange, InETags
<1>2. /\ tag' = [tag EXCEPT ![t] = c]
      /\ UNCHANGED <<chDt, quality, alarm, lost, evQ>> /\ left' \in 0 .. MaxSteps
  BY AskTypes DEF Inv, OnlyChange
<1> HIDE DEF c
<1> QED
  BY <1>1, <1>2, QuietKeeps

LEMMA WriteImitOnKeeps ==
  ASSUME Inv, NEW t \in Tags, writeImitOn(t)
  PROVE  Inv'
<1> DEFINE c  == [tag[t] EXCEPT !.imit = TRUE]
           ls == _sensorConnect(t, c)
           n  == Count(breaks(t, c))
<1> USE DEF Inv
<1>1. c \in InETags /\ c.alarm = tag[t].alarm /\ c.ignor = tag[t].ignor
  BY TagTypes DEF InETags
<1>2. ls \in [Units -> BOOLEAN] /\ n \in Nat
  BY <1>1, LineTypes, CountTypes
<1>3. /\ lost' = ls /\ UNCHANGED quality
      /\ \/ Checked(t, c, ls, n, evQ) /\ chDt' = ChDt(t, c, chDt)
         \/ Signalled(t, c, ls, FALSE, n, evQ) /\ UNCHANGED chDt
  BY Zenon DEF writeImitOn
<1>4. left' \in 0 .. MaxSteps
  BY AskTypes DEF writeImitOn
<1> HIDE DEF c, ls, n
<1> QED
  BY <1>1, <1>2, <1>3, <1>4, CheckedKeeps, SignalledKeeps, Left

LEMMA WriteImitOffKeeps ==
  ASSUME Inv, NEW t \in Tags, writeImitOff(t)
  PROVE  Inv'
<1> DEFINE c == [tag[t] EXCEPT !.imit = FALSE]
           n == Count(breaks(t, c))
<1> USE DEF Inv
<1>1. c \in InETags /\ c.alarm = tag[t].alarm /\ c.ignor = tag[t].ignor
  BY TagTypes DEF InETags
<1>2. _sensorConnect(t, c) \in [Units -> BOOLEAN] /\ n \in Nat
  BY <1>1, LineTypes, CountTypes
<1>3. /\ lost' = _sensorConnect(t, c) /\ UNCHANGED quality
      /\ \/ Checked(t, c, lost, n, evQ) /\ chDt' = ChDt(t, c, chDt)
         \/ Signalled(t, c, lost, FALSE, n, evQ) /\ UNCHANGED chDt
  BY Zenon DEF writeImitOff
<1>4. left' \in 0 .. MaxSteps
  BY AskTypes DEF writeImitOff
<1> HIDE DEF c, n
<1> QED
  BY <1>1, <1>2, <1>3, <1>4, CheckedKeeps, SignalledKeeps, Left

LEMMA WriteImitValKeeps ==
  ASSUME Inv, NEW t \in Tags, writeImitVal(t)
  PROVE  Inv'
<1> USE DEF Inv
<1>1. PICK v \in Values \ {tag[t].imitVal} :
        LET c == [tag[t] EXCEPT !.preValue = tag[t].imitVal, !.imitVal = v]
        IN  IF c.imit
            THEN Checked(t, c, lost, 0, evQ) /\ chDt' = ChDt(t, c, chDt)
            ELSE tag' = [tag EXCEPT ![t] = c] /\ UNCHANGED <<chDt, alarm, evQ>>
  BY Zenon DEF writeImitVal
<1> DEFINE c == [tag[t] EXCEPT !.preValue = tag[t].imitVal, !.imitVal = v]
<1>2. c \in InETags /\ c.alarm = tag[t].alarm /\ c.ignor = tag[t].ignor
  BY TagTypes, AlarmConstants DEF InETags
<1>3. UNCHANGED <<quality, lost>> /\ left' \in 0 .. MaxSteps
  BY AskTypes DEF writeImitVal
<1>4. \/ Checked(t, c, lost, 0, evQ) /\ chDt' = ChDt(t, c, chDt)
      \/ tag' = [tag EXCEPT ![t] = c] /\ UNCHANGED <<chDt, alarm, evQ>>
  BY <1>1, Zenon
<1> HIDE DEF c
<1> QED
  BY <1>2, <1>3, <1>4, CheckedKeeps, QuietKeeps, Left

LEMMA SetDetectLevelKeeps ==
  ASSUME Inv, NEW t \in Tags, setDetectLevel(t)
  PROVE  Inv'
<1> USE DEF Inv
<1>1. PICK l \in Levels \ {tag[t].level} :
        LET c == [tag[t] EXCEPT !.level = l]
        IN  Checked(t, c, lost, 0, evQ) /\ chDt' = ChDt(t, c, chDt)
  BY Zenon DEF setDetectLevel
<1> DEFINE c == [tag[t] EXCEPT !.level = l]
<1>2. c \in InETags /\ c.alarm = tag[t].alarm /\ c.ignor = tag[t].ignor
  BY TagTypes, AlarmConstants DEF InETags
<1>3. UNCHANGED <<quality, lost>> /\ left' \in 0 .. MaxSteps
  BY AskTypes DEF setDetectLevel
<1>4. Checked(t, c, lost, 0, evQ) /\ chDt' = ChDt(t, c, chDt)
  BY <1>1
<1> HIDE DEF c
<1> QED
  BY <1>2, <1>3, <1>4, CheckedKeeps, Left

LEMMA WriteIgnorAlarmKeeps ==
  ASSUME Inv, NEW t \in Tags, writeIgnorAlarm(t)
  PROVE  Inv'
<1> DEFINE c == [tag[t] EXCEPT !.ignor = ~@]
           b == tag[t].alarm /\ tag[t].ignor
<1> USE DEF Inv
<1>1. c \in InETags /\ c.alarm = tag[t].alarm /\ c.ignor = ~tag[t].ignor
  BY TagTypes DEF InETags
<1>2. b \in BOOLEAN
  BY TagTypes
<1>3. Signalled(t, c, lost, FALSE, Count(b), evQ) /\ UNCHANGED <<chDt, quality, lost>>
  BY DEF writeIgnorAlarm
<1>4. left' \in 0 .. MaxSteps
  BY AskTypes DEF writeIgnorAlarm
<1>5. Count(b) \in Nat /\ (b => Count(b) > 0)
  BY <1>2, CountTypes
<1>6. c.alarm /\ ~c.ignor => Count(b) > 0
  BY <1>1, <1>5, TagTypes
<1> HIDE DEF c, b
<1> QED
  BY <1>1, <1>3, <1>4, <1>5, <1>6, SignalledKeeps, Left

-----------------------------------------------------------------------------
(* The timers and the event loop.                                          *)

LEMMA SetTimerFiresKeeps ==
  ASSUME Inv, NEW t \in Tags, SetTimerFires(t)
  PROVE  Inv'
<1> DEFINE c == [tag[t] EXCEPT !.timer = FALSE]
           e == [ev |-> "SetEnd", id |-> t]
<1> USE DEF Inv
<1>1. c \in InETags /\ c.alarm = tag[t].alarm /\ c.ignor = tag[t].ignor
  BY TagTypes DEF InETags
<1>2. e \in Events
  BY DEF Events
<1>3. /\ tag' = [tag EXCEPT ![t] = c] /\ evQ' = Append(evQ, e)
      /\ UNCHANGED <<chDt, quality, alarm, lost, left>>
  BY DEF SetTimerFires
<1> HIDE DEF c, e
<1>4. AlarmTypeOK'
  BY <1>1, <1>2, <1>3 DEF AlarmTypeOK
<1>5. AlarmKnown'
  BY <1>1, <1>2, <1>3, QueueAppends, QuietKnown DEF AlarmTypeOK
<1> QED
  BY <1>4, <1>5

(* The event at the head.  Taking that of a tag leaves the signals of the  *)
(* sub-units.                                                              *)
LEMMA HeadOfTag ==
  ASSUME AlarmTypeOK, Event("SetEnd") \/ Event("Quality")
  PROVE  /\ ev.id \in Tags /\ Tail(evQ) \in Seq(Events)
         /\ \A v \in Units : In(evQ, SubAlarm(v)) => In(Tail(evQ), SubAlarm(v))
<1>1. evQ # <<>> /\ evQ \in Seq(Events) /\ ev \in Events /\ Tail(evQ) \in Seq(Events)
  BY DEF AlarmTypeOK, Event, ev
<1>2. ev.ev # "SubAlarm"
  BY DEF Event
<1>3. ev.id \in Tags
  BY <1>1, <1>2 DEF Events, SubAlarm
<1>4. \A v \in Units : SubAlarm(v) # Head(evQ)
  BY <1>2 DEF SubAlarm, ev
<1> QED
  BY <1>1, <1>3, <1>4, QueueTakes

LEMMA SetTimerEndKeeps ==
  ASSUME Inv, SetTimerEnd
  PROVE  Inv'
<1> DEFINE t == ev.id
           c == _setTimerEnd(tag[t])
           b == overdue(tag[t])
<1> USE DEF Inv
<1>1. /\ t \in Tags /\ Tail(evQ) \in Seq(Events)
      /\ \A v \in Units : In(evQ, SubAlarm(v)) => In(Tail(evQ), SubAlarm(v))
  BY HeadOfTag DEF SetTimerEnd
<1>2. b \in BOOLEAN
  BY <1>1, TagTypes DEF overdue, missing, InETags
<1>3. c \in InETags /\ c.ignor = tag[t].ignor /\ (c.alarm => tag[t].alarm \/ b)
  <2> DEFINE r == tag[t].alarm \/ b
  <2>1. r \in BOOLEAN /\ c = [tag[t] EXCEPT !.timer = FALSE, !.alarm = r]
    BY <1>1, <1>2, TagTypes DEF _setTimerEnd
  <2>2. tag[t] \in InETags
    BY <1>1, TagTypes
  <2> HIDE DEF t, r, c
  <2>3. c \in InETags
    BY <2>1, <2>2 DEF InETags
  <2>4. c.ignor = tag[t].ignor /\ c.alarm = r
    BY <2>1, <2>2 DEF InETags
  <2> QED
    BY <2>3, <2>4 DEF r
<1>4. /\ Signalled(t, c, lost, FALSE, Count(b), Tail(evQ))
      /\ UNCHANGED <<chDt, quality, lost, left>>
  BY Zenon DEF SetTimerEnd
<1>5. Count(b) \in Nat /\ (b => Count(b) > 0)
  BY <1>2, CountTypes
<1>6. c.alarm /\ ~c.ignor => Count(b) > 0 \/ (tag[t].alarm /\ ~tag[t].ignor)
  BY <1>3, <1>5
<1> HIDE DEF t, c, b
<1> QED
  BY <1>1, <1>3, <1>4, <1>5, <1>6, SignalledKeeps, Left

LEMMA LineBackKeeps ==
  ASSUME Inv, LineBack
  PROVE  Inv'
<1> DEFINE t  == ev.id
           ls == _sensorConnect(t, tag[t])
           n  == Count(breaks(t, tag[t]))
<1> USE DEF Inv
<1>1. /\ t \in Tags /\ Tail(evQ) \in Seq(Events)
      /\ \A v \in Units : In(evQ, SubAlarm(v)) => In(Tail(evQ), SubAlarm(v))
  BY HeadOfTag DEF LineBack
<1>2. tag[t] \in InETags /\ ls \in [Units -> BOOLEAN] /\ n \in Nat
  BY <1>1, TagTypes, LineTypes, CountTypes
<1>3. lost' = ls /\ UNCHANGED <<quality, left>>
  BY DEF LineBack
<1>4. \/ Signalled(t, tag[t], ls, FALSE, n, Tail(evQ)) /\ UNCHANGED chDt
      \/ \E v \in Values :
           LET c == accept(tag[t], v)
           IN  /\ Checked(t, c, ls, n, Tail(evQ))
               /\ chDt' = IF v # tag[t].value THEN 1 ELSE ChDt(t, c, chDt)
  BY Zenon DEF LineBack
<1> HIDE DEF t, ls, n
<1>5. CASE Signalled(t, tag[t], ls, FALSE, n, Tail(evQ)) /\ UNCHANGED chDt
  BY <1>1, <1>2, <1>3, <1>5, SignalledKeeps, Left
<1>6. ASSUME NEW v \in Values, NEW c, c = accept(tag[t], v),
             Checked(t, c, ls, n, Tail(evQ)),
             chDt' = IF v # tag[t].value THEN 1 ELSE ChDt(t, c, chDt)
      PROVE  Inv'
  <2>1. c \in InETags /\ c.alarm = tag[t].alarm /\ c.ignor = tag[t].ignor
    BY <1>1, <1>6, AcceptTypes
  <2>2. chDt' = ChDt(t, c, chDt) \/ chDt' = 1
    BY <1>6
  <2> QED
    BY <1>1, <1>2, <1>3, <1>6, <2>1, <2>2, CheckedKeeps, Left
<1> QED
  BY <1>4, <1>5, <1>6

LEMMA LineBrokenKeeps ==
  ASSUME Inv, LineBroken
  PROVE  Inv'
<1> DEFINE t == ev.id
           b == ~tag[t].imit
           c == [tag[t] EXCEPT !.alarm = @ \/ ~tag[t].imit]
           n == Count(breaks(t, c)) + Count(b)
<1> USE DEF Inv
<1>1. /\ t \in Tags /\ Tail(evQ) \in Seq(Events)
      /\ \A v \in Units : In(evQ, SubAlarm(v)) => In(Tail(evQ), SubAlarm(v))
  BY HeadOfTag DEF LineBroken
<1>2. c \in InETags /\ c.ignor = tag[t].ignor /\ (c.alarm => tag[t].alarm \/ b)
  BY <1>1, TagTypes DEF InETags
<1>3. Count(b) \in Nat /\ (b => Count(b) > 0)
  BY CountTypes
<1>4. Count(breaks(t, c)) \in Nat /\ _sensorConnect(t, c) \in [Units -> BOOLEAN]
  BY <1>1, <1>2, LineTypes, CountTypes
<1>5. n \in Nat /\ (b => n > 0)
  BY <1>3, <1>4
<1>6. /\ lost' = _sensorConnect(t, c)
      /\ Signalled(t, c, lost, FALSE, n, Tail(evQ))
      /\ UNCHANGED <<chDt, quality, left>>
  BY Zenon DEF LineBroken
<1> HIDE DEF t, b, c, n
<1>7. c.alarm /\ ~c.ignor => n > 0 \/ (tag[t].alarm /\ ~tag[t].ignor)
  BY <1>2, <1>5
<1> QED
  BY <1>1, <1>2, <1>4, <1>5, <1>6, <1>7, SignalledKeeps, Left

(* A unit above has no unit above it, so the signal goes no further.       *)
LEMMA DetectSubUnitAlarmKeeps ==
  ASSUME Inv, detectSubUnitAlarm
  PROVE  Inv'
<1> USE AlarmConstants DEF Inv
<1>1. evQ # <<>> /\ evQ \in Seq(Events) /\ ev \in Events /\ Tail(evQ) \in Seq(Events)
  BY DEF AlarmTypeOK, detectSubUnitAlarm, Event, ev
<1>2. PICK w \in Units : Parent[w] \in Units /\ ev = SubAlarm(w)
  BY <1>1 DEF detectSubUnitAlarm, Event, Events
<1> DEFINE p == Parent[w]
<1>3. ev.id = w
  BY <1>2 DEF SubAlarm
<1>4. SubAlarms(p, 1) = <<>>
  BY <1>2, TwoLevels DEF SubAlarms
<1>5. /\ alarm' = [alarm EXCEPT ![p] = TRUE] /\ evQ' = Tail(evQ)
      /\ UNCHANGED <<tag, chDt, quality, lost, left>>
  BY <1>1, <1>3, <1>4 DEF detectSubUnitAlarm
<1>6. AlarmTypeOK'
  BY <1>1, <1>5 DEF AlarmTypeOK
<1>7. \A u \in Units : In(evQ, SubAlarm(u)) => u = w \/ In(evQ', SubAlarm(u))
  <2> SUFFICES ASSUME NEW u \in Units, In(evQ, SubAlarm(u)), u # w
               PROVE  In(evQ', SubAlarm(u))
    OBVIOUS
  <2>1. SubAlarm(u) # Head(evQ)
    BY <1>2 DEF SubAlarm, ev
  <2> QED
    BY <1>1, <1>5, <2>1, QueueTakes
<1>8. AlarmKnown'
  BY <1>2, <1>5, <1>7 DEF AlarmKnown, Queued, AlarmTypeOK
<1> QED
  BY <1>6, <1>8

(* Whatever the operator resets, a tag whose alarm stays up keeps its unit *)
(* in alarm, and that one the unit above.                                  *)
LEMMA ResetAlarmKeeps ==
  ASSUME Inv, NEW u \in Units, ResetAlarm(u)
  PROVE  Inv'
<1> DEFINE us  == {u} \cup SubsOf(u)
           tg  == [t \in Tags |-> IF Owner[t] \in us THEN resetAlarm(tag[t]) ELSE tag[t]]
           sub == [x \in Units |-> IF x \in us THEN resetOwn(x, tg) ELSE alarm[x]]
           top == IF u \in SelfReset /\ SubsOf(u) # {} THEN recount(u, tg, sub, lost)
                  ELSE sub[u] \/ \E s \in SubsOf(u) : sub[s]
           own == [sub EXCEPT ![u] = top]
           up  == recount(Parent[u], tg, own, lost)
<1> USE AlarmConstants DEF Inv
<1>1. /\ tag' = tg
      /\ alarm' = IF Parent[u] \in SelfReset THEN [own EXCEPT ![Parent[u]] = up] ELSE own
      /\ UNCHANGED <<chDt, quality, lost, evQ>>
  BY Zenon DEF ResetAlarm
<1>2. left' \in 0 .. MaxSteps
  BY AskTypes DEF ResetAlarm
<1>3. tg \in [Tags -> InETags]
  <2>1. ASSUME NEW t \in Tags
        PROVE  resetAlarm(tag[t]) \in InETags
    BY TagTypes DEF resetAlarm, InETags
  <2> QED
    BY <2>1, TagTypes
<1>4. /\ \A x \in Units : resetOwn(x, tg) \in BOOLEAN
      /\ up \in BOOLEAN
  BY DEF resetOwn, recount
<1>5. sub \in [Units -> BOOLEAN]
  BY <1>4 DEF AlarmTypeOK
<1>6. top \in BOOLEAN
  BY <1>5 DEF recount
<1>7. own \in [Units -> BOOLEAN] /\ own[u] = top /\ \A x \in Units \ {u} : own[x] = sub[x]
  BY <1>5, <1>6
<1>8. \A x \in Units : alarm'[x] = IF x = Parent[u] /\ x \in SelfReset THEN up ELSE own[x]
  <2> HIDE DEF tg, sub, top, own, up
  <2>1. CASE Parent[u] \in SelfReset
    BY <1>1, <1>7, <2>1
  <2>2. CASE Parent[u] \notin SelfReset
    BY <1>1, <2>2
  <2> QED
    BY <2>1, <2>2
<1>9. AlarmTypeOK'
  BY <1>1, <1>2, <1>3, <1>4, <1>7 DEF AlarmTypeOK
<1>10. \A t \in Tags : tg[t] = IF Owner[t] \in us THEN resetAlarm(tag[t]) ELSE tag[t]
  OBVIOUS
<1>11. \A x \in Units : sub[x] = IF x \in us THEN resetOwn(x, tg) ELSE alarm[x]
  OBVIOUS
<1> SUFFICES ASSUME NEW s \in Tags, tg[s].alarm, ~tg[s].ignor
             PROVE  /\ alarm'[Owner[s]]
                    /\ Parent[Owner[s]] \in Units =>
                         alarm'[Parent[Owner[s]]] \/ In(evQ', SubAlarm(Owner[s]))
  BY <1>1, <1>9 DEF AlarmKnown, Queued
<1> DEFINE o == Owner[s]
           a == Parent[o]
<1> HIDE DEF tg, sub, top, own, up
<1>12. /\ o \in Units /\ s \in TagsOf(o)
       /\ tag[s].alarm /\ ~tag[s].ignor
       /\ o \in us => refuses(tag[s])
  BY <1>10, TagTypes DEF resetAlarm, refuses, TagsOf, InETags
<1>13. /\ alarm[o]
       /\ a \in Units => alarm[a] \/ In(evQ, SubAlarm(o))
  BY <1>12 DEF AlarmKnown, Queued
<1>14. \A al : recount(o, tg, al, lost)
  BY <1>12 DEF recount
<1>15. o \in us => resetOwn(o, tg)
  BY <1>12, <1>14 DEF resetOwn
<1>16. sub[o]
  BY <1>11, <1>12, <1>13, <1>15
<1>17. own[o]
  BY <1>7, <1>12, <1>14, <1>16 DEF top
<1>18. alarm'[o]
  BY <1>8, <1>12, <1>14, <1>17 DEF up
<1>19. ASSUME a \in Units, alarm[a]
       PROVE  alarm'[a]
  <2>1. a # o /\ Parent[a] = NoUnit
    BY <1>12, <1>19, TwoLevels
  <2>2. CASE a = u
    <3>1. o \in SubsOf(u)
      BY <1>12, <2>2 DEF SubsOf
    <3>2. top
      BY <1>16, <3>1 DEF top, recount
    <3> QED
      BY <1>7, <1>8, <2>1, <2>2, <3>2
  <2>3. CASE a # u
    <3>1. a \notin us
      BY <2>1, <2>3 DEF SubsOf
    <3>2. own[a]
      BY <1>7, <1>11, <1>19, <2>3, <3>1
    <3>3. a = Parent[u] => up
      <4> SUFFICES ASSUME a = Parent[u]
                   PROVE  up
        OBVIOUS
      <4>1. o \in SubsOf(Parent[u])
        BY <1>12 DEF SubsOf
      <4> QED
        BY <1>17, <4>1 DEF up, recount
    <3> QED
      BY <1>8, <1>19, <3>2, <3>3
  <2> QED
    BY <2>2, <2>3
<1> QED
  BY <1>1, <1>13, <1>18, <1>19

-----------------------------------------------------------------------------
LEMMA InitKnown ==
  ASSUME Init
  PROVE  Inv
<1> USE AlarmConstants
<1>1. PICK v \in [Tags -> Values] : tag = [t \in Tags |-> InitTag(t, v[t])]
  BY DEF Init
<1>2. ASSUME NEW t \in Tags
      PROVE  InitTag(t, v[t]) \in InETags /\ ~InitTag(t, v[t]).alarm
  <2> DEFINE d == IF t \in Low THEN v[t] <= InitLevel[t] ELSE v[t] >= InitLevel[t]
  <2>1. v[t] \in Int /\ InitLevel[t] \in Int
    OBVIOUS
  <2>2. d \in BOOLEAN
    <3>1. CASE t \in Low
      BY <2>1, <3>1
    <3>2. CASE t \notin Low
      BY <2>1, <3>2
    <3> QED
      BY <3>1, <3>2
  <2>3. InitTag(t, v[t]) =
          [value |-> v[t], preValue |-> v[t], imit |-> FALSE, imitVal |-> v[t],
           level |-> InitLevel[t], detect |-> d, told |-> d, DnotU |-> FALSE,
           alarmOn |-> FALSE, onlyChange |-> TRUE, timer |-> FALSE, alarm |-> FALSE,
           mayReset |-> TRUE, ignor |-> FALSE]
    BY DEF InitTag
  <2> HIDE DEF d
  <2> QED
    BY <2>1, <2>2, <2>3 DEF InETags
<1>3. AlarmTypeOK
  BY <1>1, <1>2 DEF Init, AlarmTypeOK
<1>4. AlarmKnown
  BY <1>1, <1>2 DEF AlarmKnown
<1> QED
  BY <1>3, <1>4 DEF Inv

LEMMA NextKnown ==
  ASSUME Inv, [Next]_vars
  PROVE  Inv'
<1>1. CASE Next
  <2>1. ASSUME NEW t \in Tags, Asked(t) \/ SetTimerFires(t)
        PROVE  Inv'
    BY <2>1, AcceptKeeps, QualityChangeKeeps, NeedBeKeeps, OnlyChangeKeeps,
       WriteImitOnKeeps, WriteImitOffKeeps, WriteImitValKeeps, SetDetectLevelKeeps,
       WriteIgnorAlarmKeeps, SetTimerFiresKeeps DEF Asked
  <2>2. ASSUME NEW u \in Units, ResetAlarm(u)
        PROVE  Inv'
    BY <2>2, ResetAlarmKeeps
  <2>3. CASE UnitsThread
    BY <2>3, SetTimerEndKeeps, LineBackKeeps, LineBrokenKeeps, DetectSubUnitAlarmKeeps
       DEF UnitsThread
  <2> QED
    BY <1>1, <2>1, <2>2, <2>3 DEF Next
<1>2. CASE UNCHANGED vars
  BY <1>2 DEF vars, Inv, AlarmTypeOK, AlarmKnown, Queued, In
<1> QED
  BY <1>1, <1>2

(* The state of tags, units and queue keeps its types, for every plant.    *)
THEOREM AlarmTypeCorrect == Spec => []AlarmTypeOK
<1>1. Inv => AlarmTypeOK
  BY DEF Inv
<1> QED
  BY <1>1, InitKnown, NextKnown, PTL DEF Spec

(* However many tags and units there are, whichever reset themselves, and  *)
(* however resets, values, lines and timers are interleaved: an alarm of a *)
(* tag that is not ignored is known to its unit, and to the unit above or  *)
(* on its way there.                                                       *)
THEOREM AlarmsAreKnown == Spec => []AlarmKnown
<1>1. Inv => AlarmKnown
  BY DEF Inv
<1> QED
  BY <1>1, InitKnown, NextKnown, PTL DEF Spec

-----------------------------------------------------------------------------
(* The watch over a needed state (WatchKept): what a step makes of the      *)
(* record c of a tag with a timer that is not ignored.  When d needs a      *)
(* watch it has it, or c needed it already and had it from the queue alone. *)
Need(c) == missing(c) /\ c.alarmOn

Tended(c, d) == Need(d) => d.alarm \/ d.timer \/ (Need(c) /\ ~c.alarm /\ ~c.timer)

(* The records agree on all that the watch depends on.                     *)
SameWatch(c, d) ==
  /\ d.detect = c.detect /\ d.DnotU = c.DnotU /\ d.alarmOn = c.alarmOn
  /\ d.onlyChange = c.onlyChange /\ d.timer = c.timer /\ d.alarm = c.alarm

LEMMA SameTended ==
  ASSUME NEW c, NEW d, SameWatch(c, d)
  PROVE  Tended(c, d)
  BY DEF SameWatch, Tended, Need, missing

(* A look at the value raises the alarm of a state that is lost, unless     *)
(* the timer runs; only a tag that resets itself drops one.                *)
LEMMA CheckTended ==
  ASSUME NEW t \in Tags \ SelfResetting, NEW c, NEW d \in InETags, SameWatch(c, d), ~d.ignor,
         NEW ch
  PROVE  Tended(c, _checkVal(t, d, ch))
<1> DEFINE x == _checkVal(t, d, ch)
<1>1. /\ x.detect = _checkDetect(t, d) /\ x.DnotU = d.DnotU /\ x.alarmOn = d.alarmOn
      /\ x.onlyChange = d.onlyChange /\ x.timer = d.timer
      /\ x.alarm = ((d.alarm \/ raises(t, d)) /\ ~resetsItself(t, d))
  BY DEF _checkVal, InETags
<1>2. ~resetsItself(t, d)
  BY DEF resetsItself
<1>3. CASE _checkDetect(t, d) = d.detect
  BY <1>1, <1>2, <1>3 DEF SameWatch, Tended, Need, missing
<1>4. CASE _checkDetect(t, d) # d.detect
  <2>1. Need(x) /\ ~d.timer => raises(t, d)
    BY <1>1, <1>4 DEF Need, missing, raises, watched, turned
  <2> QED
    BY <1>1, <1>2, <2>1 DEF Tended
<1> QED
  BY <1>3, <1>4

(* A state that is needed anew is watched by the timer, or found at once.   *)
LEMMA NeedBeTended ==
  ASSUME NEW t \in Tags \cap Timed, NEW c \in InETags, ~c.ignor, NEW d \in BOOLEAN,
         NEW a \in BOOLEAN, NEW timed \in BOOLEAN, NEW linked \in BOOLEAN
  PROVE  Tended(c, needBe(t, c, d, a, timed, linked))
<1> DEFINE x == needBe(t, c, d, a, timed, linked)
<1>1. /\ x.DnotU = d /\ x.alarmOn = a
      /\ x.timer = (waits(timed, linked) /\ t \in Timed)
      /\ x.detect = IF waits(timed, linked) THEN c.detect ELSE _checkDetect(t, c)
      /\ x.alarm = (c.alarm \/ atOnce(t, c, d, a, timed, linked))
  BY DEF needBe, InETags
<1>2. CASE waits(timed, linked)
  BY <1>1, <1>2 DEF Tended
<1>3. CASE ~waits(timed, linked)
  <2>1. Need(x) => atOnce(t, c, d, a, timed, linked)
    BY <1>1, <1>3 DEF Need, missing, atOnce
  <2> QED
    BY <1>1, <2>1 DEF Tended
<1> QED
  BY <1>2, <1>3

(* The end of a timer waits in the queue as long as only others are taken. *)
SetEnd(t) == [ev |-> "SetEnd", id |-> t]

EndsKept == \A t \in Tags : Queued(SetEnd(t)) => Queued(SetEnd(t))'

(* A step that tends tag t and touches no other.                           *)
Tends(t) ==
  \E d : /\ tag' = [tag EXCEPT ![t] = d]
         /\ t \in Timed \ SelfResetting /\ ~tag[t].ignor => Tended(tag[t], d)

LEMMA CheckedTends ==
  ASSUME AlarmTypeOK, NEW t \in Tags, NEW c \in InETags, SameWatch(tag[t], c),
         c.ignor = tag[t].ignor, NEW ls, NEW n, NEW q, Checked(t, c, ls, n, q)
  PROVE  Tends(t)
<1>1. tag' = [tag EXCEPT ![t] = _checkVal(t, c, chDt)]
  BY DEF Checked, Signalled
<1>2. t \in Timed \ SelfResetting /\ ~tag[t].ignor => Tended(tag[t], _checkVal(t, c, chDt))
  BY CheckTended
<1> QED
  BY <1>1, <1>2 DEF Tends

LEMMA SignalledTends ==
  ASSUME NEW t \in Tags, NEW c, Tended(tag[t], c),
         NEW ls, NEW freed, NEW n, NEW q, Signalled(t, c, ls, freed, n, q)
  PROVE  Tends(t)
  BY DEF Signalled, Tends

(* What signals go behind the events that wait.                            *)
LEMMA SignalledEnds ==
  ASSUME AlarmTypeOK, NEW t \in Tags, NEW c, NEW ls, NEW freed,
         NEW n \in Nat, NEW q \in Seq(Events),
         \A s \in Tags : Queued(SetEnd(s)) => In(q, SetEnd(s)),
         Signalled(t, c, ls, freed, n, q)
  PROVE  EndsKept
<1>1. evQ' = q \o SubAlarms(Owner[t], n) /\ SubAlarms(Owner[t], n) \in Seq(Events)
  BY SubAlarmTypes, TagTypes DEF Signalled
<1> QED
  BY <1>1, QueueKeeps DEF EndsKept, Queued

LEMMA CheckedEnds ==
  ASSUME AlarmTypeOK, NEW t \in Tags, NEW c \in InETags, NEW ls,
         NEW n \in Nat, NEW q \in Seq(Events),
         \A s \in Tags : Queued(SetEnd(s)) => In(q, SetEnd(s)),
         Checked(t, c, ls, n, q)
  PROVE  EndsKept
<1>1. signals(t, c) \in BOOLEAN
  BY CheckValTypes
<1>2. n + Count(signals(t, c)) \in Nat
  BY <1>1, CountTypes
<1> QED
  BY <1>2, SignalledEnds DEF Checked

LEMMA SameEnds == ASSUME UNCHANGED evQ PROVE EndsKept
  BY DEF EndsKept, Queued

(* The flip of a flag and a new value or level touch no part of the watch.  *)
LEMMA AskedTends ==
  ASSUME AlarmTypeOK, NEW t \in Tags, Asked(t)
  PROVE  Tends(t) /\ EndsKept
<1>0. tag[t] \in InETags /\ SameWatch(tag[t], tag[t]) /\ evQ \in Seq(Events)
  BY TagTypes DEF SameWatch, AlarmTypeOK
<1>1. ASSUME NEW c \in InETags, SameWatch(tag[t], c),
             tag' = [tag EXCEPT ![t] = c] /\ UNCHANGED evQ
      PROVE  Tends(t) /\ EndsKept
  BY <1>1, SameTended, SameEnds DEF Tends
<1>2. ASSUME NEW c \in InETags, SameWatch(tag[t], c), c.ignor = tag[t].ignor,
             NEW ls, NEW n \in Nat, Checked(t, c, ls, n, evQ)
      PROVE  Tends(t) /\ EndsKept
  <2>1. Tends(t)
    BY <1>2, CheckedTends
  <2>2. EndsKept
    BY <1>0, <1>2, CheckedEnds DEF Queued
  <2> QED
    BY <2>1, <2>2
<1>3. ASSUME NEW c \in InETags, Tended(tag[t], c), NEW ls, NEW freed, NEW n \in Nat,
             Signalled(t, c, ls, freed, n, evQ)
      PROVE  Tends(t) /\ EndsKept
  <2>1. Tends(t)
    BY <1>3, SignalledTends
  <2>2. EndsKept
    BY <1>0, <1>3, SignalledEnds DEF Queued
  <2> QED
    BY <2>1, <2>2
<1>4. CASE _acceptValue(t)
  <2>1. PICK v \in Values \ {tag[t].value} :
          IF accept(tag[t], v).imit
          THEN tag' = [tag EXCEPT ![t] = accept(tag[t], v)] /\ UNCHANGED <<chDt, alarm, evQ>>
          ELSE Checked(t, accept(tag[t], v), lost, 0, evQ)
               /\ chDt' = ChDt(t, accept(tag[t], v), chDt)
    BY <1>4, Zenon DEF _acceptValue
  <2> DEFINE c == accept(tag[t], v)
  <2>2. c \in InETags /\ SameWatch(tag[t], c) /\ c.ignor = tag[t].ignor
    BY <1>0, AcceptTypes DEF accept, SameWatch, InETags
  <2>3. \/ tag' = [tag EXCEPT ![t] = c] /\ UNCHANGED evQ
        \/ Checked(t, c, lost, 0, evQ)
    BY <2>1
  <2> HIDE DEF c
  <2> QED
    BY <1>1, <1>2, <2>2, <2>3
<1>5. CASE QualityChange(t)
  <2> DEFINE e == [ev |-> "Quality", id |-> t]
  <2>1. UNCHANGED tag /\ evQ' = Append(evQ, e) /\ e \in Events
    BY <1>5 DEF QualityChange, Events
  <2>2. Tends(t)
    BY <1>0, <2>1, SameTended DEF Tends, AlarmTypeOK
  <2>3. EndsKept
    BY <1>0, <2>1, QueueAppends DEF EndsKept, Queued
  <2> QED
    BY <2>2, <2>3
<1>6. CASE NeedBe(t)
  <2>1. PICK d \in BOOLEAN, a \in BOOLEAN, timed \in BOOLEAN :
          Signalled(t, needBe(t, tag[t], d, a, timed, connected(t, tag[t])), lost, FALSE,
                    Count(atOnce(t, tag[t], d, a, timed, connected(t, tag[t]))), evQ)
    BY <1>6, Zenon DEF NeedBe
  <2> DEFINE l == connected(t, tag[t])
             c == needBe(t, tag[t], d, a, timed, l)
             n == Count(atOnce(t, tag[t], d, a, timed, l))
  <2>2. l \in BOOLEAN
    BY <1>0, LineTypes
  <2>3. n \in Nat
    BY <1>0, <2>2, NeedBeTypes, CountTypes
  <2>4. Signalled(t, c, lost, FALSE, n, evQ)
    BY <2>1
  <2>5. t \in Timed /\ ~tag[t].ignor => Tended(tag[t], c)
    BY <1>0, <2>2, NeedBeTended
  <2> HIDE DEF c, n, l
  <2>6. Tends(t)
    BY <2>4, <2>5 DEF Signalled, Tends
  <2>7. EndsKept
    BY <1>0, <2>3, <2>4, SignalledEnds DEF Queued
  <2> QED
    BY <2>6, <2>7
<1>7. CASE OnlyChange(t)
  <2> DEFINE c == onlyChange(tag[t])
  <2>1. tag' = [tag EXCEPT ![t] = c] /\ UNCHANGED evQ
    BY <1>7 DEF OnlyChange, AlarmTypeOK
  <2>2. Tended(tag[t], c)
    BY <1>0 DEF onlyChange, Tended, Need, missing, InETags
  <2> HIDE DEF c
  <2> QED
    BY <2>1, <2>2, SameEnds DEF Tends
<1>8. CASE writeImitOn(t)
  <2> DEFINE c  == [tag[t] EXCEPT !.imit = TRUE]
             ls == _sensorConnect(t, c)
             n  == Count(breaks(t, c))
  <2>1. c \in InETags /\ SameWatch(tag[t], c) /\ c.ignor = tag[t].ignor
    BY <1>0 DEF SameWatch, InETags
  <2>2. n \in Nat
    BY <2>1, LineTypes, CountTypes
  <2>3. Checked(t, c, ls, n, evQ) \/ Signalled(t, c, ls, FALSE, n, evQ)
    BY <1>8, Zenon DEF writeImitOn
  <2> HIDE DEF c, ls, n
  <2> QED
    BY <1>2, <1>3, <2>1, <2>2, <2>3, SameTended
<1>9. CASE writeImitOff(t)
  <2> DEFINE c == [tag[t] EXCEPT !.imit = FALSE]
             n == Count(breaks(t, c))
  <2>1. c \in InETags /\ SameWatch(tag[t], c) /\ c.ignor = tag[t].ignor
    BY <1>0 DEF SameWatch, InETags
  <2>2. n \in Nat
    BY <2>1, LineTypes, CountTypes
  <2>3. Checked(t, c, lost, n, evQ) \/ Signalled(t, c, lost, FALSE, n, evQ)
    BY <1>9, Zenon DEF writeImitOff
  <2> HIDE DEF c, n
  <2> QED
    BY <1>2, <1>3, <2>1, <2>2, <2>3, SameTended
<1>10. CASE writeImitVal(t)
  <2>1. PICK v \in Values \ {tag[t].imitVal} :
          LET c == [tag[t] EXCEPT !.preValue = tag[t].imitVal, !.imitVal = v]
          IN  IF c.imit
              THEN Checked(t, c, lost, 0, evQ) /\ chDt' = ChDt(t, c, chDt)
              ELSE tag' = [tag EXCEPT ![t] = c] /\ UNCHANGED <<chDt, alarm, evQ>>
    BY <1>10, Zenon DEF writeImitVal
  <2> DEFINE c == [tag[t] EXCEPT !.preValue = tag[t].imitVal, !.imitVal = v]
  <2>2. c \in InETags /\ SameWatch(tag[t], c) /\ c.ignor = tag[t].ignor
    BY <1>0, TagTypes, AlarmConstants DEF SameWatch, InETags
  <2>3. \/ tag' = [tag EXCEPT ![t] = c] /\ UNCHANGED evQ
        \/ Checked(t, c, lost, 0, evQ)
    BY <2>1
  <2> HIDE DEF c
  <2> QED
    BY <1>1, <1>2, <2>2, <2>3
<1>11. CASE setDetectLevel(t)
  <2>1. PICK l \in Levels \ {tag[t].level} :
          LET c == [tag[t] EXCEPT !.level = l]
          IN  Checked(t, c, lost, 0, evQ) /\ chDt' = ChDt(t, c, chDt)
    BY <1>11, Zenon DEF setDetectLevel
  <2> DEFINE c == [tag[t] EXCEPT !.level = l]
  <2>2. c \in InETags /\ SameWatch(tag[t], c) /\ c.ignor = tag[t].ignor
    BY <1>0, TagTypes, AlarmConstants DEF SameWatch, InETags
  <2>3. Checked(t, c, lost, 0, evQ)
    BY <2>1
  <2> HIDE DEF c
  <2> QED
    BY <1>2, <2>2, <2>3
<1>12. CASE writeIgnorAlarm(t)
  <2> DEFINE c == [tag[t] EXCEPT !.ignor = ~@]
             n == Count(tag[t].alarm /\ tag[t].ignor)
  <2>1. c \in InETags /\ SameWatch(tag[t], c)
    BY <1>0 DEF SameWatch, InETags
  <2>2. n \in Nat
    BY DEF Count
  <2>3. Signalled(t, c, lost, FALSE, n, evQ)
    BY <1>12 DEF writeIgnorAlarm
  <2> HIDE DEF c, n
  <2> QED
    BY <1>3, <2>1, <2>2, <2>3, SameTended
<1> QED
  BY <1>4, <1>5, <1>6, <1>7, <1>8, <1>9, <1>10, <1>11, <1>12 DEF Asked

(* Taking an event that is no end of a timer leaves those that are.        *)
LEMMA OthersTaken ==
  ASSUME AlarmTypeOK, evQ # <<>>, ev.ev # "SetEnd"
  PROVE  /\ Tail(evQ) \in Seq(Events)
         /\ \A t \in Tags : Queued(SetEnd(t)) => In(Tail(evQ), SetEnd(t))
<1>1. evQ \in Seq(Events)
  BY DEF AlarmTypeOK
<1>2. \A t \in Tags : SetEnd(t) # Head(evQ)
  BY DEF SetEnd, ev
<1> QED
  BY <1>1, <1>2, QueueTakes DEF Queued

LEMMA LineTends ==
  ASSUME AlarmTypeOK, LineBack \/ LineBroken
  PROVE  ev.id \in Tags /\ Tends(ev.id) /\ EndsKept
<1> DEFINE t == ev.id
           q == Tail(evQ)
<1>1. t \in Tags /\ q \in Seq(Events) /\ (\A s \in Tags : Queued(SetEnd(s)) => In(q, SetEnd(s)))
  BY HeadOfTag, OthersTaken DEF LineBack, LineBroken, Event
<1>2. tag[t] \in InETags /\ SameWatch(tag[t], tag[t])
  BY <1>1, TagTypes DEF SameWatch
<1>3. ASSUME NEW c \in InETags, Tended(tag[t], c), NEW ls, NEW n \in Nat,
             Signalled(t, c, ls, FALSE, n, q)
      PROVE  Tends(t) /\ EndsKept
  <2>1. Tends(t)
    BY <1>1, <1>3, SignalledTends
  <2>2. EndsKept
    BY <1>1, <1>3, SignalledEnds
  <2> QED
    BY <2>1, <2>2
<1>4. CASE LineBack
  <2> DEFINE ls == _sensorConnect(t, tag[t])
             n  == Count(breaks(t, tag[t]))
  <2>1. n \in Nat
    BY <1>1, <1>2, LineTypes, CountTypes
  <2>2. \/ Signalled(t, tag[t], ls, FALSE, n, q)
        \/ \E v \in Values : Checked(t, accept(tag[t], v), ls, n, q)
    BY <1>4, Zenon DEF LineBack
  <2> HIDE DEF ls, n, t, q
  <2>3. ASSUME NEW v \in Values, NEW c, c = accept(tag[t], v), Checked(t, c, ls, n, q)
        PROVE  Tends(t) /\ EndsKept
    <3>1. c \in InETags /\ SameWatch(tag[t], c) /\ c.ignor = tag[t].ignor
      <4>1. c \in InETags /\ c.ignor = tag[t].ignor
        BY <1>1, <2>3, AcceptTypes
      <4>2. SameWatch(tag[t], c)
        BY <1>2, <2>3 DEF accept, SameWatch, InETags
      <4> QED
        BY <4>1, <4>2
    <3>2. Tends(t)
      BY <1>1, <2>3, <3>1, CheckedTends
    <3>3. EndsKept
      BY <1>1, <2>1, <2>3, <3>1, CheckedEnds
    <3> QED
      BY <3>2, <3>3
  <2>4. Signalled(t, tag[t], ls, FALSE, n, q) => Tends(t) /\ EndsKept
    BY <1>2, <1>3, <2>1, SameTended
  <2> QED
    BY <1>1, <2>2, <2>3, <2>4 DEF t
<1>5. CASE LineBroken
  <2> DEFINE c == [tag[t] EXCEPT !.alarm = @ \/ ~tag[t].imit]
             n == Count(breaks(t, c)) + Count(~tag[t].imit)
  <2>1. c \in InETags /\ Tended(tag[t], c)
    BY <1>2 DEF Tended, Need, missing, InETags
  <2>2. n \in Nat
    <3>1. breaks(t, c) \in BOOLEAN
      BY <1>1, <2>1, LineTypes
    <3>2. Count(breaks(t, c)) \in Nat /\ Count(~tag[t].imit) \in Nat
      BY <3>1 DEF Count
    <3> QED
      BY <3>2
  <2>3. Signalled(t, c, lost, FALSE, n, q)
    BY <1>5, Zenon DEF LineBroken
  <2> HIDE DEF c, n, t, q
  <2> QED
    BY <1>1, <1>3, <2>1, <2>2, <2>3 DEF t
<1> QED
  BY <1>4, <1>5

(* The end of the timer of t: the state is there, not needed or an alarm.  *)
LEMMA SetTimerEndTends ==
  ASSUME AlarmTypeOK, SetTimerEnd
  PROVE  /\ \A s \in Tags \ {ev.id} : tag'[s] = tag[s] /\ (Queued(SetEnd(s)) => Queued(SetEnd(s))')
         /\ ev.id \in Tags
         /\ ~tag[ev.id].ignor /\ Need(tag'[ev.id]) => tag'[ev.id].alarm
<1> DEFINE t == ev.id
           c == _setTimerEnd(tag[t])
           n == Count(overdue(tag[t]))
           q == Tail(evQ)
<1>1. t \in Tags /\ q \in Seq(Events)
  BY HeadOfTag DEF SetTimerEnd
<1>2. tag[t] \in InETags /\ n \in Nat
  BY <1>1, TagTypes DEF Count
<1>3. Signalled(t, c, lost, FALSE, n, q)
  BY Zenon DEF SetTimerEnd
<1>4. tag' = [tag EXCEPT ![t] = c]
  BY <1>3 DEF Signalled
<1>5. evQ' = q \o SubAlarms(Owner[t], n) /\ SubAlarms(Owner[t], n) \in Seq(Events)
  BY <1>1, <1>2, <1>3, SubAlarmTypes, TagTypes DEF Signalled
<1>6. ASSUME NEW s \in Tags \ {t}, Queued(SetEnd(s))
      PROVE  Queued(SetEnd(s))'
  <2>1. evQ # <<>> /\ evQ \in Seq(Events) /\ Head(evQ).id = t
    BY DEF SetTimerEnd, Event, AlarmTypeOK, ev
  <2>2. SetEnd(s) # Head(evQ)
    BY <1>6, <2>1 DEF SetEnd
  <2>3. In(q, SetEnd(s))
    BY <1>6, <2>1, <2>2, QueueTakes DEF Queued
  <2> QED
    BY <1>1, <1>5, <2>3, QueueKeeps DEF Queued
<1>7. ~tag[t].ignor /\ Need(c) => c.alarm
  BY <1>2 DEF _setTimerEnd, Need, missing, overdue, InETags
<1>8. tag'[t] = c /\ \A s \in Tags \ {t} : tag'[s] = tag[s]
  BY <1>1, <1>4 DEF AlarmTypeOK
<1> QED
  BY <1>1, <1>6, <1>7, <1>8

(* A tended tag keeps its guard.                                           *)
LEMMA TendedGuarded ==
  ASSUME AlarmTypeOK, NEW t \in (Tags \cap Timed) \ SelfResetting, ~tag[t].ignor,
         Wanting(t) => Guarded(t), NEW s \in Tags, Tends(s), EndsKept
  PROVE  Wanting(t)' => Guarded(t)'
<1>1. Tended(tag[t], tag'[t])
  <2>1. CASE s = t
    BY <2>1 DEF Tends, AlarmTypeOK
  <2>2. CASE s # t
    <3>1. tag'[t] = tag[t]
      BY <2>2 DEF Tends, AlarmTypeOK
    <3> QED
      BY <3>1 DEF Tended
  <2> QED
    BY <2>1, <2>2
<1> QED
  BY <1>1 DEF EndsKept, Tended, Need, Wanting, Guarded, SetEnd

(* The step of WatchKept.                                                  *)
LEMMA StepGuarded ==
  ASSUME AlarmTypeOK, NEW t \in (Tags \cap Timed) \ SelfResetting, ~tag[t].ignor,
         Wanting(t) => Guarded(t), Next,
         \A u \in {Owner[t], Parent[Owner[t]]} \cap Units : ~ResetAlarm(u)
  PROVE  Wanting(t)' => Guarded(t)'
<1>1. ASSUME NEW s \in Tags, Asked(s)
      PROVE  Wanting(t)' => Guarded(t)'
  BY <1>1, AskedTends, TendedGuarded
<1>2. ASSUME NEW s \in Tags, SetTimerFires(s)
      PROVE  Wanting(t)' => Guarded(t)'
  <2>1. /\ SetEnd(s) \in Events /\ evQ \in Seq(Events)
        /\ evQ' = Append(evQ, SetEnd(s))
        /\ tag' = [tag EXCEPT ![s].timer = FALSE]
    BY <1>2 DEF SetTimerFires, SetEnd, Events, AlarmTypeOK
  <2>2. CASE s = t
    <3>1. Queued(SetEnd(t))'
      BY <2>1, <2>2, QueueAppends DEF Queued
    <3> QED
      BY <3>1 DEF Guarded, SetEnd
  <2>3. CASE s # t
    <3>1. tag'[t] = tag[t]
      BY <2>1, <2>3 DEF AlarmTypeOK
    <3>2. Queued(SetEnd(t)) => Queued(SetEnd(t))'
      BY <2>1, QueueAppends DEF Queued
    <3> QED
      BY <3>1, <3>2 DEF Wanting, Guarded, SetEnd
  <2> QED
    BY <2>2, <2>3
<1>3. ASSUME NEW u \in Units, ResetAlarm(u)
      PROVE  Wanting(t)' => Guarded(t)'
  <2>1. u # Owner[t] /\ u # Parent[Owner[t]]
    BY <1>3
  <2>2. Owner[t] \notin {u} \cup SubsOf(u)
    BY <2>1 DEF SubsOf
  <2>3. /\ tag' = [x \in Tags |-> IF Owner[x] \in {u} \cup SubsOf(u)
                                  THEN resetAlarm(tag[x]) ELSE tag[x]]
        /\ UNCHANGED evQ
    BY <1>3, Zenon DEF ResetAlarm
  <2>4. tag'[t] = tag[t]
    BY <2>2, <2>3
  <2> QED
    BY <2>3, <2>4 DEF Wanting, Guarded, Queued
<1>4. CASE SetTimerEnd
  <2>1. CASE t = ev.id
    BY <1>4, <2>1, SetTimerEndTends DEF Wanting, Guarded, Need
  <2>2. CASE t # ev.id
    BY <1>4, <2>2, SetTimerEndTends DEF Wanting, Guarded, SetEnd
  <2> QED
    BY <2>1, <2>2
<1>5. CASE LineBack \/ LineBroken
  BY <1>5, LineTends, TendedGuarded
<1>6. CASE detectSubUnitAlarm
  <2>1. UNCHANGED tag /\ evQ # <<>> /\ ev.ev = "SubAlarm"
    BY <1>6 DEF detectSubUnitAlarm, Event
  <2>2. PICK w \in Units : Parent[w] \in Units /\ ev = SubAlarm(w)
    BY <2>1 DEF AlarmTypeOK, ev, Events
  <2>3. /\ evQ' = Tail(evQ) \o SubAlarms(Parent[w], 1)
        /\ SubAlarms(Parent[w], 1) \in Seq(Events)
    BY <1>6, <2>2, SubAlarmTypes DEF detectSubUnitAlarm, SubAlarm
  <2>4. Queued(SetEnd(t)) => Queued(SetEnd(t))'
    BY <2>1, <2>3, OthersTaken, QueueKeeps DEF Queued
  <2> QED
    BY <2>1, <2>4 DEF Wanting, Guarded, SetEnd
<1> QED
  BY <1>1, <1>2, <1>3, <1>4, <1>5, <1>6 DEF Next, UnitsThread

(* A needed state that is missing keeps its alarm, its timer or the end of *)
(* the timer in the queue, for every set of tags and units, through values, *)
(* broken lines, imitation, moved levels and new requests in any order;    *)
(* only a reset of the unit or of the one above, or ignoring, loses it.    *)
THEOREM WatchHolds == Spec => WatchKept
<1>1. ASSUME AlarmTypeOK, [Next]_vars, NEW t \in (Tags \cap Timed) \ SelfResetting,
             Wanting(t) => Guarded(t), Wanting(t)', ~Guarded(t)', ~tag[t].ignor,
             \A u \in {Owner[t], Parent[Owner[t]]} \cap Units : ~ResetAlarm(u)
      PROVE  FALSE
  <2>1. CASE Next
    BY <1>1, <2>1, StepGuarded
  <2>2. CASE UNCHANGED vars
    BY <1>1, <2>2 DEF vars, Wanting, Guarded, Queued
  <2> QED
    BY <1>1, <2>1, <2>2
<1>2. AlarmTypeOK /\ [Next]_vars =>
        [\A t \in (Tags \cap Timed) \ SelfResetting :
           /\ Wanting(t) => Guarded(t)
           /\ Wanting(t)' /\ ~Guarded(t)'
           => \/ tag[t].ignor
              \/ \E u \in {Owner[t], Parent[Owner[t]]} \cap Units : ResetAlarm(u)]_vars
  BY <1>1
<1> QED
  BY <1>2, AlarmTypeCorrect, PTL DEF Spec, WatchKept

=============================================================================
