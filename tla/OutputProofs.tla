---------------------------- MODULE OutputProofs ----------------------------
(***************************************************************************)
(* Proofs of the safety of output tags and their driver: the types, that   *)
(* polling goes on, that the list of tasks is bounded and that the units   *)
(* follow the driver, for every group, every set of values and every       *)
(* division of the group into ranges, whatever breaks and is clicked when. *)
(***************************************************************************)
EXTENDS OutputProps, SequenceTheorems, TLAPS

(* The driver s goes on; a list has no task twice; what is told follows    *)
(* the tags, for units that believe e.                                     *)
Alive(s) == s.started => s.shots + Len(s.requests) > 0

Distinct(tasks) == \A i, j \in DOMAIN tasks : tasks[i] = tasks[j] => i = j

LastTold(q, v) ==
  \A i \in DOMAIN q :
    ValueAt(q, i) /\ (\A j \in DOMAIN q : j > i => ~ValueAt(q, j)) => q[i].val = v

NoneTold(q) == \A i \in DOMAIN q : ~ValueAt(q, i)

Follows(q, v, b) == LastTold(q, v) /\ (NoneTold(q) => b = v)

Believed(s, e) == \A t \in Tags : Follows(s.told[t], s.tag[t].value, e[t])

(* What the steps that only speak of tags keep.                            *)
Same(s, r) ==
  /\ r.started = s.started /\ r.shots = s.shots
  /\ r.requests = s.requests /\ r.tasks = s.tasks

(* r comes from s by a change that keeps types and beliefs.                *)
Fine(s, r) ==
  /\ r \in DriverRecord
  /\ \A e \in [Tags -> Values] : Believed(s, e) => Believed(r, e)

Kept(s, r) == Fine(s, r) /\ Same(s, r)

LEMMA FineTrans ==
  ASSUME NEW s, NEW r, NEW q, Fine(s, r), Fine(r, q) PROVE Fine(s, q)
BY DEF Fine

LEMMA KeptTrans ==
  ASSUME NEW s, NEW r, NEW q, Kept(s, r), Kept(r, q) PROVE Kept(s, q)
BY FineTrans DEF Kept, Same

LEMMA KeptSelf == ASSUME NEW s \in DriverRecord PROVE Kept(s, s)
BY DEF Kept, Fine, Same

-----------------------------------------------------------------------------
(* What is told.                                                           *)

(* Something else than a value is told.                                    *)
LEMMA ToldOther ==
  ASSUME NEW q \in Seq(Told), NEW x \in Told, x.ev # "value",
         NEW v, NEW b, Follows(q, v, b)
  PROVE  Append(q, x) \in Seq(Told) /\ Follows(Append(q, x), v, b)
<1> DEFINE r == Append(q, x)
<1>1. /\ r \in Seq(Told) /\ DOMAIN r = 1 .. Len(q) + 1 /\ DOMAIN q = 1 .. Len(q)
      /\ Len(q) \in Nat
      /\ \A i \in 1 .. Len(q) : r[i] = q[i]
      /\ r[Len(q) + 1] = x
  BY AppendProperties, LenProperties
<1> HIDE DEF r
<1>2. \A i \in DOMAIN r : ValueAt(r, i) <=> ValueAt(q, i)
  BY <1>1 DEF ValueAt
<1>3. LastTold(r, v)
  BY <1>1, <1>2 DEF LastTold, Follows, ValueAt
<1>4. NoneTold(r) => b = v
  BY <1>1, <1>2 DEF NoneTold, Follows
<1> QED BY <1>1, <1>3, <1>4 DEF Follows, r

(* A value is told.                                                        *)
LEMMA ToldValue ==
  ASSUME NEW q \in Seq(Told), NEW v \in Values, NEW b
  PROVE  LET x == [ev |-> "value", val |-> v]
         IN  Append(q, x) \in Seq(Told) /\ Follows(Append(q, x), v, b)
<1> DEFINE x == [ev |-> "value", val |-> v]
           r == Append(q, x)
<1>0. x \in Told /\ x.ev = "value" /\ x.val = v
  BY DEF Told
<1> HIDE DEF x
<1>1. /\ r \in Seq(Told) /\ DOMAIN r = 1 .. Len(q) + 1
      /\ Len(q) \in Nat
      /\ r[Len(q) + 1] = x
  BY <1>0, AppendProperties, LenProperties
<1> HIDE DEF r
<1>2. ValueAt(r, Len(q) + 1) /\ Len(q) + 1 \in DOMAIN r
  BY <1>0, <1>1 DEF ValueAt
<1>3. LastTold(r, v)
  BY <1>0, <1>1, <1>2 DEF LastTold
<1>4. ~NoneTold(r)
  BY <1>2 DEF NoneTold
<1> QED BY <1>1, <1>3, <1>4 DEF Follows, r, x

(* What is heard: a value is believed, anything else changes nothing.      *)
LEMMA Heard ==
  ASSUME NEW q \in Seq(Told), q # <<>>, NEW v, NEW b, Follows(q, v, b), NEW c,
         Head(q).ev = "value" => c = Head(q).val,
         Head(q).ev # "value" => c \in {b, v}
  PROVE  Tail(q) \in Seq(Told) /\ Follows(Tail(q), v, c)
<1> DEFINE r == Tail(q)
<1>1. /\ r \in Seq(Told) /\ Len(r) = Len(q) - 1 /\ Len(q) \in Nat \ {0}
      /\ DOMAIN r = 1 .. Len(q) - 1 /\ DOMAIN q = 1 .. Len(q)
      /\ \A i \in 1 .. Len(q) - 1 : r[i] = q[i + 1]
      /\ Head(q) = q[1]
  BY HeadTailProperties, LenProperties, EmptySeq
<1> HIDE DEF r
<1>2. \A i \in DOMAIN r : /\ i + 1 \in DOMAIN q
                          /\ ValueAt(r, i) <=> ValueAt(q, i + 1)
  BY <1>1 DEF ValueAt
<1>3. ASSUME NEW i \in DOMAIN r, ValueAt(r, i), \A j \in DOMAIN r : j > i => ~ValueAt(r, j)
      PROVE  r[i].val = v
  <2>1. ASSUME NEW j \in DOMAIN q, j > i + 1 PROVE ~ValueAt(q, j)
    <3>1. j - 1 \in DOMAIN r /\ j - 1 > i /\ (j - 1) + 1 = j
      BY <1>1, <2>1
    <3> QED BY <1>2, <1>3, <3>1
  <2>2. q[i + 1].val = v
    BY <1>2, <1>3, <2>1 DEF Follows, LastTold
  <2> QED BY <1>1, <2>2
<1>4. ASSUME NoneTold(r) PROVE c = v
  <2>1. ASSUME NEW j \in DOMAIN q, j > 1 PROVE ~ValueAt(q, j)
    <3>1. j - 1 \in DOMAIN r /\ (j - 1) + 1 = j
      BY <1>1, <2>1
    <3> QED BY <1>2, <1>4, <3>1 DEF NoneTold
  <2>2. CASE Head(q).ev = "value"
    <3>1. ValueAt(q, 1) /\ 1 \in DOMAIN q
      BY <1>1, <2>2 DEF ValueAt
    <3>2. q[1].val = v
      BY <2>1, <3>1 DEF Follows, LastTold
    <3> QED BY <1>1, <2>2, <3>2
  <2>3. CASE Head(q).ev # "value"
    <3>1. NoneTold(q)
      <4>1. ASSUME NEW j \in DOMAIN q PROVE ~ValueAt(q, j)
        BY <1>1, <2>1, <2>3 DEF ValueAt
      <4> QED BY <4>1 DEF NoneTold
    <3> QED BY <2>3, <3>1 DEF Follows
  <2> QED BY <2>2, <2>3
<1> QED BY <1>1, <1>3, <1>4 DEF Follows, LastTold, NoneTold, r

-----------------------------------------------------------------------------
(* The tags and the fillers.                                               *)

LEMMA TagQuality ==
  ASSUME NEW s \in DriverRecord, NEW ts, NEW q \in Qualities
  PROVE  Kept(s, setQuality(s, ts, q))
<1> DEFINE r == setQuality(s, ts, q)
           tg == [t \in Tags |-> IF t \in ts THEN [s.tag[t] EXCEPT !.quality = q] ELSE s.tag[t]]
           td == [t \in Tags |-> IF t \in ts /\ s.tag[t].quality # q THEN Append(s.told[t], [ev |-> "quality"]) ELSE s.told[t]]
<1>1. /\ \A t \in Tags : s.tag[t] \in TagRecord /\ s.told[t] \in Seq(Told)
      /\ r = [s EXCEPT !.tag = tg, !.told = td]
  BY DEF setQuality, DriverRecord
<1>2. ASSUME NEW t \in Tags
      PROVE  tg[t] \in TagRecord /\ tg[t].value = s.tag[t].value
  <2>1. s.tag[t] \in TagRecord
    BY <1>1
  <2> QED BY <2>1 DEF TagRecord
<1>3. ASSUME NEW t \in Tags, NEW b, Follows(s.told[t], s.tag[t].value, b)
      PROVE  Follows(td[t], tg[t].value, b)
  <2>1. s.told[t] \in Seq(Told)
    BY <1>1
  <2>2. [ev |-> "quality"] \in Told /\ [ev |-> "quality"].ev # "value"
    BY DEF Told
  <2>3. Follows(Append(s.told[t], [ev |-> "quality"]), s.tag[t].value, b)
    BY <1>3, <2>1, <2>2, ToldOther
  <2> QED BY <1>2, <1>3, <2>3
<1>4. ASSUME NEW t \in Tags PROVE td[t] \in Seq(Told)
  <2>1. s.told[t] \in Seq(Told)
    BY <1>1
  <2>2. [ev |-> "quality"] \in Told
    BY DEF Told
  <2> QED BY <2>1, <2>2, AppendProperties
<1>5. tg \in [Tags -> TagRecord] /\ td \in [Tags -> Seq(Told)]
  BY <1>2, <1>4
<1> HIDE DEF tg, td, r
<1>6. r \in DriverRecord /\ Same(s, r) /\ r.tag = tg /\ r.told = td
  BY <1>1, <1>5 DEF DriverRecord, Same
<1>7. Fine(s, r)
  BY <1>3, <1>6 DEF Fine, Believed
<1> QED BY <1>6, <1>7 DEF Kept, r

LEMMA TagValue ==
  ASSUME NEW s \in DriverRecord, NEW ts, NEW vals \in [Tags -> Values]
  PROVE  Kept(s, setValue(s, ts, vals))
<1> DEFINE r == setValue(s, ts, vals)
           tg == [t \in Tags |-> IF t \in ts THEN [s.tag[t] EXCEPT !.value = vals[t],
                                 !.newValue = IF s.tag[t].ready THEN vals[t]
                                              ELSE s.tag[t].newValue] ELSE s.tag[t]]
           td == [t \in Tags |-> IF t \in ts /\ s.tag[t].value # vals[t] THEN Append(s.told[t], [ev |-> "value", val |-> vals[t]]) ELSE s.told[t]]
<1>1. /\ \A t \in Tags : s.tag[t] \in TagRecord /\ s.told[t] \in Seq(Told)
      /\ r = [s EXCEPT !.tag = tg, !.told = td]
  BY DEF setValue, DriverRecord
<1>2. ASSUME NEW t \in Tags
      PROVE  tg[t] \in TagRecord /\ tg[t].value = IF t \in ts THEN vals[t] ELSE s.tag[t].value
  <2>1. s.tag[t] \in TagRecord
    BY <1>1
  <2> QED BY <2>1 DEF TagRecord
<1>3. ASSUME NEW t \in Tags, NEW b, Follows(s.told[t], s.tag[t].value, b)
      PROVE  Follows(td[t], tg[t].value, b)
  <2>1. s.told[t] \in Seq(Told) /\ vals[t] \in Values
    BY <1>1
  <2>2. Follows(Append(s.told[t], [ev |-> "value", val |-> vals[t]]), vals[t], b)
    BY <2>1, ToldValue
  <2> QED BY <1>2, <1>3, <2>2
<1>4. ASSUME NEW t \in Tags PROVE td[t] \in Seq(Told)
  <2>1. s.told[t] \in Seq(Told) /\ vals[t] \in Values
    BY <1>1
  <2> QED BY <2>1, ToldValue
<1>5. tg \in [Tags -> TagRecord] /\ td \in [Tags -> Seq(Told)]
  BY <1>2, <1>4
<1> HIDE DEF tg, td, r
<1>6. r \in DriverRecord /\ Same(s, r) /\ r.tag = tg /\ r.told = td
  BY <1>1, <1>5 DEF DriverRecord, Same
<1>7. Fine(s, r)
  BY <1>3, <1>6 DEF Fine, Believed
<1> QED BY <1>6, <1>7 DEF Kept, r

LEMMA NewValues ==
  ASSUME NEW s \in DriverRecord PROVE newValues(s) \in [Tags -> Values]
BY DEF newValues, DriverRecord, TagRecord

(* A change of nothing that is told and of no value keeps what is believed. *)
LEMMA Untold ==
  ASSUME NEW s, NEW r \in DriverRecord, r.told = s.told,
         \A t \in Tags : r.tag[t].value = s.tag[t].value
  PROVE  Fine(s, r)
BY DEF Fine, Believed

LEMMA ReadyFiller ==
  ASSUME NEW s \in DriverRecord, NEW ts PROVE Kept(s, readyFiller(s, ts))
<1> DEFINE r == readyFiller(s, ts)
<1>1. /\ s.tag \in [Tags -> TagRecord]
      /\ r = [s EXCEPT !.tag = r.tag]
      /\ \A t \in Tags : r.tag[t] = IF t \in ts THEN [s.tag[t] EXCEPT !.ready = TRUE] ELSE s.tag[t]
      /\ r.tag = [t \in Tags |-> r.tag[t]]
  BY DEF readyFiller, DriverRecord
<1> HIDE DEF r
<1>2. \A t \in Tags : r.tag[t] \in TagRecord /\ r.tag[t].value = s.tag[t].value
  BY <1>1 DEF TagRecord
<1>3. r \in DriverRecord /\ Same(s, r) /\ r.told = s.told
  BY <1>1, <1>2 DEF DriverRecord, Same
<1> QED BY <1>2, <1>3, Untold DEF Kept, r

LEMMA WriteValue ==
  ASSUME NEW s \in DriverRecord, NEW t \in Tags, NEW v \in Values
  PROVE  Kept(s, writeValue(s, t, v))
<1> DEFINE r == writeValue(s, t, v)
           x == [ev |-> "write", tag |-> t]
           new == [s.tag[t] EXCEPT !.newValue = v, !.ready = FALSE]
<1>1. new \in TagRecord /\ new.value = s.tag[t].value
  BY DEF DriverRecord, TagRecord
<1>2. Append(s.posted, x) \in Seq(Posts)
  BY AppendProperties DEF DriverRecord, Posts
<1>3. r = [s EXCEPT !.tag[t] = new, !.posted = Append(s.posted, x)]
  BY DEF writeValue
<1> HIDE DEF r, x, new
<1>4. r \in DriverRecord /\ Same(s, r) /\ r.told = s.told
  BY <1>1, <1>2, <1>3 DEF DriverRecord, Same
<1>5. \A i \in Tags : r.tag[i].value = s.tag[i].value
  BY <1>1, <1>3 DEF DriverRecord
<1> QED BY <1>4, <1>5, Untold DEF Kept, r

LEMMA Update ==
  ASSUME NEW s \in DriverRecord PROVE Kept(s, update(s))
<1> DEFINE common == {s.tag[t].quality : t \in Tags}
           g == IF \E q \in Qualities : common = {q}
                THEN CHOOSE q \in Qualities : common = {q} ELSE "Check"
<1>1. g \in Qualities \cup {"Check"}
  OBVIOUS
<1>2. update(s) = [s EXCEPT !.group = g, !.due = FALSE]
  BY DEF update
<1> HIDE DEF g, common
<1>3. update(s) \in DriverRecord /\ Same(s, update(s)) /\ update(s).told = s.told
      /\ update(s).tag = s.tag
  BY <1>1, <1>2 DEF DriverRecord, Same
<1> QED BY <1>3, Untold DEF Kept

-----------------------------------------------------------------------------
(* The driver.                                                             *)

(* r comes from s by a step that keeps the list of tasks in order as well. *)
Good(s, r) == Fine(s, r) /\ (Distinct(s.tasks) => Distinct(r.tasks))

LEMMA KeptGood ==
  ASSUME NEW s, NEW r, Kept(s, r) PROVE Good(s, r) /\ (Alive(s) => Alive(r))
BY DEF Kept, Same, Good, Alive

LEMMA GoodTrans ==
  ASSUME NEW s, NEW r, NEW q, Good(s, r), Good(r, q) PROVE Good(s, q)
BY FineTrans DEF Good

(* Nothing told and no tag changed.                                        *)
LEMMA Plain ==
  ASSUME NEW s, NEW r \in DriverRecord, r.told = s.told, r.tag = s.tag
  PROVE  Fine(s, r)
BY Untold

LEMMA ScheduleHandler ==
  ASSUME NEW s \in DriverRecord
  PROVE  Good(s, scheduleHandler(s)) /\ Alive(scheduleHandler(s))
<1> DEFINE r == scheduleHandler(s)
<1>1. /\ r \in DriverRecord /\ r.told = s.told /\ r.tag = s.tag /\ r.tasks = s.tasks
      /\ r.requests = s.requests /\ r.started = s.started
      /\ r.shots = IF s.started THEN s.shots + 1 ELSE s.shots
  <2>1. CASE s.started
    <3> DEFINE n == s.shots + 1
    <3>1. n \in Nat
      BY DEF DriverRecord
    <3>2. r = [s EXCEPT !.shots = n]
      BY <2>1 DEF scheduleHandler
    <3> HIDE DEF r, n
    <3>3. r \in DriverRecord /\ r.told = s.told /\ r.tag = s.tag /\ r.tasks = s.tasks
          /\ r.requests = s.requests /\ r.started = s.started /\ r.shots = n
      BY <3>1, <3>2 DEF DriverRecord
    <3> QED BY <2>1, <3>3 DEF n
  <2>2. CASE ~s.started
    BY <2>2 DEF scheduleHandler, DriverRecord
  <2> QED BY <2>1, <2>2
<1>2. s.shots \in Nat /\ Len(s.requests) \in Nat
  BY LenProperties DEF DriverRecord
<1> HIDE DEF r
<1>3. Alive(r)
  BY <1>1, <1>2 DEF Alive
<1> QED BY <1>1, <1>3, Plain DEF Good, r

LEMMA DoNext ==
  ASSUME NEW s \in DriverRecord, NEW task
  PROVE  Good(s, doNext(s, task)) /\ Alive(doNext(s, task))
<1> DEFINE u == IF task.write THEN s ELSE update(s)
<1>1. Kept(s, u)
  BY Update, KeptSelf
<1>2. u \in DriverRecord /\ Good(s, u)
  BY <1>1, KeptGood DEF Kept, Fine
<1>3. doNext(s, task) = scheduleHandler(u)
  BY DEF doNext
<1> HIDE DEF u
<1> QED BY <1>2, <1>3, ScheduleHandler, GoodTrans

LEMMA Connect ==
  ASSUME NEW s \in DriverRecord, NEW c \in Links
  PROVE  Good(s, connect(s, c)) /\ (Alive(s) => Alive(connect(s, c)))
<1> DEFINE r == connect(s, c)
<1>0. s.shots \in Nat /\ Len(s.requests) \in Nat
  BY LenProperties DEF DriverRecord
<1>1. CASE s.conn = "on"
  BY <1>1, KeptSelf, KeptGood DEF connect
<1>2. CASE s.conn = "connecting" \/ (s.conn = "off" /\ c = "off")
  <2> DEFINE u == IF s.group \in {"Good", "Check"} THEN setQuality(s, Tags, "Bad") ELSE s
  <2>1. Kept(s, u)
    BY KeptSelf, TagQuality DEF Qualities
  <2>2. u \in DriverRecord /\ Good(s, u) /\ (Alive(s) => Alive(u))
    BY <2>1, KeptGood DEF Kept, Fine
  <2>3. r = IF s.noError THEN [u EXCEPT !.noError = FALSE] ELSE s
    BY <1>2 DEF connect
  <2> HIDE DEF u
  <2>4. CASE s.noError
    <3>1. r = [u EXCEPT !.noError = FALSE]
      BY <2>3, <2>4
    <3>2. r \in DriverRecord /\ r.told = u.told /\ r.tag = u.tag /\ r.tasks = u.tasks
          /\ r.requests = u.requests /\ r.started = u.started /\ r.shots = u.shots
      BY <2>2, <3>1 DEF DriverRecord
    <3>3. Kept(u, r)
      BY <3>2, Plain DEF Kept, Same
    <3> HIDE DEF r
    <3>4. Good(u, r) /\ (Alive(u) => Alive(r))
      BY <3>3, KeptGood
    <3> QED BY <2>2, <3>4, GoodTrans DEF r
  <2>5. CASE ~s.noError
    BY <2>3, <2>5, KeptSelf, KeptGood
  <2> QED BY <2>4, <2>5
<1>3. CASE ~(s.conn = "on" \/ s.conn = "connecting" \/ (s.conn = "off" /\ c = "off"))
  <2> DEFINE err   == s.noError \/ c = "on"
             yes   == TRUE
             shots == IF s.started THEN s.shots ELSE s.shots + 1
  <2>0. err \in BOOLEAN /\ yes \in BOOLEAN /\ shots \in Nat
    BY <1>0
  <2>1. r = [s EXCEPT !.conn = c, !.noError = err, !.started = yes, !.shots = shots]
    BY <1>3 DEF connect
  <2> HIDE DEF err, yes
  <2>2. r \in DriverRecord /\ r.told = s.told /\ r.tag = s.tag /\ r.tasks = s.tasks
        /\ r.requests = s.requests
        /\ r.shots = IF s.started THEN s.shots ELSE s.shots + 1
    <3> HIDE DEF shots, r
    <3>1. r \in DriverRecord /\ r.told = s.told /\ r.tag = s.tag /\ r.tasks = s.tasks
          /\ r.requests = s.requests /\ r.shots = shots
      BY <2>0, <2>1 DEF DriverRecord
    <3> QED BY <3>1 DEF shots
  <2> HIDE DEF r
  <2>3. Alive(s) => Alive(r)
    BY <1>0, <2>2 DEF Alive
  <2> QED BY <2>2, <2>3, Plain DEF Good, r
<1> QED BY <1>1, <1>2, <1>3

LEMMA Perform ==
  ASSUME NEW s \in DriverRecord, NEW task \in Tasks, NEW c \in Links
  PROVE  Good(s, perform(s, task, c)) /\ Alive(perform(s, task, c))
<1> DEFINE r == IF s.started THEN connect(s, c) ELSE s
           q == [task |-> task, vals |-> newValues(r), done |-> FALSE]
           p == perform(s, task, c)
<1>1. r \in DriverRecord /\ Good(s, r)
  BY Connect, KeptSelf, KeptGood DEF Good, Fine
<1>2. CASE r.conn = "on"
  <2>0. FALSE \in BOOLEAN
    OBVIOUS
  <2>1. q \in Requests
    BY <1>1, <2>0, NewValues DEF Requests
  <2>2. p = [r EXCEPT !.requests = Append(r.requests, q)]
    BY <1>2 DEF perform
  <2> HIDE DEF r, q, p
  <2>3. /\ Append(r.requests, q) \in Seq(Requests)
        /\ Len(Append(r.requests, q)) = Len(r.requests) + 1
        /\ Len(r.requests) \in Nat /\ r.shots \in Nat
    BY <1>1, <2>1, AppendProperties, LenProperties DEF DriverRecord
  <2>4. p \in DriverRecord /\ p.told = r.told /\ p.tag = r.tag /\ p.tasks = r.tasks
        /\ p.shots = r.shots /\ p.requests = Append(r.requests, q)
    BY <1>1, <2>2, <2>3 DEF DriverRecord
  <2>5. Alive(p)
    BY <2>3, <2>4 DEF Alive
  <2>6. Good(r, p)
    BY <2>4, Plain DEF Good
  <2> QED BY <1>1, <2>5, <2>6, GoodTrans DEF p
<1>3. CASE r.conn # "on"
  <2>1. p = doNext(setQuality(r, task.tags, "Bad"), task)
    BY <1>3 DEF perform
  <2>2. Kept(r, setQuality(r, task.tags, "Bad"))
    BY <1>1, TagQuality DEF Qualities
  <2> HIDE DEF r, p
  <2>3. Good(r, setQuality(r, task.tags, "Bad")) /\ setQuality(r, task.tags, "Bad") \in DriverRecord
    BY <2>2, KeptGood DEF Kept, Fine
  <2> QED BY <1>1, <2>1, <2>3, DoNext, GoodTrans DEF p
<1> QED BY <1>2, <1>3

LEMMA GetTask ==
  ASSUME NEW s \in DriverRecord PROVE Good(s, getTask(s)) /\ getTask(s) \in DriverRecord
<1> DEFINE ts == [i \in DOMAIN Ranges |-> readTask(Ranges[i])]
<1>1. CASE s.due
  <2>1. Len(Ranges) \in Nat /\ DOMAIN Ranges = 1 .. Len(Ranges)
        /\ \A i \in DOMAIN Ranges : Ranges[i] \in (SUBSET Tags) \ {{}}
    BY ModBusConstants, LenProperties, ElementOfSeq
  <2>0. FALSE \in BOOLEAN
    OBVIOUS
  <2>2. \A i \in 1 .. Len(Ranges) : ts[i] \in Tasks
    BY <2>0, <2>1 DEF readTask, Tasks
  <2>3. ts \in Seq(Tasks)
    BY <2>1, <2>2
  <2>4. Distinct(ts)
    <3> SUFFICES ASSUME NEW i \in DOMAIN ts, NEW j \in DOMAIN ts, ts[i] = ts[j] PROVE i = j
      BY DEF Distinct
    <3>1. Ranges[i] = Ranges[j] /\ Ranges[i] # {}
      BY <2>1 DEF readTask
    <3> QED BY <3>1, ModBusConstants
  <2>5. getTask(s) = [s EXCEPT !.tasks = ts]
    BY <1>1 DEF getTask
  <2> HIDE DEF ts
  <2>6. getTask(s) \in DriverRecord /\ getTask(s).told = s.told /\ getTask(s).tag = s.tag
        /\ getTask(s).tasks = ts
    BY <2>3, <2>5 DEF DriverRecord
  <2> QED BY <2>4, <2>6, Plain DEF Good
<1>2. CASE ~s.due
  BY <1>2, KeptSelf, KeptGood DEF getTask
<1> QED BY <1>1, <1>2

LEMMA NextTask ==
  ASSUME NEW s \in DriverRecord, NEW c \in Links
  PROVE  Good(s, handleNextTask(s, c)) /\ Alive(handleNextTask(s, c))
<1>1. CASE s.tasks = <<>>
  BY <1>1, GetTask, ScheduleHandler, GoodTrans DEF handleNextTask
<1>2. CASE s.tasks # <<>>
  <2> DEFINE r == [s EXCEPT !.tasks = Tail(s.tasks)]
  <2>1. s.tasks \in Seq(Tasks)
    BY DEF DriverRecord
  <2>2. Head(s.tasks) \in Tasks /\ Tail(s.tasks) \in Seq(Tasks)
        /\ DOMAIN Tail(s.tasks) = 1 .. Len(s.tasks) - 1 /\ DOMAIN s.tasks = 1 .. Len(s.tasks)
        /\ Len(s.tasks) \in Nat
        /\ \A i \in 1 .. Len(s.tasks) - 1 : Tail(s.tasks)[i] = s.tasks[i + 1]
    BY <1>2, <2>1, HeadTailProperties, LenProperties
  <2>3. Distinct(s.tasks) => Distinct(Tail(s.tasks))
    <3> SUFFICES ASSUME Distinct(s.tasks), NEW i \in DOMAIN Tail(s.tasks),
                        NEW j \in DOMAIN Tail(s.tasks), Tail(s.tasks)[i] = Tail(s.tasks)[j]
                 PROVE  i = j
      BY DEF Distinct
    <3>1. i + 1 \in DOMAIN s.tasks /\ j + 1 \in DOMAIN s.tasks /\ i \in Int /\ j \in Int
          /\ s.tasks[i + 1] = s.tasks[j + 1]
      BY <2>2
    <3>2. i + 1 = j + 1
      BY <3>1 DEF Distinct
    <3> QED BY <3>1, <3>2
  <2>4. r \in DriverRecord /\ r.told = s.told /\ r.tag = s.tag /\ r.tasks = Tail(s.tasks)
    BY <2>2 DEF DriverRecord
  <2>5. handleNextTask(s, c) = perform(r, Head(s.tasks), c)
    BY <1>2 DEF handleNextTask
  <2> HIDE DEF r
  <2>6. Good(s, r)
    BY <2>3, <2>4, Plain DEF Good
  <2> QED BY <2>2, <2>4, <2>5, <2>6, Perform, GoodTrans
<1> QED BY <1>1, <1>2

(* A write takes the place of the one that waits.                          *)
LEMMA Without ==
  ASSUME NEW tasks \in Seq(Tasks), Distinct(tasks), NEW t \in Tags
  PROVE  LET w == without(tasks, t)
         IN  /\ w \in Seq(Tasks) /\ Distinct(w)
             /\ \A i \in DOMAIN w : w[i] # writeTask(t)
<1> DEFINE w == without(tasks, t)
           n == Len(tasks)
<1>1. n \in Nat /\ DOMAIN tasks = 1 .. n /\ \A i \in 1 .. n : tasks[i] \in Tasks
  BY LenProperties, ElementOfSeq
<1>2. CASE \E i \in DOMAIN tasks : tasks[i] = writeTask(t)
  <2> DEFINE k == CHOOSE i \in DOMAIN tasks : tasks[i] = writeTask(t)
             a == SubSeq(tasks, 1, k - 1)
             b == SubSeq(tasks, k + 1, n)
  <2>1. k \in 1 .. n /\ tasks[k] = writeTask(t)
    BY <1>1, <1>2
  <2>2. w = a \o b
    BY <1>2 DEF without, RemoveAt
  <2> HIDE DEF w, k, n
  <2>3. /\ a \in Seq(Tasks) /\ Len(a) = k - 1 /\ \A i \in 1 .. k - 1 : a[i] = tasks[i]
    <3>1. 1 \in Int /\ k - 1 \in Int /\ \A i \in 1 .. k - 1 : tasks[i] \in Tasks
      BY <1>1, <2>1
    <3>2. /\ a \in Seq(Tasks)
          /\ Len(a) = IF 1 <= k - 1 THEN (k - 1) - 1 + 1 ELSE 0
          /\ \A i \in 1 .. (k - 1) - 1 + 1 : a[i] = tasks[1 + i - 1]
      BY <3>1, SubSeqProperties
    <3> HIDE DEF a
    <3> QED BY <2>1, <3>2
  <2>4. /\ b \in Seq(Tasks) /\ Len(b) = n - k /\ \A i \in 1 .. n - k : b[i] = tasks[i + k]
    <3>1. n \in Int /\ k + 1 \in Int /\ \A i \in k + 1 .. n : tasks[i] \in Tasks
      BY <1>1, <2>1
    <3>2. /\ b \in Seq(Tasks)
          /\ Len(b) = IF k + 1 <= n THEN n - (k + 1) + 1 ELSE 0
          /\ \A i \in 1 .. n - (k + 1) + 1 : b[i] = tasks[(k + 1) + i - 1]
      BY <3>1, SubSeqProperties
    <3> HIDE DEF b
    <3> QED BY <1>1, <2>1, <3>2
  <2> HIDE DEF a, b
  <2>5. /\ w \in Seq(Tasks) /\ Len(w) = n - 1 /\ DOMAIN w = 1 .. n - 1
        /\ \A i \in 1 .. n - 1 : w[i] = IF i <= k - 1 THEN tasks[i] ELSE tasks[i + 1]
    <3>1. /\ a \o b \in Seq(Tasks) /\ Len(a \o b) = Len(a) + Len(b)
          /\ \A i \in 1 .. Len(a) + Len(b) :
               (a \o b)[i] = IF i <= Len(a) THEN a[i] ELSE b[i - Len(a)]
      BY <2>3, <2>4, ConcatProperties
    <3>2. w \in Seq(Tasks) /\ Len(w) = n - 1
      BY <1>1, <2>1, <2>2, <2>3, <2>4, <3>1
    <3>3. ASSUME NEW i \in 1 .. n - 1
          PROVE  w[i] = IF i <= k - 1 THEN tasks[i] ELSE tasks[i + 1]
      <4>1. w[i] = IF i <= k - 1 THEN a[i] ELSE b[i - (k - 1)]
        BY <1>1, <2>1, <2>2, <2>3, <2>4, <3>1
      <4>2. CASE i <= k - 1
        BY <1>1, <2>1, <2>3, <4>1, <4>2
      <4>3. CASE ~(i <= k - 1)
        <5>1. i - (k - 1) \in 1 .. n - k /\ (i - (k - 1)) + k = i + 1
          BY <1>1, <2>1, <4>3
        <5> QED BY <2>4, <4>1, <4>3, <5>1
      <4> QED BY <4>2, <4>3
    <3> QED BY <3>2, <3>3, LenProperties
  <2>6. \A i \in 1 .. n - 1 :
          LET p == IF i <= k - 1 THEN i ELSE i + 1
          IN  p \in 1 .. n /\ p # k /\ w[i] = tasks[p]
    BY <1>1, <2>1, <2>5
  <2>7. \A i \in DOMAIN w : w[i] # writeTask(t)
    <3> SUFFICES ASSUME NEW i \in 1 .. n - 1, w[i] = writeTask(t) PROVE FALSE
      BY <2>5
    <3>1. PICK p \in 1 .. n : p # k /\ w[i] = tasks[p]
      BY <2>6
    <3> QED BY <1>1, <2>1, <3>1 DEF Distinct
  <2>8. Distinct(w)
    <3> SUFFICES ASSUME NEW i \in 1 .. n - 1, NEW j \in 1 .. n - 1, w[i] = w[j] PROVE i = j
      BY <2>5 DEF Distinct
    <3> DEFINE p == IF i <= k - 1 THEN i ELSE i + 1
               q == IF j <= k - 1 THEN j ELSE j + 1
    <3>1. p \in 1 .. n /\ q \in 1 .. n /\ w[i] = tasks[p] /\ w[j] = tasks[q]
      BY <2>6
    <3>2. p = q
      BY <1>1, <3>1 DEF Distinct
    <3> QED BY <1>1, <2>1, <3>2
  <2> QED BY <2>5, <2>7, <2>8 DEF w
<1>3. CASE ~(\E i \in DOMAIN tasks : tasks[i] = writeTask(t))
  BY <1>3 DEF without
<1> QED BY <1>2, <1>3

LEMMA CreateWriteTask ==
  ASSUME NEW s \in DriverRecord, Distinct(s.tasks), NEW t \in Tags
  PROVE  Good(s, createWriteTask(s, t)) /\ (Alive(s) => Alive(createWriteTask(s, t)))
<1> DEFINE w == without(s.tasks, t)
           h == <<writeTask(t)>>
           r == createWriteTask(s, t)
<1>0. TRUE \in BOOLEAN
  OBVIOUS
<1>1. h \in Seq(Tasks) /\ Len(h) = 1 /\ h[1] = writeTask(t)
  BY <1>0 DEF writeTask, Tasks
<1>2. s.tasks \in Seq(Tasks)
  BY DEF DriverRecord
<1>3. w \in Seq(Tasks) /\ Distinct(w) /\ \A i \in DOMAIN w : w[i] # writeTask(t)
  BY <1>2, Without
<1>4. r = [s EXCEPT !.tasks = h \o w]
  BY DEF createWriteTask
<1> HIDE DEF w, h, r
<1>5. /\ Len(w) \in Nat /\ DOMAIN w = 1 .. Len(w) /\ h \o w \in Seq(Tasks)
      /\ DOMAIN (h \o w) = 1 .. Len(w) + 1
      /\ \A i \in 1 .. Len(w) + 1 : (h \o w)[i] = IF i = 1 THEN writeTask(t) ELSE w[i - 1]
  <2>1. Len(w) \in Nat /\ DOMAIN w = 1 .. Len(w)
    BY <1>3, LenProperties
  <2>2. h \o w \in Seq(Tasks) /\ Len(h \o w) = 1 + Len(w)
        /\ \A i \in 1 .. 1 + Len(w) : (h \o w)[i] = IF i <= 1 THEN h[i] ELSE w[i - 1]
    <3>1. /\ h \o w \in Seq(Tasks) /\ Len(h \o w) = Len(h) + Len(w)
          /\ \A i \in 1 .. Len(h) + Len(w) :
               (h \o w)[i] = IF i <= Len(h) THEN h[i] ELSE w[i - Len(h)]
      BY <1>1, <1>3, ConcatProperties
    <3> QED BY <1>1, <3>1
  <2> QED BY <1>1, <2>1, <2>2, LenProperties
<1>6. Distinct(h \o w)
  <2> SUFFICES ASSUME NEW i \in 1 .. Len(w) + 1, NEW j \in 1 .. Len(w) + 1,
                      (h \o w)[i] = (h \o w)[j]
               PROVE  i = j
    BY <1>5 DEF Distinct
  <2>1. ASSUME NEW k \in 1 .. Len(w) + 1, k # 1 PROVE k - 1 \in DOMAIN w /\ (h \o w)[k] = w[k - 1]
    BY <1>5, <2>1
  <2>2. CASE i = 1 \/ j = 1
    BY <1>3, <1>5, <2>1, <2>2
  <2>3. CASE i # 1 /\ j # 1
    <3>1. w[i - 1] = w[j - 1] /\ i - 1 \in DOMAIN w /\ j - 1 \in DOMAIN w
      BY <2>1, <2>3
    <3>2. i - 1 = j - 1
      BY <1>3, <3>1 DEF Distinct
    <3> QED BY <1>5, <3>2
  <2> QED BY <2>2, <2>3
<1>7. r \in DriverRecord /\ r.told = s.told /\ r.tag = s.tag /\ r.tasks = h \o w
      /\ r.started = s.started /\ r.shots = s.shots /\ r.requests = s.requests
  BY <1>4, <1>5 DEF DriverRecord
<1> QED BY <1>6, <1>7, Plain DEF Good, Alive, r

LEMMA RequestTypes ==
  ASSUME NEW r \in Requests
  PROVE  /\ r.task \in Tasks /\ r.task.tags \subseteq Tags /\ r.task.write \in BOOLEAN
         /\ r.vals \in [Tags -> Values] /\ r.done \in BOOLEAN
BY DEF Requests, Tasks

LEMMA Succeed ==
  ASSUME NEW s \in DriverRecord, NEW r \in Requests PROVE Kept(s, succeed(s, r))
<1> DEFINE ts == r.task.tags
           u  == setQuality(s, ts, "Good")
           w  == readyFiller(u, ts)
           v  == setValue(s, ts, r.vals)
<1>0. "Good" \in Qualities
  BY DEF Qualities
<1>1. Kept(s, u) /\ u \in DriverRecord
  BY <1>0, TagQuality DEF Kept, Fine
<1>2. Kept(u, w) /\ w \in DriverRecord
  <2> HIDE DEF u
  <2> QED BY <1>1, ReadyFiller DEF Kept, Fine
<1>3. Kept(w, setValue(w, ts, newValues(w)))
  <2> HIDE DEF w
  <2> QED BY <1>2, NewValues, TagValue
<1>4. Kept(s, v) /\ v \in DriverRecord
  BY RequestTypes, TagValue DEF Kept, Fine
<1>5. Kept(v, setQuality(v, ts, "Good"))
  <2> HIDE DEF v
  <2> QED BY <1>0, <1>4, TagQuality
<1>6. succeed(s, r) = IF r.task.write THEN setValue(w, ts, newValues(w))
                      ELSE setQuality(v, ts, "Good")
  BY DEF succeed
<1> HIDE DEF ts, u, w, v
<1> QED BY <1>1, <1>2, <1>3, <1>4, <1>5, <1>6, KeptTrans

LEMMA Fail ==
  ASSUME NEW s \in DriverRecord, NEW r \in Requests PROVE Kept(s, fail(s, r))
<1> DEFINE u == setQuality(s, r.task.tags, "Bad")
<1>1. Kept(s, u) /\ u \in DriverRecord
  BY TagQuality DEF Kept, Fine, Qualities
<1>2. fail(s, r) = readyFiller(u, writtenBy(r))
  BY DEF fail
<1> HIDE DEF u
<1> QED BY <1>1, <1>2, ReadyFiller, KeptTrans

LEMMA AbortAll ==
  ASSUME NEW s \in DriverRecord
  PROVE  LET r == abortAll(s)
         IN  /\ Good(s, r) /\ (Alive(s) => Alive(r))
             /\ r.started = s.started
<1> DEFINE rs    == s.requests
           reads == {i \in DOMAIN rs : ~rs[i].task.write}
           upTo  == {i \in DOMAIN rs : \E j \in reads : i <= j}
           u     == setQuality(s, tagsOf(rs, upTo), "Bad")
           seen  == IF reads = {} THEN s ELSE update(u)
           v     == setQuality(seen, tagsOf(rs, DOMAIN rs), "Bad")
           all   == readyFiller(v, tagsOf(rs, DOMAIN rs \ reads))
           n     == IF s.started THEN s.shots + Len(rs) ELSE s.shots
           off   == "off"
           none  == <<>>
           r     == abortAll(s)
<1>0. "Bad" \in Qualities /\ off \in Links /\ none \in Seq(Requests) /\ Len(none) = 0
  BY EmptySeq DEF Qualities, Links
<1>1. s.shots \in Nat /\ Len(rs) \in Nat /\ n \in Nat
  BY LenProperties DEF DriverRecord
<1>2. Kept(s, u) /\ u \in DriverRecord
  <2> HIDE DEF upTo
  <2> QED BY <1>0, TagQuality DEF Kept, Fine
<1>3. Kept(s, seen) /\ seen \in DriverRecord
  <2> HIDE DEF u, reads
  <2>1. Kept(u, update(u))
    BY <1>2, Update
  <2> QED BY <1>2, <2>1, KeptTrans, KeptSelf DEF Kept, Fine
<1>4. Kept(s, v) /\ v \in DriverRecord
  <2> HIDE DEF seen
  <2>1. Kept(seen, v)
    BY <1>0, <1>3, TagQuality
  <2> HIDE DEF v
  <2> QED BY <1>3, <2>1, KeptTrans DEF Kept, Fine
<1>5. Kept(s, all) /\ all \in DriverRecord
  <2> HIDE DEF v
  <2>1. Kept(v, all)
    BY <1>4, ReadyFiller
  <2> HIDE DEF all
  <2> QED BY <1>4, <2>1, KeptTrans DEF Kept, Fine
<1>6. all.shots = s.shots
  <2> HIDE DEF all
  <2> QED BY <1>5 DEF Kept, Same
<1>7. r = [all EXCEPT !.requests = none, !.conn = off, !.shots = n]
  <2>1. r = [all EXCEPT !.requests = <<>>, !.conn = "off",
                        !.shots = IF s.started THEN all.shots + Len(rs) ELSE all.shots]
    BY DEF abortAll
  <2> HIDE DEF all
  <2> QED BY <1>6, <2>1
<1> HIDE DEF all, none, off, n, r
<1>8. /\ r \in DriverRecord /\ r.told = all.told /\ r.tag = all.tag /\ r.tasks = all.tasks
      /\ r.started = all.started /\ r.shots = n /\ r.requests = none
  BY <1>0, <1>1, <1>5, <1>7 DEF DriverRecord
<1>9. r.started = s.started
  BY <1>5, <1>8 DEF Kept, Same
<1>10. Alive(s) => Alive(r)
  BY <1>0, <1>1, <1>8, <1>9 DEF Alive, n
<1>11. Good(s, r)
  BY <1>5, <1>8, Plain, KeptGood, GoodTrans DEF Good
<1> QED BY <1>9, <1>10, <1>11 DEF r

LEMMA Disconnect ==
  ASSUME NEW s \in DriverRecord
  PROVE  Good(s, disconnect(s)) /\ Alive(disconnect(s))
<1> DEFINE no == FALSE
           a == [s EXCEPT !.started = no]
           b == abortAll(a)
           c == setQuality(b, Tags, "Bad")
<1>1. no \in BOOLEAN
  OBVIOUS
<1> HIDE DEF no
<1>2. a \in DriverRecord /\ a.told = s.told /\ a.tag = s.tag /\ a.tasks = s.tasks /\ a.started = no
  BY <1>1 DEF DriverRecord
<1>3. Good(s, a)
  <2> HIDE DEF a
  <2> QED BY <1>2, Plain DEF Good
<1>4. Good(a, b) /\ b.started = no /\ b \in DriverRecord
  <2> HIDE DEF a
  <2> QED BY <1>2, AbortAll DEF Good, Fine
<1>5. Kept(b, c) /\ c \in DriverRecord
  <2> HIDE DEF b
  <2> QED BY <1>4, TagQuality DEF Qualities, Kept, Fine
<1>6. Kept(c, update(c)) /\ disconnect(s) = update(c)
  <2>1. disconnect(s) = update(c)
    BY DEF disconnect, no
  <2> HIDE DEF c
  <2> QED BY <1>5, <2>1, Update
<1> HIDE DEF a, b, c
<1>7. Good(s, update(c))
  BY <1>3, <1>4, <1>5, <1>6, KeptGood, GoodTrans
<1>8. update(c).started = no
  BY <1>4, <1>5, <1>6 DEF Kept, Same
<1> QED BY <1>6, <1>7, <1>8 DEF Alive, no

LEMMA HandlesPosted ==
  ASSUME NEW s \in DriverRecord, Distinct(s.tasks), NEW e \in Posts, NEW c \in Links
  PROVE  Good(s, Posted(s, e, c)) /\ (Alive(s) => Alive(Posted(s, e, c)))
<1>1. CASE e.ev = "write"
  <2>1. e.tag \in Tags
    BY <1>1 DEF Posts
  <2> QED BY <1>1, <2>1, CreateWriteTask DEF Posted
<1>2. CASE e.ev = "connect"
  BY <1>2, Connect DEF Posted
<1>3. CASE e.ev \notin {"write", "connect"}
  BY <1>3, Disconnect DEF Posted
<1> QED BY <1>1, <1>2, <1>3

LEMMA Served ==
  ASSUME NEW s \in DriverRecord, NEW i \in DOMAIN s.requests
  PROVE  Good(s, serve(s, i)) /\ (Alive(s) => Alive(serve(s, i)))
<1> DEFINE q  == s.requests[i]
           d  == IF q.task.write THEN [q EXCEPT !.done = TRUE]
                 ELSE [q EXCEPT !.done = TRUE, !.vals = s.plc]
           p  == IF q.task.write
                 THEN [t \in Tags |-> IF t \in q.task.tags THEN q.vals[t] ELSE s.plc[t]]
                 ELSE s.plc
           rs == [s.requests EXCEPT ![i] = d]
           r  == serve(s, i)
<1>1. s.requests \in Seq(Requests) /\ i \in 1 .. Len(s.requests) /\ s.plc \in [Tags -> Values]
  BY LenProperties DEF DriverRecord
<1>2. q \in Requests
  BY <1>1, ElementOfSeq
<1>3. d \in Requests
  <2> HIDE DEF q
  <2>1. TRUE \in BOOLEAN
    OBVIOUS
  <2> QED BY <1>1, <1>2, <2>1 DEF Requests
<1>4. p \in [Tags -> Values]
  <2> HIDE DEF q
  <2> QED BY <1>1, <1>2, RequestTypes
<1>5. r = [s EXCEPT !.plc = p, !.requests = rs]
  <2>1. s = [s EXCEPT !.plc = s.plc]
    BY DEF DriverRecord
  <2>2. CASE q.task.write
    BY <2>2 DEF serve
  <2>3. CASE ~q.task.write
    <3>1. r = [s EXCEPT !.requests = rs]
      BY <2>3 DEF serve
    <3>2. p = s.plc
      BY <2>3
    <3> HIDE DEF r, p, rs
    <3> QED BY <3>1, <3>2 DEF DriverRecord
  <2> QED BY <2>2, <2>3
<1> HIDE DEF q, d, p
<1>6. rs \in Seq(Requests) /\ Len(rs) = Len(s.requests)
  BY <1>1, <1>3, ExceptSeq
<1> HIDE DEF rs, r
<1>7. r \in DriverRecord /\ r.told = s.told /\ r.tag = s.tag /\ r.tasks = s.tasks
      /\ r.started = s.started /\ r.shots = s.shots /\ r.requests = rs
  BY <1>4, <1>5, <1>6 DEF DriverRecord
<1> QED BY <1>6, <1>7, Plain DEF Good, Alive, r

-----------------------------------------------------------------------------
(* The output tags.                                                        *)

LEMMA SetETag ==
  ASSUME NEW s, NEW t \in Tags, NEW e \in ETagRecord, NEW v \in Values, NEW notImit
  PROVE  setETag(s, t, e, v, notImit) \in ETagRecord
         /\ setETag(s, t, e, v, notImit).value = e.value
<1> DEFINE runs == t \in Timed
<1>1. runs \in BOOLEAN
  OBVIOUS
<1>2. setETag(s, t, e, v, notImit) \in
        {[e EXCEPT !.imitVal = v], [e EXCEPT !.seted = v, !.timer = runs], [e EXCEPT !.seted = v]}
  BY DEF setETag
<1> HIDE DEF runs
<1>3. \A x \in {[e EXCEPT !.imitVal = v], [e EXCEPT !.seted = v, !.timer = runs],
                [e EXCEPT !.seted = v]} : x \in ETagRecord /\ x.value = e.value
  BY <1>1 DEF ETagRecord
<1> QED BY <1>2, <1>3

LEMMA SetTag ==
  ASSUME NEW s \in DriverRecord, NEW t \in Tags, NEW e, NEW v \in Values, NEW notImit
  PROVE  Kept(s, setTag(s, t, e, v, notImit))
BY WriteValue, KeptSelf DEF setTag

(* What has been heard of t is no longer told; the unit believes c of it.  *)
LEMMA Taken ==
  ASSUME NEW s \in DriverRecord, NEW t \in Tags, s.told[t] # <<>>,
         NEW e \in [Tags -> Values], Believed(s, e), NEW c,
         Head(s.told[t]).ev = "value" => c = Head(s.told[t]).val,
         Head(s.told[t]).ev # "value" => c \in {e[t], s.tag[t].value}
  PROVE  LET r == [s EXCEPT !.told[t] = Tail(@)]
         IN  /\ r \in DriverRecord /\ Same(s, r)
             /\ Believed(r, [e EXCEPT ![t] = c])
<1> DEFINE r == [s EXCEPT !.told[t] = Tail(@)]
           q == s.told[t]
           d == [s.told EXCEPT ![t] = Tail(q)]
<1>1. q \in Seq(Told) /\ s.told \in [Tags -> Seq(Told)]
  BY DEF DriverRecord
<1>2. Follows(q, s.tag[t].value, e[t])
  BY DEF Believed
<1>3. Tail(q) \in Seq(Told) /\ Follows(Tail(q), s.tag[t].value, c)
  BY <1>1, <1>2, Heard
<1>4. r = [s EXCEPT !.told = d]
  OBVIOUS
<1>5. d \in [Tags -> Seq(Told)] /\ d[t] = Tail(q) /\ \A x \in Tags : x # t => d[x] = s.told[x]
  BY <1>1, <1>3
<1> HIDE DEF r, d
<1>6. r \in DriverRecord /\ Same(s, r) /\ r.told = d /\ r.tag = s.tag
  BY <1>4, <1>5 DEF DriverRecord, Same
<1>7. ASSUME NEW x \in Tags PROVE Follows(r.told[x], r.tag[x].value, [e EXCEPT ![t] = c][x])
  BY <1>3, <1>5, <1>6 DEF Believed
<1> QED BY <1>6, <1>7 DEF Believed, r

-----------------------------------------------------------------------------
(* The invariant.                                                          *)

Inv == OutputTypeOK /\ PollingGoesOn /\ TasksBounded /\ BeliefFollows

beliefs == [t \in Tags |-> etag[t].value]

LEMMA InvSays ==
  Inv <=> /\ OutputTypeOK /\ Alive(drv) /\ Distinct(drv.tasks) /\ Believed(drv, beliefs)
BY DEF Inv, PollingGoesOn, TasksBounded, BeliefFollows, Alive, Distinct, Believed,
       Follows, LastTold, NoneTold, beliefs

LEMMA InvNext ==
  ASSUME OutputTypeOK', Alive(drv'), Distinct(drv'.tasks), Believed(drv', beliefs')
  PROVE  Inv'
BY DEF Inv, PollingGoesOn, TasksBounded, BeliefFollows, Alive, Distinct, Believed,
       Follows, LastTold, NoneTold, beliefs

LEMMA BeliefTypes == ASSUME OutputTypeOK PROVE beliefs \in [Tags -> Values]
BY DEF OutputTypeOK, beliefs, ETagRecord

(* A step of the driver.                                                   *)
LEMMA DriverKeeps ==
  ASSUME Inv, Good(drv, drv'), Alive(drv'), UNCHANGED etag,
         sets' \in 0 .. MaxSets, disturb' \in 0 .. MaxDisturb
  PROVE  Inv'
<1>1. beliefs \in [Tags -> Values] /\ beliefs' = beliefs
  BY InvSays, BeliefTypes DEF beliefs
<1>2. Believed(drv', beliefs') /\ Distinct(drv'.tasks)
  BY <1>1, InvSays DEF Good, Fine
<1>3. OutputTypeOK'
  BY InvSays DEF OutputTypeOK, Good, Fine
<1> QED BY <1>2, <1>3, InvNext

(* A step of the units that may write the tag, but tells nothing.          *)
LEMMA UnitKeeps ==
  ASSUME Inv, Kept(drv, drv'), etag' \in [Tags -> ETagRecord], beliefs' = beliefs,
         sets' \in 0 .. MaxSets, disturb' \in 0 .. MaxDisturb
  PROVE  Inv'
<1>1. beliefs \in [Tags -> Values]
  BY InvSays, BeliefTypes
<1>2. Believed(drv', beliefs') /\ Distinct(drv'.tasks) /\ Alive(drv')
  BY <1>1, InvSays DEF Kept, Same, Fine, Alive
<1>3. OutputTypeOK'
  BY InvSays DEF OutputTypeOK, Kept, Fine
<1> QED BY <1>2, <1>3, InvNext

(* A step in which a unit hears of t, and may write the tag then.          *)
LEMMA HearingKeeps ==
  ASSUME Inv, NEW t \in Tags, drv.told[t] # <<>>, NEW STATE x, x \in ETagRecord,
         Head(drv.told[t]).ev = "value" => x.value = Head(drv.told[t]).val,
         Head(drv.told[t]).ev # "value" => x.value \in {etag[t].value, drv.tag[t].value},
         etag' = [etag EXCEPT ![t] = x], Kept(taken(t), drv'),
         UNCHANGED <<sets, disturb>>
  PROVE  Inv'
<1> DEFINE c == x.value
<1>1. /\ OutputTypeOK /\ Alive(drv) /\ Distinct(drv.tasks) /\ Believed(drv, beliefs)
      /\ beliefs \in [Tags -> Values] /\ drv \in DriverRecord /\ beliefs[t] = etag[t].value
  BY InvSays, BeliefTypes DEF OutputTypeOK, beliefs
<1>2. /\ taken(t) \in DriverRecord /\ Same(drv, taken(t))
      /\ Believed(taken(t), [beliefs EXCEPT ![t] = c])
  <2>1. Head(drv.told[t]).ev # "value" => c \in {beliefs[t], drv.tag[t].value}
    BY <1>1
  <2>2. LET r == [drv EXCEPT !.told[t] = Tail(@)]
        IN  /\ r \in DriverRecord /\ Same(drv, r)
            /\ Believed(r, [beliefs EXCEPT ![t] = c])
    BY <1>1, <2>1, Taken
  <2> QED BY <2>2 DEF taken
<1>3. etag \in [Tags -> ETagRecord] /\ c \in Values
  BY <1>1 DEF OutputTypeOK, ETagRecord
<1>4. etag' \in [Tags -> ETagRecord] /\ beliefs' = [beliefs EXCEPT ![t] = c]
      /\ beliefs' \in [Tags -> Values]
  BY <1>1, <1>3 DEF beliefs
<1> HIDE DEF c
<1>5. Believed(drv', beliefs') /\ drv' \in DriverRecord
  BY <1>2, <1>4 DEF Kept, Fine
<1>6. Alive(drv') /\ Distinct(drv'.tasks)
  BY <1>1, <1>2 DEF Kept, Same, Alive
<1>7. OutputTypeOK'
  BY <1>1, <1>4, <1>5 DEF OutputTypeOK
<1> QED BY <1>5, <1>6, <1>7, InvNext

(* A driver that differs in its shots, its events, its delay, its link or  *)
(* its controller alone.                                                   *)
Beside(s, r) ==
  /\ r \in DriverRecord /\ r.told = s.told /\ r.tag = s.tag /\ r.tasks = s.tasks
  /\ r.started = s.started

LEMMA BesideGood == ASSUME NEW s, NEW r, Beside(s, r) PROVE Good(s, r)
BY Plain DEF Beside, Good

LEMMA InitKeeps == ASSUME Init PROVE Inv
<1> DEFINE r == InitDriver(Default)
           no == FALSE
           yes == TRUE
           none == <<>>
<1>0. /\ no \in BOOLEAN /\ yes \in BOOLEAN /\ Default \in Values
      /\ none \in Seq(Tasks) /\ none \in Seq(Requests) /\ none \in Seq(Told)
      /\ DOMAIN none = {} /\ <<[ev |-> "connect"]>> \in Seq(Posts)
  BY OutETagConstants, EmptySeq DEF Posts
<1> DEFINE tg == [value |-> Default, newValue |-> Default, ready |-> yes, quality |-> "Unknown"]
<1>1. tg \in TagRecord
  BY <1>0 DEF TagRecord, Qualities
<1>2. r = [started |-> no, noError |-> yes, conn |-> "off", shots |-> 0, tasks |-> none,
           requests |-> none, due |-> yes, group |-> "Unknown", tag |-> [t \in Tags |-> tg],
           plc |-> [t \in Tags |-> Default], posted |-> <<[ev |-> "connect"]>>,
           told |-> [t \in Tags |-> none]]
  BY DEF InitDriver
<1>3. r \in DriverRecord
  <2> HIDE DEF tg, no, yes, none
  <2> QED BY <1>0, <1>1, <1>2 DEF DriverRecord, Links, Qualities
<1>4. etag \in [Tags -> ETagRecord] /\ \A t \in Tags : etag[t].value = Default
  <2>1. PICK how \in [Tags -> {"load", "take"}] :
          etag = [t \in Tags |-> [value |-> Default, seted |-> Default, timer |-> no,
                                 imit |-> no, imitVal |-> Default, first |-> how[t]]]
    BY DEF Init
  <2> HIDE DEF no
  <2> QED BY <1>0, <2>1 DEF ETagRecord
<1>5. Distinct(none)
  BY <1>0 DEF Distinct
<1>6. \A t \in Tags : Follows(none, Default, Default)
  BY <1>0 DEF Follows, LastTold, NoneTold
<1>7. drv = r /\ sets = MaxSets /\ disturb = MaxDisturb
  BY DEF Init
<1>8. r.started = no /\ r.tasks = none /\ \A t \in Tags : r.told[t] = none /\ r.tag[t].value = Default
  BY <1>2
<1>9. OutputTypeOK
  BY <1>3, <1>4, <1>7, OutETagConstants DEF OutputTypeOK
<1>10. Believed(drv, beliefs)
  <2> HIDE DEF r, none
  <2> QED BY <1>4, <1>6, <1>7, <1>8 DEF Believed, beliefs
<1>11. Alive(drv)
  <2> HIDE DEF r
  <2> QED BY <1>7, <1>8 DEF Alive
<1> QED BY <1>5, <1>7, <1>8, <1>9, <1>10, <1>11, InvSays

LEMMA NextKeeps == ASSUME Inv, Next PROVE Inv'
<1> USE InvSays
<1>1. /\ drv \in DriverRecord /\ etag \in [Tags -> ETagRecord]
      /\ sets \in 0 .. MaxSets /\ disturb \in 0 .. MaxDisturb
      /\ MaxSets \in Nat /\ MaxDisturb \in Nat /\ Default \in Values
      /\ Alive(drv) /\ Distinct(drv.tasks)
      /\ drv.shots \in Nat /\ Len(drv.requests) \in Nat
  BY OutETagConstants, LenProperties DEF OutputTypeOK, DriverRecord
<1>2. ASSUME NEW t \in Tags, _acceptValue(t) PROVE Inv'
  <2> DEFINE v == Head(drv.told[t]).val
             x == [etag[t] EXCEPT !.value = v]
  <2>1. drv.told[t] # <<>> /\ Head(drv.told[t]).ev = "value" /\ Head(drv.told[t]) \in Told
    <3>1. drv.told[t] \in Seq(Told) /\ drv.told[t] # <<>> /\ Head(drv.told[t]).ev = "value"
      BY <1>1, <1>2 DEF _acceptValue, Told1, DriverRecord
    <3> QED BY <3>1, HeadTailProperties
  <2>2. v \in Values
    BY <2>1 DEF Told
  <2>3. x \in ETagRecord /\ x.value = v
    <3> HIDE DEF v
    <3> QED BY <1>1, <2>2 DEF ETagRecord
  <2>4. etag' = [etag EXCEPT ![t] = x] /\ drv' = taken(t) /\ UNCHANGED <<sets, disturb>>
    BY <1>2 DEF _acceptValue
  <2>5. Kept(taken(t), drv')
    <3>1. Tail(drv.told[t]) \in Seq(Told) /\ drv.told \in [Tags -> Seq(Told)]
      BY <1>1, <2>1, HeadTailProperties DEF DriverRecord
    <3>2. taken(t) \in DriverRecord
      BY <1>1, <3>1 DEF taken, DriverRecord
    <3> QED BY <2>4, <3>2, KeptSelf
  <2> HIDE DEF x
  <2> QED BY <2>1, <2>3, <2>4, <2>5, HearingKeeps
<1>3. ASSUME NEW t \in Tags, drv.told[t] # <<>> PROVE taken(t) \in DriverRecord
  <2>1. Tail(drv.told[t]) \in Seq(Told) /\ drv.told \in [Tags -> Seq(Told)]
    BY <1>1, <1>3, HeadTailProperties DEF DriverRecord
  <2> QED BY <1>1, <2>1 DEF taken, DriverRecord
<1>4. ASSUME NEW t \in Tags, _qualityChangedSlot(t) PROVE Inv'
  <2> DEFINE good  == drv.tag[t].quality = "Good"
             v     == drv.tag[t].value
             e     == IF good /\ ~etag[t].imit THEN [etag[t] EXCEPT !.value = v] ELSE etag[t]
             first == [e EXCEPT !.first = "no"]
             loads == good /\ e.first = "load"
             set   == setETag(drv, t, first, Default, TRUE)
             x     == CASE loads                     -> set
                        [] good /\ e.first = "take" -> [first EXCEPT !.seted = e.value]
                        [] OTHER                     -> e
  <2>1. drv.told[t] # <<>> /\ Head(drv.told[t]).ev = "quality"
    BY <1>4 DEF _qualityChangedSlot, Told1
  <2>2. v \in Values /\ etag[t] \in ETagRecord
    BY <1>1 DEF DriverRecord, TagRecord
  <2>3. e \in ETagRecord /\ e.value \in {etag[t].value, v}
    <3> HIDE DEF v
    <3> QED BY <2>2 DEF ETagRecord
  <2>4. first \in ETagRecord /\ first.value = e.value
    <3> HIDE DEF e
    <3> QED BY <2>3 DEF ETagRecord
  <2>5. set \in ETagRecord /\ set.value = e.value
    <3> HIDE DEF first
    <3>1. \A n : /\ setETag(drv, t, first, Default, n) \in ETagRecord
                 /\ setETag(drv, t, first, Default, n).value = first.value
      BY <1>1, <2>4, SetETag
    <3>2. set \in ETagRecord /\ set.value = first.value
      BY <3>1, Zenon
    <3> HIDE DEF set
    <3> QED BY <2>4, <3>2
  <2>6. [first EXCEPT !.seted = e.value] \in ETagRecord
        /\ [first EXCEPT !.seted = e.value].value = e.value
    <3> HIDE DEF e, first
    <3> QED BY <2>3, <2>4 DEF ETagRecord
  <2>7. x \in ETagRecord /\ x.value \in {etag[t].value, v}
    <3> HIDE DEF e, first, set
    <3> QED BY <2>3, <2>5, <2>6
  <2>8. /\ etag' = [etag EXCEPT ![t] = x]
        /\ drv' = IF loads THEN setTag(taken(t), t, first, Default, TRUE) ELSE taken(t)
        /\ UNCHANGED <<sets, disturb>>
    BY <1>4 DEF _qualityChangedSlot
  <2>9. Kept(taken(t), drv')
    <3> HIDE DEF loads, first
    <3> QED BY <1>1, <1>3, <2>1, <2>8, SetTag, KeptSelf
  <2> HIDE DEF x
  <2> QED BY <2>1, <2>7, <2>8, <2>9, HearingKeeps
<1>5. ASSUME NEW t \in Tags, _setTimerEnd(t) PROVE Inv'
  <2> DEFINE e     == etag[t]
             again == e.value # e.seted
             x     == IF again THEN setETag(drv, t, e, e.seted, FALSE) ELSE e
  <2>1. drv.told[t] # <<>> /\ Head(drv.told[t]).ev = "timer"
    BY <1>5 DEF _setTimerEnd, Told1
  <2>2. e \in ETagRecord /\ e.seted \in Values
    BY <1>1 DEF ETagRecord
  <2>3. x \in ETagRecord /\ x.value = etag[t].value
    <3>1. \A n : /\ setETag(drv, t, e, e.seted, n) \in ETagRecord
                 /\ setETag(drv, t, e, e.seted, n).value = e.value
      <4> HIDE DEF e
      <4> QED BY <2>2, SetETag
    <3>2. setETag(drv, t, e, e.seted, FALSE) \in ETagRecord
          /\ setETag(drv, t, e, e.seted, FALSE).value = e.value
      BY <3>1, Zenon
    <3>3. CASE again
      BY <3>2, <3>3, Zenon
    <3>4. CASE ~again
      BY <2>2, <3>4, Zenon
    <3> QED BY <3>3, <3>4
  <2>4. /\ etag' = [etag EXCEPT ![t] = x]
        /\ drv' = IF again THEN setTag(taken(t), t, e, e.seted, FALSE) ELSE taken(t)
        /\ UNCHANGED <<sets, disturb>>
    BY <1>5 DEF _setTimerEnd
  <2>5. Kept(taken(t), drv')
    <3> HIDE DEF again, e
    <3> QED BY <1>3, <2>1, <2>2, <2>4, SetTag, KeptSelf
  <2> HIDE DEF x
  <2> QED BY <2>1, <2>3, <2>4, <2>5, HearingKeeps
<1>6. ASSUME NEW t \in Tags, NEW v \in Values, SetValue(t, v) PROVE Inv'
  <2> DEFINE x == setETag(drv, t, etag[t], v, FALSE)
  <2>1. x \in ETagRecord /\ x.value = etag[t].value
    <3>1. \A n : /\ setETag(drv, t, etag[t], v, n) \in ETagRecord
                 /\ setETag(drv, t, etag[t], v, n).value = etag[t].value
      BY <1>1, SetETag
    <3> QED BY <3>1, Zenon
  <2>2. /\ etag' = [etag EXCEPT ![t] = x] /\ drv' = setTag(drv, t, etag[t], v, FALSE)
        /\ sets > 0 /\ sets' = sets - 1 /\ disturb' = disturb
    BY <1>6 DEF SetValue
  <2>3. Kept(drv, drv')
    BY <1>1, <2>2, SetTag
  <2> HIDE DEF x
  <2>4. etag' \in [Tags -> ETagRecord] /\ beliefs' = beliefs
    BY <1>1, <2>1, <2>2 DEF beliefs
  <2> QED BY <1>1, <2>2, <2>3, <2>4, UnitKeeps
<1>7. ASSUME NEW t \in Tags, SetTimer(t) PROVE Inv'
  <2> DEFINE x == [ev |-> "timer"]
             q == Append(drv.told[t], x)
             no == FALSE
  <2>1. x \in Told /\ x.ev # "value" /\ no \in BOOLEAN
    BY DEF Told
  <2>2. drv.told \in [Tags -> Seq(Told)] /\ drv' = [drv EXCEPT !.told[t] = q]
        /\ etag' = [etag EXCEPT ![t].timer = no] /\ UNCHANGED <<sets, disturb>>
    BY <1>1, <1>7 DEF SetTimer, DriverRecord
  <2> HIDE DEF x, no
  <2>3. q \in Seq(Told)
    BY <2>1, <2>2, AppendProperties
  <2>4. ASSUME NEW v, NEW b, Follows(drv.told[t], v, b) PROVE Follows(q, v, b)
    BY <2>1, <2>2, <2>4, ToldOther
  <2> HIDE DEF q
  <2>5. drv' \in DriverRecord /\ Same(drv, drv') /\ drv'.told = [drv.told EXCEPT ![t] = q]
        /\ drv'.tag = drv.tag
    BY <1>1, <2>2, <2>3 DEF DriverRecord, Same
  <2>6. Kept(drv, drv')
    <3>1. ASSUME NEW e \in [Tags -> Values], Believed(drv, e) PROVE Believed(drv', e)
      <4>1. ASSUME NEW y \in Tags PROVE Follows(drv'.told[y], drv'.tag[y].value, e[y])
        BY <2>2, <2>4, <2>5, <3>1 DEF Believed
      <4> QED BY <4>1 DEF Believed
    <3> QED BY <2>5, <3>1 DEF Kept, Fine
  <2>7. etag' \in [Tags -> ETagRecord] /\ beliefs' = beliefs
    BY <1>1, <2>1, <2>2 DEF beliefs, ETagRecord
  <2> QED BY <1>1, <2>2, <2>6, <2>7, UnitKeeps
<1>8. ASSUME HandleNextTask PROVE Inv'
  <2> DEFINE n == drv.shots - 1
             s == [drv EXCEPT !.shots = n]
  <2>1. PICK c \in Links : drv' = handleNextTask(s, c) /\ UNCHANGED <<etag, sets, disturb>>
    BY <1>8 DEF HandleNextTask, DriverStep
  <2>2. n \in Nat
    BY <1>1, <1>8 DEF HandleNextTask
  <2> HIDE DEF n
  <2>3. Beside(drv, s)
    BY <1>1, <2>2 DEF Beside, DriverRecord
  <2> HIDE DEF s
  <2>4. Good(drv, drv') /\ Alive(drv')
    BY <2>1, <2>3, BesideGood, NextTask, GoodTrans DEF Beside
  <2> QED BY <1>1, <2>1, <2>4, DriverKeeps
<1>9. ASSUME HandlePosted PROVE Inv'
  <2> DEFINE s == [drv EXCEPT !.posted = Tail(drv.posted)]
             e == Head(drv.posted)
  <2>1. PICK c \in Links : drv' = Posted(s, e, c) /\ UNCHANGED <<etag, sets, disturb>>
    BY <1>9 DEF HandlePosted, DriverStep
  <2>2. drv.posted \in Seq(Posts) /\ drv.posted # <<>>
    BY <1>1, <1>9 DEF HandlePosted, DriverRecord
  <2>3. e \in Posts /\ Tail(drv.posted) \in Seq(Posts)
    BY <2>2, HeadTailProperties
  <2>4. Beside(drv, s) /\ s.shots = drv.shots /\ s.requests = drv.requests
    BY <1>1, <2>3 DEF Beside, DriverRecord
  <2> HIDE DEF s, e
  <2>5. Alive(s) /\ Distinct(s.tasks) /\ s \in DriverRecord
    BY <1>1, <2>4 DEF Beside, Alive
  <2>6. Good(s, drv') /\ Alive(drv')
    BY <2>1, <2>3, <2>5, HandlesPosted
  <2> QED BY <1>1, <2>1, <2>4, <2>6, BesideGood, GoodTrans, DriverKeeps
<1>10. ASSUME drv.requests # <<>>
       PROVE  LET s == [drv EXCEPT !.requests = Tail(drv.requests)]
              IN  Head(drv.requests) \in Requests /\ Good(drv, s) /\ s \in DriverRecord
  <2> DEFINE s == [drv EXCEPT !.requests = Tail(drv.requests)]
  <2>1. drv.requests \in Seq(Requests)
    BY <1>1 DEF DriverRecord
  <2>2. Head(drv.requests) \in Requests /\ Tail(drv.requests) \in Seq(Requests)
    BY <1>10, <2>1, HeadTailProperties
  <2>3. Beside(drv, s)
    BY <1>1, <2>2 DEF Beside, DriverRecord
  <2> HIDE DEF s
  <2>4. Good(drv, s) /\ s \in DriverRecord
    BY <2>3, BesideGood DEF Beside
  <2> QED BY <2>2, <2>4 DEF s
<1>11. ASSUME Reply PROVE Inv'
  <2> DEFINE s == [drv EXCEPT !.requests = Tail(drv.requests)]
             r == Head(drv.requests)
  <2>1. drv.requests # <<>> /\ drv' = doNext(succeed(s, r), r.task)
        /\ UNCHANGED <<etag, sets, disturb>>
    BY <1>11 DEF Reply, DriverStep
  <2>2. r \in Requests /\ Good(drv, s) /\ s \in DriverRecord
    BY <1>10, <2>1
  <2> HIDE DEF s, r
  <2>3. Good(s, succeed(s, r)) /\ succeed(s, r) \in DriverRecord
    BY <2>2, Succeed, KeptGood DEF Kept, Fine
  <2>4. Good(drv, drv') /\ Alive(drv')
    BY <2>1, <2>2, <2>3, DoNext, GoodTrans
  <2> QED BY <1>1, <2>1, <2>4, DriverKeeps
<1>12. ASSUME RequestFails PROVE Inv'
  <2> DEFINE s == [drv EXCEPT !.requests = Tail(drv.requests)]
             r == Head(drv.requests)
  <2>1. drv.requests # <<>> /\ drv' = doNext(fail(s, r), r.task)
        /\ UNCHANGED <<etag, sets>> /\ disturb > 0 /\ disturb' = disturb - 1
    BY <1>12 DEF RequestFails, Disturb
  <2>2. r \in Requests /\ Good(drv, s) /\ s \in DriverRecord
    BY <1>10, <2>1
  <2> HIDE DEF s, r
  <2>3. Good(s, fail(s, r)) /\ fail(s, r) \in DriverRecord
    BY <2>2, Fail, KeptGood DEF Kept, Fine
  <2>4. Good(drv, drv') /\ Alive(drv')
    BY <2>1, <2>2, <2>3, DoNext, GoodTrans
  <2> QED BY <1>1, <2>1, <2>4, DriverKeeps
<1>13. ASSUME Serve PROVE Inv'
  <2>1. PICK i \in DOMAIN drv.requests : drv' = serve(drv, i) /\ UNCHANGED <<etag, sets, disturb>>
    BY <1>13 DEF Serve, DriverStep
  <2> QED BY <1>1, <2>1, Served, DriverKeeps
<1>14. ASSUME Delay PROVE Inv'
  <2> DEFINE yes == TRUE
  <2>1. drv' = [drv EXCEPT !.due = yes] /\ UNCHANGED <<etag, sets, disturb>> /\ yes \in BOOLEAN
    BY <1>14 DEF Delay, DriverStep
  <2> HIDE DEF yes
  <2>2. Beside(drv, drv') /\ Alive(drv')
    BY <1>1, <2>1 DEF Beside, Alive, DriverRecord
  <2> QED BY <1>1, <2>1, <2>2, BesideGood, DriverKeeps
<1>15. ASSUME LinkUp PROVE Inv'
  <2>1. PICK c \in {"off", "on"} : drv' = [drv EXCEPT !.conn = c] /\ UNCHANGED <<etag, sets, disturb>>
    BY <1>15 DEF LinkUp, DriverStep
  <2>2. Beside(drv, drv') /\ Alive(drv')
    BY <1>1, <2>1 DEF Beside, Alive, DriverRecord, Links
  <2> QED BY <1>1, <2>1, <2>2, BesideGood, DriverKeeps
<1>16. ASSUME LinkBreaks PROVE Inv'
  <2>1. drv' = abortAll(drv) /\ UNCHANGED <<etag, sets>> /\ disturb > 0 /\ disturb' = disturb - 1
    BY <1>16 DEF LinkBreaks, Disturb
  <2> QED BY <1>1, <2>1, AbortAll, DriverKeeps
<1>17. ASSUME NEW t \in Tags, NEW v \in Values, PlantSets(t, v) PROVE Inv'
  <2>1. drv' = [drv EXCEPT !.plc[t] = v] /\ UNCHANGED <<etag, sets>>
        /\ disturb > 0 /\ disturb' = disturb - 1
    BY <1>17 DEF PlantSets, Disturb
  <2>2. Beside(drv, drv') /\ Alive(drv')
    BY <1>1, <2>1 DEF Beside, Alive, DriverRecord
  <2> QED BY <1>1, <2>1, <2>2, BesideGood, DriverKeeps
<1>18. ASSUME NEW ev \in {"connect", "disconnect"}, Click(ev) PROVE Inv'
  <2> DEFINE p == Append(drv.posted, [ev |-> ev])
  <2>1. drv' = [drv EXCEPT !.posted = p] /\ UNCHANGED <<etag, sets>>
        /\ disturb > 0 /\ disturb' = disturb - 1
    BY <1>18 DEF Click, Disturb
  <2>2. p \in Seq(Posts)
    BY <1>1, AppendProperties DEF DriverRecord, Posts
  <2> HIDE DEF p
  <2>3. Beside(drv, drv') /\ Alive(drv')
    BY <1>1, <2>1, <2>2 DEF Beside, Alive, DriverRecord
  <2> QED BY <1>1, <2>1, <2>3, BesideGood, DriverKeeps
<1>19. ASSUME NEW t \in Tags, writeImit(t) PROVE Inv'
  <2> DEFINE i == ~etag[t].imit
             r == etag[t].timer /\ etag[t].imit
  <2>1. etag' = [etag EXCEPT ![t] = [etag[t] EXCEPT !.imit = i, !.timer = r]]
        /\ UNCHANGED <<drv, sets>> /\ disturb > 0 /\ disturb' = disturb - 1
    BY <1>1, <1>19 DEF writeImit
  <2>2. i \in BOOLEAN /\ r \in BOOLEAN
    OBVIOUS
  <2> HIDE DEF i, r
  <2>3. etag' \in [Tags -> ETagRecord] /\ beliefs' = beliefs
    BY <1>1, <2>1, <2>2 DEF beliefs, ETagRecord
  <2> QED BY <1>1, <2>1, <2>3, KeptSelf, UnitKeeps
<1>20. ASSUME NEW t \in Tags, NEW v \in Values, writeImitVal(t, v) PROVE Inv'
  <2>1. etag' = [etag EXCEPT ![t] = [etag[t] EXCEPT !.imitVal = v]]
        /\ UNCHANGED <<drv, sets>> /\ disturb > 0 /\ disturb' = disturb - 1
    BY <1>20 DEF writeImitVal
  <2>2. etag' \in [Tags -> ETagRecord] /\ beliefs' = beliefs
    BY <1>1, <2>1 DEF beliefs, ETagRecord
  <2> QED BY <1>1, <2>1, <2>2, KeptSelf, UnitKeeps
<1> QED BY <1>2, <1>4, <1>5, <1>6, <1>7, <1>8, <1>9, <1>11, <1>12, <1>13, <1>14, <1>15, <1>16,
           <1>17, <1>18, <1>19, <1>20 DEF Next, UnitsThread, DriverThread, Plant, User

LEMMA Invariant == Spec => []Inv
<1>1. Inv /\ UNCHANGED vars => Inv'
  BY DEF Inv, OutputTypeOK, PollingGoesOn, TasksBounded, BeliefFollows, ValueAt, vars
<1> QED BY <1>1, InitKeeps, NextKeeps, PTL DEF Spec

(* Every variable keeps its type, for every group of tags and every set of *)
(* values.                                                                 *)
THEOREM OutputTypes == Spec => []OutputTypeOK
BY Invariant, PTL DEF Inv

(* The driver never falls silent while it is started: a shot or a request  *)
(* is always under way (modbus.cpp, scheduleHandler and its callers).      *)
THEOREM OutputPolled == Spec => []PollingGoesOn
BY Invariant, PTL DEF Inv

(* No task is twice in the list (modbus.cpp, getTask and createWriteTask). *)
THEOREM OutputTasks == Spec => []TasksBounded
BY Invariant, PTL DEF Inv

(* The units follow what the driver knows of the outputs, whatever is      *)
(* imitated, lost or set by others (tag.cpp, setValue and setQuality).     *)
THEOREM OutputBelieved == Spec => []BeliefFollows
BY Invariant, PTL DEF Inv

=============================================================================
