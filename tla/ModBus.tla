------------------------------- MODULE ModBus -------------------------------
(***************************************************************************)
(* The tags of a group and the driver that reads and writes them over       *)
(* Modbus, ModBusDriver, with the controller at the other end.  The driver  *)
(* has a thread and an event queue of its own; it works on one task after  *)
(* another: a 1 ms shot runs handleNextTask, which sends a request, whose   *)
(* answer schedules the next shot.                                         *)
(*                                                                         *)
(* The record s is the driver:                                             *)
(*   started, noError, tasks   the fields started, noError, listOfTasks    *)
(*   conn      the state of modbusDevice                                   *)
(*   shots     the singleShot calls under way; stop() does not reach them  *)
(*   requests  requests sent and not yet answered                          *)
(*   due       the delay of the group has passed since lastUpdate          *)
(*   group     the quality of the group                                    *)
(*   tag       the tags, as Tag knows them                                 *)
(*   plc       the registers of the controller                             *)
(*   posted    the event queue of the driver's thread                      *)
(*   told      what waits for each ETag in the thread of the units         *)
(***************************************************************************)
EXTENDS Naturals, Sequences, SequencesExt

CONSTANTS
  Tags,     \* the tags of the group, one register each
  Values,   \* values of a register
  Ranges    \* the read tasks getTask makes of the group, each a set of tags

ASSUME ModBusConstants ==
  /\ Tags # {} /\ Values # {}
  /\ Ranges \in Seq((SUBSET Tags) \ {{}})
  /\ UNION {Ranges[i] : i \in DOMAIN Ranges} = Tags
  /\ \A i, j \in DOMAIN Ranges : i # j => Ranges[i] \cap Ranges[j] = {}

Links     == {"off", "connecting", "on"}
Qualities == {"Unknown", "Bad", "Good"}

TagRecord == [value : Values, newValue : Values, ready : BOOLEAN, quality : Qualities]

Tasks    == [write : BOOLEAN, tags : SUBSET Tags]
Requests == [task : Tasks, vals : [Tags -> Values], done : BOOLEAN]

Posts    == [ev : {"write"}, tag : Tags] \cup [ev : {"connect", "disconnect"}]
Told     == [ev : {"value"}, val : Values] \cup [ev : {"quality", "timer"}]

DriverRecord ==
  [started : BOOLEAN, noError : BOOLEAN, conn : Links, shots : Nat, tasks : Seq(Tasks),
   requests : Seq(Requests), due : BOOLEAN, group : Qualities \cup {"Check"},
   tag : [Tags -> TagRecord], plc : [Tags -> Values], posted : Seq(Posts),
   told : [Tags -> Seq(Told)]]

readTask(ts) == [write |-> FALSE, tags |-> ts]
writeTask(t) == [write |-> TRUE, tags |-> {t}]

-----------------------------------------------------------------------------
(* Tag and the fillers of Driver, which call it for each tag of a list.    *)

setQuality(s, ts, q) ==
  [s EXCEPT !.tag = [t \in Tags |-> IF t \in ts THEN [s.tag[t] EXCEPT !.quality = q]
                                    ELSE s.tag[t]],
            !.told = [t \in Tags |->
               IF t \in ts /\ s.tag[t].quality # q
               THEN Append(s.told[t], [ev |-> "quality"]) ELSE s.told[t]]]

(* Mutant: a tag with a write under way tells nothing. *)
setValue_Quiet(s, ts, vals) ==
  [s EXCEPT !.tag = [t \in Tags |->
               IF t \in ts
               THEN [s.tag[t] EXCEPT !.value = vals[t],
                                     !.newValue = IF s.tag[t].ready THEN vals[t]
                                                  ELSE s.tag[t].newValue]
               ELSE s.tag[t]],
            !.told = [t \in Tags |->
               IF t \in ts /\ s.tag[t].value # vals[t] /\ s.tag[t].ready
               THEN Append(s.told[t], [ev |-> "value", val |-> vals[t]]) ELSE s.told[t]]]

(* While a write is under way, a value that is read leaves newValue alone. *)
setValue(s, ts, vals) ==
  [s EXCEPT !.tag = [t \in Tags |->
               IF t \in ts
               THEN [s.tag[t] EXCEPT !.value = vals[t],
                                     !.newValue = IF s.tag[t].ready THEN vals[t]
                                                  ELSE s.tag[t].newValue]
               ELSE s.tag[t]],
            !.told = [t \in Tags |->
               IF t \in ts /\ s.tag[t].value # vals[t]
               THEN Append(s.told[t], [ev |-> "value", val |-> vals[t]]) ELSE s.told[t]]]

newValues(s) == [t \in Tags |-> s.tag[t].newValue]

readyFiller(s, ts) ==
  [s EXCEPT !.tag = [t \in Tags |-> IF t \in ts THEN [s.tag[t] EXCEPT !.ready = TRUE]
                                    ELSE s.tag[t]]]

(* Tag::writeValue, called from the thread of the units.                   *)
writeValue(s, t, v) ==
  [s EXCEPT !.tag[t] = [s.tag[t] EXCEPT !.newValue = v, !.ready = FALSE],
            !.posted = Append(@, [ev |-> "write", tag |-> t])]

update(s) ==
  LET common == {s.tag[t].quality : t \in Tags}
  IN  [s EXCEPT !.group = IF \E q \in Qualities : common = {q}
                          THEN CHOOSE q \in Qualities : common = {q} ELSE "Check",
                !.due = FALSE]

-----------------------------------------------------------------------------
(* ModBusDriver.                                                           *)

scheduleHandler(s) == IF s.started THEN [s EXCEPT !.shots = @ + 1] ELSE s

doNext(s, task) == scheduleHandler(IF task.write THEN s ELSE update(s))

(* c is what connectDevice makes of a device that is not connected; it     *)
(* refuses one that is connecting.                                         *)
connect(s, c) ==
  CASE s.conn = "on" -> s
    [] s.conn = "connecting" \/ (s.conn = "off" /\ c = "off") ->
         IF s.noError
         THEN [(IF s.group \in {"Good", "Check"} THEN setQuality(s, Tags, "Bad") ELSE s)
                 EXCEPT !.noError = FALSE]
         ELSE s
    [] OTHER ->
         [s EXCEPT !.conn = c, !.noError = @ \/ c = "on", !.started = TRUE,
                   !.shots = IF s.started THEN @ ELSE @ + 1]

(* Mutant: a write without a connection ends the chain of shots. *)
perform_Ends(s, task, c) ==
  LET r == IF s.started THEN connect(s, c) ELSE s
  IN  CASE r.conn = "on" ->
             [r EXCEPT !.requests =
                Append(@, [task |-> task, vals |-> newValues(r), done |-> FALSE])]
        [] task.write -> setQuality(r, task.tags, "Bad")
        [] OTHER -> doNext(setQuality(r, task.tags, "Bad"), task)

(* read and write.  A write takes newValue now, whatever was asked for     *)
(* when the task was made, and without a connection it leaves ready unset. *)
perform(s, task, c) ==
  LET r == IF s.started THEN connect(s, c) ELSE s
  IN  IF r.conn = "on"
      THEN [r EXCEPT !.requests =
              Append(@, [task |-> task, vals |-> newValues(r), done |-> FALSE])]
      ELSE doNext(setQuality(r, task.tags, "Bad"), task)

getTask(s) ==
  IF s.due THEN [s EXCEPT !.tasks = [i \in DOMAIN Ranges |-> readTask(Ranges[i])]] ELSE s

handleNextTask(s, c) ==
  IF s.tasks = <<>> THEN scheduleHandler(getTask(s))
  ELSE perform([s EXCEPT !.tasks = Tail(@)], Head(s.tasks), c)

(* Mutant: a write that waits is not taken back by the next one. *)
createWriteTask_Twice(s, t) == [s EXCEPT !.tasks = <<writeTask(t)>> \o @]

(* The write of t that still waits, of which there is one at most.         *)
without(tasks, t) ==
  IF \E i \in DOMAIN tasks : tasks[i] = writeTask(t)
  THEN RemoveAt(tasks, CHOOSE i \in DOMAIN tasks : tasks[i] = writeTask(t))
  ELSE tasks

createWriteTask(s, t) ==
  [s EXCEPT !.tasks = <<writeTask(t)>> \o without(s.tasks, t)]

succeed(s, r) ==
  IF r.task.write
  THEN LET w == readyFiller(setQuality(s, r.task.tags, "Good"), r.task.tags)
       IN  setValue(w, r.task.tags, newValues(w))
  ELSE setQuality(setValue(s, r.task.tags, r.vals), r.task.tags, "Good")

writtenBy(r) == IF r.task.write THEN r.task.tags ELSE {}

fail(s, r) == readyFiller(setQuality(s, r.task.tags, "Bad"), writtenBy(r))

tagsOf(rs, I) == UNION {rs[i].task.tags : i \in I}

(* The device finishes every request with an error when it loses the line  *)
(* or is told to disconnect; each is handled at once, in turn, and the     *)
(* group is updated after each that was a read.                            *)
abortAll(s) ==
  LET rs    == s.requests
      reads == {i \in DOMAIN rs : ~rs[i].task.write}
      upTo  == {i \in DOMAIN rs : \E j \in reads : i <= j}
      seen  == IF reads = {} THEN s ELSE update(setQuality(s, tagsOf(rs, upTo), "Bad"))
      all   == readyFiller(setQuality(seen, tagsOf(rs, DOMAIN rs), "Bad"),
                           tagsOf(rs, DOMAIN rs \ reads))
  IN  [all EXCEPT !.requests = <<>>, !.conn = "off",
                  !.shots = IF s.started THEN @ + Len(rs) ELSE @]

(* Mutant: stop() takes back a shot, whether one is under way or not. *)
disconnect_Takes(s) ==
  update(setQuality(abortAll([s EXCEPT !.started = FALSE, !.shots = @ - 1]), Tags, "Bad"))

(* taskTimer->stop() stops nothing: scheduleHandler uses a static shot.    *)
disconnect(s) ==
  update(setQuality(abortAll([s EXCEPT !.started = FALSE]), Tags, "Bad"))

Posted(s, e, c) ==
  CASE e.ev = "write"   -> createWriteTask(s, e.tag)
    [] e.ev = "connect" -> connect(s, c)
    [] OTHER            -> disconnect(s)

(* The controller serves the requests in their order.                      *)
serve(s, i) ==
  LET r == s.requests[i]
  IN  IF r.task.write
      THEN [s EXCEPT !.plc = [t \in Tags |-> IF t \in r.task.tags THEN r.vals[t]
                                             ELSE s.plc[t]],
                     !.requests[i] = [r EXCEPT !.done = TRUE]]
      ELSE [s EXCEPT !.requests[i] = [r EXCEPT !.done = TRUE, !.vals = s.plc]]

InitDriver(v) ==
  [started |-> FALSE, noError |-> TRUE, conn |-> "off", shots |-> 0,
   tasks |-> <<>>, requests |-> <<>>, due |-> TRUE, group |-> "Unknown",
   tag |-> [t \in Tags |-> [value |-> v, newValue |-> v, ready |-> TRUE,
                            quality |-> "Unknown"]],
   plc |-> [t \in Tags |-> v], posted |-> <<[ev |-> "connect"]>>,
   told |-> [t \in Tags |-> <<>>]]

=============================================================================
