----------------------------- MODULE OutputProps -----------------------------
(***************************************************************************)
(* What output tags and their driver promise: the units know what the      *)
(* controller has, what a unit asked for gets there, and the polling of a  *)
(* driver that is started never ends.                                      *)
(***************************************************************************)
EXTENDS OutETag

(* Event loops hand each event to its slot, shots and timers fire, the     *)
(* delay of the group passes, the controller serves its requests and a     *)
(* connection that is being made comes to an end.                          *)
Fairness ==
  /\ WF_vars(HandleNextTask)
  /\ WF_vars(HandlePosted)
  /\ WF_vars(Reply)
  /\ WF_vars(Serve)
  /\ WF_vars(Delay)
  /\ WF_vars(LinkUp)
  /\ \A t \in Tags : /\ WF_vars(_acceptValue(t) \/ _qualityChangedSlot(t) \/ _setTimerEnd(t))
                     /\ WF_vars(SetTimer(t))

FairSpec == Spec /\ Fairness

-----------------------------------------------------------------------------

(* Types.                                                                  *)
OutputTypeOK ==
  /\ drv \in DriverRecord
  /\ etag \in [Tags -> ETagRecord]
  /\ sets \in 0 .. MaxSets
  /\ disturb \in 0 .. MaxDisturb

(* Polling never stops: as long as the driver is started, a shot is under  *)
(* way or a request is, whose answer or failure schedules the next shot -- *)
(* through broken lines, failed requests and reconnections at any moment.  *)
PollingGoesOn == drv.started => drv.shots + Len(drv.requests) > 0

(* The list of tasks stays bounded however fast units write and however    *)
(* long there is no connection: no task is in it twice, so that a write    *)
(* which waits takes the newest value and no range is read twice over.     *)
TasksBounded ==
  \A i, j \in DOMAIN drv.tasks : drv.tasks[i] = drv.tasks[j] => i = j

ValueAt(seq, i) == i \in DOMAIN seq /\ seq[i].ev = "value"

(* What the unit believes of its output follows what the driver knows:     *)
(* the last value on its way is that of the tag, and when none is on its   *)
(* way the unit has it already.                                            *)
BeliefFollows ==
  \A t \in Tags :
    /\ \A i \in DOMAIN drv.told[t] :
         ValueAt(drv.told[t], i) /\ (\A j \in DOMAIN drv.told[t] : j > i => ~ValueAt(drv.told[t], j))
           => drv.told[t][i].val = drv.tag[t].value
    /\ (\A i \in DOMAIN drv.told[t] : ~ValueAt(drv.told[t], i))
         => etag[t].value = drv.tag[t].value

Known(t) == drv.tag[t].quality = "Good"

(* What a unit asks for comes to the controller, unless the line is lost   *)
(* first, the unit asks for something else or the output is imitated: a    *)
(* write that is overtaken or overwritten on its way is asked for again.   *)
DemandServed ==
  \A t \in Tags, v \in Values :
    (etag[t].seted = v /\ etag[t].timer /\ Waits(t))
      ~> (drv.plc[t] = v \/ etag[t].seted # v \/ ~Known(t) \/ etag[t].imit)

(* A unit comes to know what the controller has, or that it does not know: *)
(* a value that is reported before it is written, or is written and then   *)
(* lost, is corrected.                                                     *)
BeliefReal ==
  \A t \in Tags : etag[t].value # drv.plc[t]
      ~> (etag[t].value = drv.plc[t] \/ ~Known(t))

=============================================================================
