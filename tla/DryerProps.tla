----------------------------- MODULE DryerProps -----------------------------
(***************************************************************************)
(* What a dryer promises: fire only in moving air, a stop that outlives the *)
(* timers of the start, and orders that come to an end.                    *)
(***************************************************************************)
EXTENDS Dryer

(* The thread takes the events that wait; the units look at their tags and *)
(* at their lines; running timers expire; contactors follow their outputs. *)
(* A line that broke need not come back.  The first is stated on the queue *)
(* alone: to be taken is all an event needs.                               *)
Fairness ==
  /\ WF_events(events # <<>> /\ events' = Tail(events))
  /\ WF_vars(\E u \in SubUnits : Observe(u))
  /\ WF_vars(\E u \in Lossy : _sensorConnect(u))
  /\ WF_vars(Timers)
  /\ WF_vars(\E u \in SubUnits : Contactor(u))

FairSpec == Spec /\ Fairness

-----------------------------------------------------------------------------

(* The variables keep to their types: _commonModeByType never meets a mode *)
(* it does not know, and no event is lost or invented.                     *)
DryerTypeOK ==
  /\ d \in DryerRecord
  /\ events \in Seq(Events)
  /\ clicks \in 0 .. MaxClicks
  /\ disturb \in 0 .. MaxDisturb

(* The interlock of _updateStateAndMode lags behind nothing: at every      *)
(* moment the fans are blocked if the dryer knows of a fire, and the       *)
(* burners are blocked unless it knows every fan to run.  A handler that   *)
(* changes _CFmode or _BrMode and returns early would break it.            *)
BlocksFollow ==
  /\ d.br \in {"UnMdStart", "UnMdPartStarted"} => \A f \in Fans : d.unit[f].blocked
  /\ d.cf # "UnMdStart" => \A b \in Burners : d.unit[b].blocked

(* No burner goes on burning after the dryer has learnt that a fan stands: *)
(* it has been put out, or it has only just told that it burns and the     *)
(* dryer is about to hear of it.  _updateStateAndMode runs on a change of  *)
(* the common modes only, so that a burner it passes over once may never   *)
(* be looked at again.                                                     *)
BurnersGuarded ==
  \A b \in Burners :
    d.unit[b].out /\ d.unit[b].curr = "UnMdStart" /\ d.cf # "UnMdStart"
      => [ev |-> "mode", arg |-> b] \in Elements(events)

Rises(u) == ~d.unit[u].out /\ d'.unit[u].out

ByButton(u) ==
  /\ events # <<>>
  /\ Head(events) = [ev |-> "start", arg |-> u]
  /\ events' = Tail(events)

(* Once the dryer is told to stop, and until it is told otherwise, it      *)
(* switches nothing on by itself, neither by the delays between two fans   *)
(* and two burners and the cooling timer, running as they may have been,   *)
(* nor on a mode a sub-unit still reports, nor when a broken line comes    *)
(* back.  The warning siren is excepted: the singleShot of an earlier      *)
(* start (shotCF), which no stop() reaches, does start a fan when it ends. *)
StopHolds ==
  [][\A u \in SubUnits :
       Rises(u) /\ d.order = "UnMdStop" /\ d.shotCF = 0 => ByButton(u)]_vars

(* With nothing disturbing it, an order to start, to cool or to cool and   *)
(* stop comes to its end: the chain of timers and reported modes that      *)
(* brings the sub-units along one by one does not break off.               *)
OrdersEnd ==
  [](disturb = MaxDisturb) =>
    \A m \in {"UnMdStart", "UnMdColling", "UnMdCollingStop"} :
      d.seted = m ~> d.seted # m

(* A fire without air does not last: a burner that is switched on while a  *)
(* fan is switched off is put out, or the fan starts.  This covers also    *)
(* the burner that has not told yet that it burns, which _updateSubUnitState *)
(* was meant to stop and never hears of; and the burner whose stop was     *)
(* lost because its line was down, and is made up for when it is back.     *)
FireWithoutAir ==
  /\ \E b \in Burners : d.unit[b].out
  /\ \E f \in Fans : ~d.unit[f].out

LineDown == \E b \in Burners : ~d.unit[b].linked

FireNeedsAir == FireWithoutAir ~> (~FireWithoutAir \/ LineDown)

=============================================================================
