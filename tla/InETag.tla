------------------------------- MODULE InETag -------------------------------
(* An input tag of a unit (InETag with its base class ETag): the value that *)
(* the driver reports or that the operator imitates, whether it is past the *)
(* detect level, and the watch over it: which state the unit needs, the     *)
(* timer until it must be there, and the alarm if it is not.                *)
(*                                                                          *)
(* The operators take the record of a tag and return the record after the  *)
(* call; what the call signals to the unit is told by operators beside it.  *)
EXTENDS Integers

CONSTANTS Tags,
          Low,            \* tags detected below their level (_highOrLow false)
          Timed,          \* tags whose _setTimer has an interval
          SelfResetting   \* tags with _alarmSelfReset

InETags == [value : Int, preValue : Int, imit : BOOLEAN, imitVal : Int, level : Int,
            detect : BOOLEAN,       \* _detect, which is _preDetect between calls
            told : BOOLEAN,         \* the last of s_detected and s_undetected
            DnotU : BOOLEAN, alarmOn : BOOLEAN, onlyChange : BOOLEAN,
            timer : BOOLEAN,        \* _setTimer is active
            alarm : BOOLEAN, mayReset : BOOLEAN, ignor : BOOLEAN]

value(c) == IF c.imit THEN c.imitVal ELSE c.value

_checkDetect(t, c) == IF t \in Low THEN value(c) <= c.level ELSE value(c) >= c.level

(* The state that the unit needs is not there. *)
missing(c) == ~c.onlyChange /\ c.detect # c.DnotU

-----------------------------------------------------------------------------
(* _checkVal *)

turned(t, c)  == _checkDetect(t, c) # c.detect
watched(t, c) == turned(t, c) /\ ~c.onlyChange

mayReset(t, c) ==
  IF watched(t, c) THEN _checkDetect(t, c) = c.DnotU \/ ~c.alarmOn ELSE c.mayReset

raises_Timed(t, c) ==
  /\ watched(t, c) /\ _checkDetect(t, c) # c.DnotU
  /\ c.alarmOn /\ t \notin Timed /\ ~c.ignor

raises(t, c) ==
  /\ watched(t, c) /\ _checkDetect(t, c) # c.DnotU
  /\ c.alarmOn /\ ~c.timer /\ ~c.ignor

resetsItself(t, c) == t \in SelfResetting /\ mayReset(t, c)

(* The function's static ChDt, one byte for all tags: it is set when the   *)
(* value differs from _preValue, else it keeps what the last call has left.*)
ChDt(t, c, ch) ==
  ((IF value(c) # c.preValue THEN 1 ELSE ch) + (IF turned(t, c) THEN 2 ELSE 0)) % 256

_checkVal(t, c, ch) ==
  [c EXCEPT !.detect   = _checkDetect(t, c),
            !.mayReset = mayReset(t, c),
            !.alarm    = (@ \/ raises(t, c)) /\ ~resetsItself(t, c),
            !.told     = IF ChDt(t, c, ch) \in {2, 3} THEN _checkDetect(t, c) ELSE @]

(* An alarm that is up already is repeated with an empty text, which the   *)
(* unit ignores.                                                           *)
signals(t, c) == raises(t, c) /\ ~c.alarm

-----------------------------------------------------------------------------
(* _acceptValue, before it checks the value *)
accept(c, v) ==
  [c EXCEPT !.preValue = IF c.imit THEN @ ELSE c.value, !.value = v]

(* needBe: the unit needs the tag detected (d) or undetected, raises an    *)
(* alarm when that changes (a), and gives it time (timed).                 *)
waits(timed, linked) == timed /\ linked

atOnce(t, c, d, a, timed, linked) ==
  ~waits(timed, linked) /\ _checkDetect(t, c) # d /\ a /\ ~c.ignor

needBe(t, c, d, a, timed, linked) ==
  LET wait == waits(timed, linked)
  IN  [c EXCEPT !.DnotU = d, !.alarmOn = a, !.onlyChange = FALSE,
                !.timer    = wait /\ t \in Timed,
                !.detect   = IF wait THEN @ ELSE _checkDetect(t, c),
                !.mayReset = wait \/ _checkDetect(t, c) = d \/ (IF a THEN c.ignor ELSE @),
                !.alarm    = @ \/ atOnce(t, c, d, a, timed, linked)]

onlyChange(c) ==
  [c EXCEPT !.onlyChange = TRUE, !.mayReset = TRUE, !.alarmOn = FALSE, !.timer = FALSE]

(* _setTimerEnd *)
overdue(c) == missing(c) /\ ~c.ignor

_setTimerEnd_Eaten(c) == [c EXCEPT !.timer = FALSE, !.alarm = @ \/ (overdue(c) /\ ~c.timer)]
_setTimerEnd(c) == [c EXCEPT !.timer = FALSE, !.alarm = @ \/ overdue(c)]

(* ETag::resetAlarm: what it leaves, and when it answers false. *)
resetAlarm(c) == [c EXCEPT !.alarm = @ /\ ~c.mayReset]
refuses(c)    == ~c.mayReset /\ ~c.ignor

=============================================================================
