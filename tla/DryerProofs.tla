---------------------------- MODULE DryerProofs ----------------------------
(***************************************************************************)
(* Proofs about a dryer with any number of fans and burners.  Every         *)
(* operator on the dryer gets lemmas that say of its result what type it    *)
(* has, what it keeps (Keeps), that it switches nothing on (Calm), and that *)
(* a lit burner is one known to start (Lit); the theorems compose them.    *)
(***************************************************************************)
EXTENDS DryerProps, WellFoundedInduction, TLAPS

(* What every operation but the handling of a mode keeps: the common modes, *)
(* the modes the sub-units told; and no blocked burner is switched on.     *)
Keeps(s, t) ==
  /\ t.cf = s.cf
  /\ t.br = s.br
  /\ \A u \in SubUnits : t.unit[u].curr = s.unit[u].curr
  /\ \A b \in Burners : t.unit[b].out /\ s.unit[b].blocked => s.unit[b].out

(* Nothing is switched on. *)
Calm(s, t) == \A u \in SubUnits : t.unit[u].out => s.unit[u].out

(* No unit is blocked or let go. *)
SameBlocks(s, t) == \A u \in SubUnits : t.unit[u].blocked = s.unit[u].blocked

(* Every line holds, and the units know no better. *)
Reached(r) == r.linked /\ r.connected

(* A burner that is on has told its start, or is asked for it: no order to *)
(* put out the starting burners passes over it, nor is it lost on the way. *)
Lit(s) ==
  \A b \in Burners :
    /\ Reached(s.unit[b])
    /\ s.unit[b].out => s.unit[b].curr = "UnMdStart" \/ s.unit[b].seted = "UnMdStart"

-----------------------------------------------------------------------------
(* One unit.                                                               *)

LEMMA WriteType ==
  ASSUME NEW r \in UnitRecord, NEW v \in BOOLEAN
  PROVE  /\ Write(r, v) \in UnitRecord
         /\ Write(r, v).curr = r.curr /\ Write(r, v).seted = r.seted
         /\ Write(r, v).out = (IF r.linked THEN v ELSE r.out)
         /\ Write(r, v).blocked = r.blocked /\ Write(r, v).state = r.state
         /\ Write(r, v).linked = r.linked /\ Write(r, v).connected = r.connected
<1> DEFINE n == IF v = r.out THEN r.due ELSE MaxDue
<1>1. n \in 0 .. MaxDue
  BY DEF UnitRecord, MaxDue
<1>2. Write(r, v) = IF r.linked THEN [r EXCEPT !.out = v, !.due = n] ELSE r
  BY DEF Write
<1> HIDE DEF n
<1> QED
  BY <1>1, <1>2 DEF UnitRecord

(* An order changes neither the mode a fan has told nor whether it is      *)
(* blocked, and only an order to start switches it on.                     *)
LEMMA FanSetModeKeeps ==
  ASSUME NEW r \in UnitRecord, NEW m \in Modes
  PROVE  /\ FanSetMode(r, m) \in UnitRecord
         /\ FanSetMode(r, m).curr = r.curr
         /\ FanSetMode(r, m).blocked = r.blocked
         /\ FanSetMode(r, m).linked = r.linked /\ FanSetMode(r, m).connected = r.connected
         /\ m # "UnMdStart" /\ FanSetMode(r, m).out => r.out
<1> DEFINE on == Write(r, TRUE)  off == Write(r, FALSE)
<1>1. /\ on \in UnitRecord /\ on.curr = r.curr /\ on.blocked = r.blocked
      /\ on.out = (IF r.linked THEN TRUE ELSE r.out)
      /\ on.linked = r.linked /\ on.connected = r.connected
  BY WriteType
<1>2. /\ off \in UnitRecord /\ off.curr = r.curr /\ off.blocked = r.blocked
      /\ off.out = (IF r.linked THEN FALSE ELSE r.out)
      /\ off.linked = r.linked /\ off.connected = r.connected
  BY WriteType
<1>3. NoDef \in Modes
  BY DEF NoDef, Modes
<1>4. FanSetMode(r, m) =
        CASE m = "UnMdStop" ->
               [off EXCEPT !.seted = IF r.state = "UnStStoped" THEN NoDef ELSE m]
          [] m = "UnMdStart" /\ ~r.alarm /\ r.state = "UnStStoped" -> [on EXCEPT !.seted = m]
          [] m = "UnMdStart" /\ ~r.alarm /\ r.state = "UnStStartCommand" ->
               [r EXCEPT !.seted = m]
          [] OTHER -> [r EXCEPT !.seted = NoDef]
  BY DEF FanSetMode
<1> HIDE DEF on, off
<1>5. CASE m = "UnMdStop"
  BY <1>2, <1>3, <1>4, <1>5 DEF UnitRecord
<1>6. CASE m = "UnMdStart"
  BY <1>1, <1>3, <1>4, <1>6 DEF UnitRecord
<1>7. CASE m \notin {"UnMdStop", "UnMdStart"}
  BY <1>3, <1>4, <1>7 DEF UnitRecord
<1> QED
  BY <1>5, <1>6, <1>7

(* The same of a burner, which is not switched on while it is blocked.  If *)
(* it was known to start whenever it was on, and is asked to start only    *)
(* while it is not, it stays so.                                           *)
LEMMA BurnerSetModeKeeps ==
  ASSUME NEW r \in UnitRecord, NEW m \in Modes
  PROVE  /\ BurnerSetMode(r, m) \in UnitRecord
         /\ BurnerSetMode(r, m).curr = r.curr
         /\ BurnerSetMode(r, m).blocked = r.blocked
         /\ BurnerSetMode(r, m).linked = r.linked
         /\ BurnerSetMode(r, m).connected = r.connected
         /\ m # "UnMdStart" /\ BurnerSetMode(r, m).out => r.out
         /\ m # "UnMdStart" /\ Reached(r) => ~BurnerSetMode(r, m).out
         /\ r.blocked /\ BurnerSetMode(r, m).out => r.out
         /\ ~r.out /\ BurnerSetMode(r, m).out => BurnerSetMode(r, m).seted = "UnMdStart"
<1> DEFINE on == Write(r, TRUE)  off == Write(r, FALSE)
<1>1. /\ on \in UnitRecord /\ on.curr = r.curr /\ on.blocked = r.blocked
      /\ on.out = (IF r.linked THEN TRUE ELSE r.out)
      /\ on.linked = r.linked /\ on.connected = r.connected
  BY WriteType
<1>2. /\ off \in UnitRecord /\ off.curr = r.curr /\ off.blocked = r.blocked
      /\ off.out = (IF r.linked THEN FALSE ELSE r.out)
      /\ off.linked = r.linked /\ off.connected = r.connected
  BY WriteType
<1>3. NoDef \in Modes
  BY DEF NoDef, Modes
<1> DEFINE may == m = "UnMdStart" /\ r.connected /\ ~r.blocked /\ ~r.alarm
           go == IF r.linked THEN m ELSE NoDef
<1>4. BurnerSetMode(r, m) =
        CASE may /\ r.state = "UnStStartCommand" -> [r EXCEPT !.seted = m]
          [] may /\ r.state \notin {"UnStStartCommand", "UnStStarted"} -> [on EXCEPT !.seted = go]
          [] m # "UnMdStart" /\ r.connected /\ r.out -> [off EXCEPT !.seted = "UnMdCollingStop"]
          [] OTHER -> [r EXCEPT !.seted = NoDef]
  BY DEF BurnerSetMode
<1> HIDE DEF on, off
<1>5. CASE may /\ r.state \notin {"UnStStartCommand", "UnStStarted"}
  <2>1. BurnerSetMode(r, m) = [on EXCEPT !.seted = go] /\ go \in Modes
    BY <1>3, <1>4, <1>5
  <2>2. r.linked => go = "UnMdStart"
    BY <1>5
  <2> HIDE DEF go
  <2> QED
    BY <1>1, <1>5, <2>1, <2>2 DEF UnitRecord
<1>6. CASE m # "UnMdStart" /\ r.connected /\ r.out
  BY <1>2, <1>4, <1>6 DEF UnitRecord, Modes, Reached
<1>7. CASE ~(may /\ r.state # "UnStStarted") /\ ~(m # "UnMdStart" /\ r.connected /\ r.out)
  <2>1. BurnerSetMode(r, m) = [r EXCEPT !.seted = NoDef]
    BY <1>4, <1>7
  <2> QED
    BY <2>1, <1>3, <1>7 DEF UnitRecord, Reached
<1>8. CASE may /\ r.state = "UnStStartCommand"
  BY <1>4, <1>8 DEF UnitRecord
<1> QED
  BY <1>5, <1>6, <1>7, <1>8

(* What a unit makes of its tags: a record of its kind; a burner has told  *)
(* its start or its end, and no output changes.                            *)
LEMMA UpdateStateKeeps ==
  ASSUME NEW r \in UnitRecord, r.due > 0, NEW isFan \in BOOLEAN
  PROVE  LET t == updateState(r, isFan)
         IN  /\ t \in UnitRecord
             /\ t.out = r.out /\ t.blocked = r.blocked
             /\ t.linked = r.linked /\ t.connected = r.connected
             /\ t.state \in settled
                  => /\ t.curr = modeOf(t.state, isFan)
                     /\ t.seted = NoDef
                     /\ t.out /\ t.connected => t.state = "UnStStarted"
             /\ t.state \notin settled => t.curr = r.curr /\ t.seted = r.seted
             /\ ~isFan => t.state # "UnStManualStarted"
             /\ r.connected => t.state # "UnStNotConnected"
<1> DEFINE state == IF r.connected THEN stateOf(r, isFan) ELSE "UnStNotConnected"
           seen  == [r EXCEPT !.state = state, !.due = @ - 1]
           t     == updateState(r, isFan)
<1>1. state \in States /\ (~isFan => state # "UnStManualStarted")
      /\ (state \in settled /\ r.out /\ r.connected => state = "UnStStarted")
      /\ (r.connected => state # "UnStNotConnected")
  BY DEF stateOf, States, settled, UnitRecord
<1>2. modeOf(state, isFan) \in Modes
  BY DEF modeOf, Modes, NoDef
<1>3. seen \in UnitRecord /\ seen.state = state /\ seen.out = r.out
      /\ seen.blocked = r.blocked /\ seen.curr = r.curr /\ seen.seted = r.seted
      /\ seen.linked = r.linked /\ seen.connected = r.connected
  <2>1. r.due - 1 \in 0 .. MaxDue
    BY DEF UnitRecord, MaxDue
  <2> HIDE DEF state
  <2> QED
    BY <1>1, <2>1 DEF UnitRecord
<1>4. t = IF state \in settled
          THEN [seen EXCEPT !.curr = modeOf(state, isFan), !.seted = NoDef] ELSE seen
  BY DEF updateState
<1>5. NoDef \in Modes
  BY DEF NoDef, Modes
<1> HIDE DEF state, seen, t
<1>6. CASE state \in settled
  <2> DEFINE mo == modeOf(state, isFan)
  <2>1. t = [seen EXCEPT !.curr = mo, !.seted = NoDef] /\ mo \in Modes
    BY <1>2, <1>4, <1>6
  <2> HIDE DEF mo
  <2>2. t \in UnitRecord /\ t.curr = mo /\ t.seted = NoDef /\ t.state = state
        /\ t.out = r.out /\ t.blocked = r.blocked
        /\ t.linked = r.linked /\ t.connected = r.connected
    BY <1>3, <1>5, <2>1 DEF UnitRecord
  <2> QED
    BY <1>1, <1>6, <2>2 DEF t, mo
<1>7. CASE state \notin settled
  BY <1>1, <1>3, <1>4, <1>7 DEF t
<1> QED
  BY <1>6, <1>7

-----------------------------------------------------------------------------
(* Orders to several units.                                                *)

(* A dryer is its record, and the units are told apart.                    *)
LEMMA Parts ==
  ASSUME NEW s \in DryerRecord
  PROVE  /\ s.unit \in [SubUnits -> UnitRecord]
         /\ \A u \in SubUnits : s.unit[u] \in UnitRecord
  BY DEF DryerRecord

LEMMA UnitsReplaced ==
  ASSUME NEW s \in DryerRecord, NEW f \in [SubUnits -> UnitRecord]
  PROVE  /\ [s EXCEPT !.unit = f] \in DryerRecord
         /\ [s EXCEPT !.unit = f].unit = f
         /\ [s EXCEPT !.unit = f].mode = s.mode /\ [s EXCEPT !.unit = f].seted = s.seted
         /\ [s EXCEPT !.unit = f].cf = s.cf /\ [s EXCEPT !.unit = f].br = s.br
         /\ [s EXCEPT !.unit = f].order = s.order
         /\ [s EXCEPT !.unit = f].startCF = s.startCF
         /\ [s EXCEPT !.unit = f].shotCF = s.shotCF
         /\ [s EXCEPT !.unit = f].alarm = s.alarm
  BY DEF DryerRecord

(* What an operation leaves alone that gives orders to sub-units only. *)
OnlyUnits(s, t) ==
  /\ t.cf = s.cf /\ t.br = s.br /\ t.order = s.order /\ t.mode = s.mode
  /\ t.seted = s.seted /\ t.startCF = s.startCF /\ t.shotCF = s.shotCF
  /\ t.alarm = s.alarm

(* An order to one sub-unit. *)
LEMMA SetSubModeKeeps ==
  ASSUME NEW u \in SubUnits, NEW r \in UnitRecord, NEW m \in Modes
  PROVE  /\ setSubMode(u, r, m) \in UnitRecord
         /\ setSubMode(u, r, m).curr = r.curr
         /\ setSubMode(u, r, m).blocked = r.blocked
         /\ setSubMode(u, r, m).linked = r.linked
         /\ setSubMode(u, r, m).connected = r.connected
         /\ m # "UnMdStart" /\ setSubMode(u, r, m).out => r.out
         /\ u \in Burners /\ r.blocked /\ setSubMode(u, r, m).out => r.out
         /\ u \in Burners /\ m # "UnMdStart" /\ Reached(r) => ~setSubMode(u, r, m).out
         /\ u \in Burners /\ ~r.out /\ setSubMode(u, r, m).out
              => setSubMode(u, r, m).seted = "UnMdStart"
<1>1. CASE u \in Fans
  <2>1. u \notin Burners
    BY <1>1, DryerConstants
  <2>2. setSubMode(u, r, m) = FanSetMode(r, m)
    BY <1>1 DEF setSubMode
  <2> QED
    BY <2>1, <2>2, FanSetModeKeeps
<1>2. CASE u \notin Fans
  <2>1. setSubMode(u, r, m) = BurnerSetMode(r, m)
    BY <1>2 DEF setSubMode
  <2> QED
    BY <2>1, BurnerSetModeKeeps
<1> QED
  BY <1>1, <1>2

(* A choice of sub-units gets the same order: to stop them, or to start    *)
(* such as are not lit.                                                    *)
ordered(s, us, m) ==
  [s EXCEPT !.unit = [u \in SubUnits |->
     IF u \in us THEN setSubMode(u, s.unit[u], m) ELSE s.unit[u]]]

LEMMA OrderedKeeps ==
  ASSUME NEW s \in DryerRecord, NEW us, NEW m \in Modes
  PROVE  LET t == ordered(s, us, m)
         IN  /\ t \in DryerRecord /\ OnlyUnits(s, t) /\ Keeps(s, t) /\ SameBlocks(s, t)
             /\ m # "UnMdStart" => Calm(s, t)
             /\ \A u \in SubUnits :
                  t.unit[u] = IF u \in us THEN setSubMode(u, s.unit[u], m) ELSE s.unit[u]
<1> DEFINE f == [u \in SubUnits |->
                   IF u \in us THEN setSubMode(u, s.unit[u], m) ELSE s.unit[u]]
           t == ordered(s, us, m)
<1>1. \A u \in SubUnits :
        /\ f[u] \in UnitRecord
        /\ f[u].curr = s.unit[u].curr
        /\ f[u].blocked = s.unit[u].blocked
        /\ m # "UnMdStart" /\ f[u].out => s.unit[u].out
        /\ u \in Burners /\ s.unit[u].blocked /\ f[u].out => s.unit[u].out
  BY Parts, SetSubModeKeeps
<1>2. f \in [SubUnits -> UnitRecord]
  BY <1>1
<1>3. t = [s EXCEPT !.unit = f]
  BY DEF ordered
<1>4. \A u \in SubUnits :
        f[u] = IF u \in us THEN setSubMode(u, s.unit[u], m) ELSE s.unit[u]
  OBVIOUS
<1> HIDE DEF f, t
<1>5. t \in DryerRecord /\ OnlyUnits(s, t) /\ t.unit = f
  BY <1>2, <1>3, UnitsReplaced DEF OnlyUnits
<1>6. Burners \subseteq SubUnits
  BY DEF SubUnits
<1>7. Keeps(s, t)
  BY <1>1, <1>5, <1>6 DEF Keeps, OnlyUnits
<1>8. SameBlocks(s, t) /\ (m # "UnMdStart" => Calm(s, t))
  BY <1>1, <1>5 DEF SameBlocks, Calm
<1> QED
  BY <1>4, <1>5, <1>7, <1>8 DEF t

LEMMA OrderedLit ==
  ASSUME NEW s \in DryerRecord, Lit(s), NEW us, NEW m \in Modes,
         m = "UnMdStart" => \A u \in us : ~isCurrOrSeted(s.unit[u], {"UnMdStart"})
  PROVE  Lit(ordered(s, us, m))
<1> DEFINE t == ordered(s, us, m)
<1> SUFFICES ASSUME NEW b \in Burners
             PROVE  /\ Reached(t.unit[b])
                    /\ t.unit[b].out
                         => t.unit[b].curr = "UnMdStart" \/ t.unit[b].seted = "UnMdStart"
  BY DEF Lit
<1>1. b \in SubUnits
  BY DEF SubUnits
<1>2. t.unit[b] = IF b \in us THEN setSubMode(b, s.unit[b], m) ELSE s.unit[b]
  BY <1>1, OrderedKeeps
<1>3. s.unit[b] \in UnitRecord
  BY <1>1, Parts
<1>4. /\ Reached(s.unit[b])
      /\ s.unit[b].out => s.unit[b].curr = "UnMdStart" \/ s.unit[b].seted = "UnMdStart"
  BY DEF Lit
<1>5. CASE b \in us
  <2>1. Reached(t.unit[b])
    BY <1>1, <1>2, <1>3, <1>4, <1>5, SetSubModeKeeps DEF Reached
  <2>2. ASSUME t.unit[b].out PROVE t.unit[b].seted = "UnMdStart"
    <3>1. m = "UnMdStart"
      BY <1>1, <1>2, <1>3, <1>4, <1>5, <2>2, SetSubModeKeeps
    <3>2. ~s.unit[b].out
      BY <1>4, <1>5, <3>1 DEF isCurrOrSeted
    <3> QED
      BY <1>1, <1>2, <1>3, <1>5, <2>2, <3>2, SetSubModeKeeps
  <2> QED
    BY <2>1, <2>2
<1>6. CASE b \notin us
  BY <1>2, <1>4, <1>6
<1> QED
  BY <1>5, <1>6

-----------------------------------------------------------------------------
(* The operators that order, timers first.  Fine says of a change all that *)
(* the theorems want of most of them.                                      *)

Fine(s, t) ==
  t \in DryerRecord /\ Keeps(s, t) /\ SameBlocks(s, t) /\ (Lit(s) => Lit(t))

LEMMA FineChain ==
  ASSUME NEW s, NEW t, NEW w, Fine(s, t), Fine(t, w)
  PROVE  Fine(s, w) /\ (Calm(s, t) /\ Calm(t, w) => Calm(s, w))
<1>1. Burners \subseteq SubUnits
  BY DEF SubUnits
<1>2. \A b \in Burners : w.unit[b].out /\ s.unit[b].blocked => s.unit[b].out
  BY <1>1 DEF Fine, Keeps, SameBlocks
<1>3. Keeps(s, w) /\ SameBlocks(s, w)
  BY <1>1, <1>2 DEF Fine, Keeps, SameBlocks
<1>4. Calm(s, t) /\ Calm(t, w) => Calm(s, w)
  BY DEF Calm
<1> QED
  BY <1>3, <1>4 DEF Fine

LEMMA FineSelf ==
  ASSUME NEW s \in DryerRecord
  PROVE  Fine(s, s) /\ Calm(s, s) /\ OnlyUnits(s, s)
  BY DEF Fine, Keeps, SameBlocks, Calm, OnlyUnits

LEMMA OrderedFine ==
  ASSUME NEW s \in DryerRecord, NEW us, NEW m \in Modes, m # "UnMdStart"
  PROVE  Fine(s, ordered(s, us, m)) /\ Calm(s, ordered(s, us, m))
         /\ OnlyUnits(s, ordered(s, us, m))
  BY OrderedKeeps, OrderedLit DEF Fine

LEMMA CommandFine ==
  ASSUME NEW s \in DryerRecord, NEW us, NEW m \in Modes, m # "UnMdStart", NEW targets
  PROVE  /\ Fine(s, command(s, us, m, targets)) /\ Calm(s, command(s, us, m, targets))
         /\ OnlyUnits(s, command(s, us, m, targets))
<1> DEFINE to == {u \in us : isCurrOrSeted(s.unit[u], targets)}
<1>1. \A u \in SubUnits :
        u \in to <=> u \in us /\ isCurrOrSeted(s.unit[u], targets)
  OBVIOUS
<1> HIDE DEF to
<1>2. command(s, us, m, targets) = ordered(s, to, m)
  BY <1>1 DEF command, ordered
<1> QED
  BY <1>2, OrderedFine

(* Those who burn or are asked to are all put out by an order to them.     *)
LEMMA CommandPutsOut ==
  ASSUME NEW s \in DryerRecord, Lit(s), NEW m \in Modes, m # "UnMdStart"
  PROVE  \A b \in Burners : ~command(s, Burners, m, {"UnMdStart"}).unit[b].out
<1> TAKE b \in Burners
<1>1. b \in SubUnits /\ s.unit[b] \in UnitRecord
  BY Parts DEF SubUnits
<1>2. command(s, Burners, m, {"UnMdStart"}).unit[b] =
        IF isCurrOrSeted(s.unit[b], {"UnMdStart"})
        THEN setSubMode(b, s.unit[b], m) ELSE s.unit[b]
  <2> DEFINE f == [u \in SubUnits |->
           IF u \in Burners /\ isCurrOrSeted(s.unit[u], {"UnMdStart"})
           THEN setSubMode(u, s.unit[u], m) ELSE s.unit[u]]
  <2>1. f[b] = IF isCurrOrSeted(s.unit[b], {"UnMdStart"})
               THEN setSubMode(b, s.unit[b], m) ELSE s.unit[b]
    BY <1>1
  <2>2. command(s, Burners, m, {"UnMdStart"}) = [s EXCEPT !.unit = f]
    BY DEF command
  <2> HIDE DEF f
  <2>3. [s EXCEPT !.unit = f].unit = f
    BY DEF DryerRecord
  <2> QED
    BY <2>1, <2>2, <2>3
<1>3. CASE isCurrOrSeted(s.unit[b], {"UnMdStart"})
  BY <1>1, <1>2, <1>3, SetSubModeKeeps DEF Lit
<1>4. CASE ~isCurrOrSeted(s.unit[b], {"UnMdStart"})
  <2>1. ~s.unit[b].out
    BY <1>4 DEF Lit, isCurrOrSeted
  <2> QED
    BY <1>2, <1>4, <2>1
<1> QED
  BY <1>3, <1>4

LEMMA StartFirstFine ==
  ASSUME NEW s \in DryerRecord, NEW seq, NEW us,
         \A u \in us : ~isCurrOrSeted(s.unit[u], {"UnMdStart"})
  PROVE  Fine(s, startFirst(s, seq, us)) /\ OnlyUnits(s, startFirst(s, seq, us))
<1> DEFINE next == {i \in DOMAIN seq : seq[i] \in us
                                       /\ \A j \in 1 .. (i - 1) : seq[j] \notin us}
           to   == {u \in SubUnits : \E i \in next : u = seq[i]}
<1>1. to \subseteq us
  OBVIOUS
<1>2. \A u \in SubUnits : u \in to <=> \E i \in next : u = seq[i]
  OBVIOUS
<1>3. startFirst(s, seq, us) =
        [s EXCEPT !.unit = [u \in SubUnits |->
           IF \E i \in next : u = seq[i]
           THEN setSubMode(u, s.unit[u], "UnMdStart") ELSE s.unit[u]]]
  BY DEF startFirst
<1> HIDE DEF next, to
<1>4. startFirst(s, seq, us) = ordered(s, to, "UnMdStart")
  BY <1>2, <1>3 DEF ordered
<1>5. "UnMdStart" \in Modes
  BY DEF Modes
<1>6. \A u \in to : ~isCurrOrSeted(s.unit[u], {"UnMdStart"})
  BY <1>1
<1> QED
  BY <1>4, <1>5, <1>6, OrderedKeeps, OrderedLit DEF Fine

LEMMA StartCFFine ==
  ASSUME NEW s \in DryerRecord
  PROVE  Fine(s, _startCFbyTimer(s)) /\ OnlyUnits(s, _startCFbyTimer(s))
  BY StartFirstFine DEF _startCFbyTimer

LEMMA StartBrFine ==
  ASSUME NEW s \in DryerRecord
  PROVE  Fine(s, _startBrByTimer(s)) /\ OnlyUnits(s, _startBrByTimer(s))
         /\ (s.seted # "UnMdStart" => _startBrByTimer(s) = s)
<1> DEFINE us == {u \in Burners : ~isCurrOrSeted(s.unit[u], {"UnMdStart"})}
<1>1. Fine(s, startFirst(s, Brs, us)) /\ OnlyUnits(s, startFirst(s, Brs, us))
  BY StartFirstFine
<1> QED
  BY <1>1, FineSelf DEF _startBrByTimer

LEMMA StopBrFine ==
  ASSUME NEW s \in DryerRecord
  PROVE  /\ Fine(s, _stopBrByTimer(s)) /\ Calm(s, _stopBrByTimer(s))
         /\ OnlyUnits(s, _stopBrByTimer(s))
<1> DEFINE asked == {i \in DOMAIN Brs :
                  /\ Brs[i] \in toCool(s)
                  /\ \A j \in 1 .. (i - 1) :
                       ~(Brs[j] \in toCool(s) /\ stopWaits(s.unit[Brs[j]]))}
           to == {u \in SubUnits : \E i \in asked : u = Brs[i]}
<1>1. to \subseteq toCool(s)
  OBVIOUS
<1>2. \A u \in SubUnits : u \in to <=> \E i \in asked : u = Brs[i]
  OBVIOUS
<1>3. _stopBrByTimer(s) =
        [s EXCEPT !.unit = [u \in SubUnits |->
           IF \E i \in asked : u = Brs[i]
           THEN BurnerSetMode(s.unit[u], s.seted) ELSE s.unit[u]]]
  BY DEF _stopBrByTimer
<1> HIDE DEF asked, to
<1>4. toCool(s) \subseteq Burners
  BY DEF toCool
<1>5. \A u \in to : BurnerSetMode(s.unit[u], s.seted) = setSubMode(u, s.unit[u], s.seted)
  BY <1>1, <1>4, DryerConstants DEF setSubMode
<1>6. _stopBrByTimer(s) = ordered(s, to, s.seted)
  BY <1>2, <1>3, <1>5 DEF ordered
<1>7. s.seted \in Modes
  BY DEF DryerRecord
<1>8. CASE s.seted # "UnMdStart"
  BY <1>6, <1>7, <1>8, OrderedFine
<1>9. CASE s.seted = "UnMdStart"
  <2>1. to = {}
    BY <1>1, <1>9 DEF toCool
  <2>2. ordered(s, to, s.seted) = s
    <3> DEFINE f == [u \in SubUnits |->
                       IF u \in to THEN setSubMode(u, s.unit[u], s.seted) ELSE s.unit[u]]
    <3>1. f = s.unit
      BY <2>1, Parts
    <3>2. ordered(s, to, s.seted) = [s EXCEPT !.unit = f]
      BY DEF ordered
    <3> HIDE DEF f
    <3> QED
      BY <3>1, <3>2 DEF DryerRecord
  <2> QED
    BY <1>6, <2>2, FineSelf
<1> QED
  BY <1>8, <1>9

-----------------------------------------------------------------------------
(* The invariants, of a state of the dryer.                                *)

(* BlocksFollow. *)
Blocks(s) ==
  /\ s.br \in {"UnMdStart", "UnMdPartStarted"} => \A f \in Fans : s.unit[f].blocked
  /\ s.cf # "UnMdStart" => \A b \in Burners : s.unit[b].blocked

(* Once the dryer knows of fire without air, nothing burns.                *)
NoFire(s) ==
  s.cf # "UnMdStart" /\ s.br \in {"UnMdStart", "UnMdPartStarted"}
    => \A b \in Burners : ~s.unit[b].out

(* A stopped dryer has no mode to reach and no fan to start.               *)
Stopped(s) == s.order = "UnMdStop" => ~s.startCF /\ s.seted \in {"UnMdStop", NoDef}

(* What an operation does to the orders of the dryer: it keeps them, or    *)
(* the mode to be reached is dropped.                                      *)
SameOrder(s, t) ==
  t.order = s.order /\ t.startCF = s.startCF /\ t.seted \in {s.seted, NoDef}

LEMMA FineBlocks ==
  ASSUME NEW s, NEW t, Fine(s, t), Blocks(s)
  PROVE  Blocks(t) /\ (NoFire(s) => NoFire(t))
<1>1. Burners \subseteq SubUnits /\ Fans \subseteq SubUnits
  BY DEF SubUnits
<1>2. Blocks(t)
  BY <1>1 DEF Fine, Keeps, SameBlocks, Blocks
<1>3. NoFire(s) => NoFire(t)
  BY DEF Fine, Keeps, Blocks, NoFire
<1> QED
  BY <1>2, <1>3

LEMMA SameOrderStopped ==
  ASSUME NEW s, NEW t, SameOrder(s, t), Stopped(s)
  PROVE  Stopped(t)
  BY DEF SameOrder, Stopped, NoDef

LEMMA ModeTypes ==
  /\ NoDef \in Modes
  /\ {"UnMdStop", "UnMdStart", "UnMdColling", "UnMdCollingStop"} \subseteq Modes
  /\ Orders \subseteq Modes
  BY DEF NoDef, Modes, Orders

LEMMA UnitKept ==
  ASSUME NEW s \in DryerRecord, NEW t \in DryerRecord,
         t.unit = s.unit, t.cf = s.cf, t.br = s.br
  PROVE  Fine(s, t) /\ Calm(s, t)
  BY DEF Fine, Keeps, SameBlocks, Calm, Lit

LEMMA NoModeFine ==
  ASSUME NEW s \in DryerRecord
  PROVE  Fine(s, noMode(s)) /\ Calm(s, noMode(s)) /\ SameOrder(s, noMode(s))
<1>1. noMode(s) \in DryerRecord /\ noMode(s).unit = s.unit /\ noMode(s).cf = s.cf
      /\ noMode(s).br = s.br /\ SameOrder(s, noMode(s))
  BY ModeTypes DEF noMode, DryerRecord, SameOrder
<1> QED
  BY <1>1, UnitKept

LEMMA SetCurrentModeFine ==
  ASSUME NEW s \in DryerRecord, NEW m \in Modes
  PROVE  /\ Fine(s, setCurrentMode(s, m)) /\ Calm(s, setCurrentMode(s, m))
         /\ SameOrder(s, setCurrentMode(s, m))
<1> DEFINE t == setCurrentMode(s, m)
<1>1. t \in DryerRecord /\ t.unit = s.unit /\ t.cf = s.cf /\ t.br = s.br /\ SameOrder(s, t)
  BY ModeTypes DEF setCurrentMode, DryerRecord, SameOrder
<1> QED
  BY <1>1, UnitKept

LEMMA CoolingFine ==
  ASSUME NEW s \in DryerRecord, NEW v \in BOOLEAN
  PROVE  LET t == [s EXCEPT !.cooling = v]
         IN  Fine(s, t) /\ Calm(s, t) /\ SameOrder(s, t) /\ OnlyUnits(s, t)
<1> DEFINE t == [s EXCEPT !.cooling = v]
<1>1. t \in DryerRecord /\ t.unit = s.unit /\ SameOrder(s, t) /\ OnlyUnits(s, t)
  BY DEF DryerRecord, SameOrder, OnlyUnits
<1> QED
  BY <1>1, UnitKept DEF OnlyUnits

LEMMA OnlyUnitsOrder ==
  ASSUME NEW s, NEW t, OnlyUnits(s, t)
  PROVE  SameOrder(s, t)
  BY DEF OnlyUnits, SameOrder

LEMMA SameOrderChain ==
  ASSUME NEW s, NEW t, NEW w, SameOrder(s, t), SameOrder(t, w)
  PROVE  SameOrder(s, w)
  BY DEF SameOrder

-----------------------------------------------------------------------------
(* setMode.                                                                *)

(* An order that gives way at once. *)
Settles(s, t) == Fine(s, t) /\ Calm(s, t) /\ SameOrder(s, t)

LEMMA SettlesChain ==
  ASSUME NEW s, NEW t, NEW w, Settles(s, t), Settles(t, w)
  PROVE  Settles(s, w)
  BY FineChain, SameOrderChain DEF Settles

LEMMA ShotFine ==
  ASSUME NEW s \in DryerRecord
  PROVE  /\ Settles(s, [s EXCEPT !.shotCF = @ + 1])
         /\ Settles(s, [s EXCEPT !.shotBr = @ + 1])
<1>1. s.shotCF + 1 \in Nat /\ s.shotBr + 1 \in Nat
  BY DEF DryerRecord
<1> DEFINE t == [s EXCEPT !.shotCF = @ + 1]  w == [s EXCEPT !.shotBr = @ + 1]
<1>2. t \in DryerRecord /\ t.unit = s.unit /\ t.cf = s.cf /\ t.br = s.br /\ SameOrder(s, t)
  BY <1>1 DEF DryerRecord, SameOrder
<1>3. w \in DryerRecord /\ w.unit = s.unit /\ w.cf = s.cf /\ w.br = s.br /\ SameOrder(s, w)
  BY <1>1 DEF DryerRecord, SameOrder
<1> QED
  BY <1>2, <1>3, UnitKept DEF Settles

LEMMA SetStartSettles ==
  ASSUME NEW s \in DryerRecord
  PROVE  Settles(s, setStart(s))
<1>1. Settles(s, noMode(s))
  BY NoModeFine DEF Settles
<1> QED
  BY <1>1, ShotFine DEF setStart

LEMMA SetStopSettles ==
  ASSUME NEW s \in DryerRecord
  PROVE  Settles(s, setStop(s))
<1> DEFINE one == command(s, Burners, "UnMdStop", Modes)
           off == command(one, Fans, "UnMdStop", Modes)
<1>1. Settles(s, one)
  BY CommandFine, ModeTypes, OnlyUnitsOrder DEF Settles
<1>2. one \in DryerRecord
  BY <1>1 DEF Settles, Fine
<1>3. Settles(one, off)
  BY <1>2, CommandFine, ModeTypes, OnlyUnitsOrder DEF Settles
<1>4. Settles(s, off) /\ off \in DryerRecord
  BY <1>1, <1>3, SettlesChain DEF Settles, Fine
<1>5. Settles(off, noMode(off))
  BY <1>4, NoModeFine DEF Settles
<1>6. Settles(s, noMode(off))
  BY <1>4, <1>5, SettlesChain
<1>7. setStop(s) = off \/ setStop(s) = noMode(off)
  BY DEF setStop
<1> QED
  BY <1>4, <1>6, <1>7

LEMMA SetCoolingSettles ==
  ASSUME NEW s \in DryerRecord
  PROVE  Settles(s, setCooling(s))
<1> DEFINE v == s.seted = "UnMdCollingStop"
           n == noMode(s)
           c == [n EXCEPT !.cooling = v]
<1>1. Settles(s, n) /\ n \in DryerRecord
  BY NoModeFine DEF Settles, Fine
<1>2. v \in BOOLEAN
  OBVIOUS
<1>3. setCooling(s) \in {[s EXCEPT !.shotCF = @ + 1], _stopBrByTimer(s), c}
  BY DEF setCooling
<1> HIDE DEF v, n
<1>4. Settles(n, c)
  BY <1>1, <1>2, CoolingFine DEF Settles
<1>5. Settles(s, c)
  BY <1>1, <1>4, SettlesChain
<1>6. Settles(s, _stopBrByTimer(s))
  BY StopBrFine, OnlyUnitsOrder DEF Settles
<1> HIDE DEF c
<1> QED
  BY <1>3, <1>5, <1>6, ShotFine

(* An order switches nothing on by itself, stops the delay of the fans and *)
(* is the mode to be reached, unless it is dropped.                        *)
LEMMA SetModeFine ==
  ASSUME NEW s \in DryerRecord, NEW m \in Modes
  PROVE  LET t == setMode(s, m)
         IN  Fine(s, t) /\ Calm(s, t) /\ t.order = m /\ Stopped(t)
<1> DEFINE asked == [allTimerStop(s) EXCEPT !.seted = m, !.order = m]
           t     == setMode(s, m)
<1>1. asked \in DryerRecord /\ asked.unit = s.unit /\ asked.cf = s.cf /\ asked.br = s.br
      /\ asked.startCF = FALSE /\ asked.seted = m /\ asked.order = m
  BY DEF allTimerStop, DryerRecord
<1>2. t \in {setStart(asked), setStop(asked), setCooling(asked)}
  BY DEF setMode
<1> HIDE DEF asked, t
<1>3. Settles(asked, t)
  BY <1>1, <1>2, SetStartSettles, SetStopSettles, SetCoolingSettles
<1>4. Fine(s, asked) /\ Calm(s, asked)
  BY <1>1, UnitKept
<1>5. Fine(s, t) /\ Calm(s, t)
  BY <1>3, <1>4, FineChain DEF Settles
<1>6. t.order = m /\ Stopped(t)
  BY <1>1, <1>3 DEF Settles, SameOrder, Stopped
<1> QED
  BY <1>5, <1>6 DEF t

-----------------------------------------------------------------------------
(* _updateStateAndMode.                                                    *)

(* A step towards the mode to be reached: it switches something on only if *)
(* that mode is a start.                                                   *)
Moves(s, t) ==
  Fine(s, t) /\ SameOrder(s, t) /\ (s.seted # "UnMdStart" => Calm(s, t))

LEMMA MovesOn ==
  ASSUME NEW s, NEW t, NEW w, Moves(s, t), Settles(t, w)
  PROVE  Moves(s, w)
  BY FineChain, SameOrderChain DEF Moves, Settles

LEMMA WithAirMoves ==
  ASSUME NEW s \in DryerRecord
  PROVE  Moves(s, withAir(s))
<1> DEFINE b == CASE s.seted = "UnMdStart" /\ ~s.startBr /\ ~s.alarm -> _startBrByTimer(s)
                  [] s.seted \in {"UnMdColling", "UnMdCollingStop"} /\ ~s.stopBr ->
                       _stopBrByTimer(s)
                  [] OTHER -> s
           off  == command(b, Fans, "UnMdStop", Modes)
           hot  == [b EXCEPT !.cooling = TRUE]
           cold == [b EXCEPT !.cooling = FALSE]
<1>1. Moves(s, b) /\ b \in DryerRecord
  <2>1. Fine(s, s) /\ Calm(s, s) /\ OnlyUnits(s, s)
    BY FineSelf
  <2>2. b \in {_startBrByTimer(s), _stopBrByTimer(s), s}
    OBVIOUS
  <2>3. s.seted # "UnMdStart" => _startBrByTimer(s) = s
    BY StartBrFine
  <2> HIDE DEF b
  <2>4. Fine(s, b) /\ OnlyUnits(s, b) /\ (s.seted # "UnMdStart" => Calm(s, b))
    BY <2>1, <2>2, <2>3, StartBrFine, StopBrFine
  <2> QED
    BY <2>4, OnlyUnitsOrder DEF Moves, Fine
<1>2. withAir(s) \in {hot, off, setCurrentMode(off, "UnMdStop"),
                      setCurrentMode(b, "UnMdColling"), setCurrentMode(cold, "UnMdStart"),
                      cold, b}
  BY DEF withAir
<1> HIDE DEF b
<1>3. Settles(b, hot) /\ Settles(b, cold) /\ cold \in DryerRecord
  BY <1>1, CoolingFine DEF Settles, Fine
<1>4. Settles(b, off) /\ off \in DryerRecord
  BY <1>1, CommandFine, ModeTypes, OnlyUnitsOrder DEF Settles, Fine
<1> HIDE DEF hot, cold, off
<1>5. Settles(off, setCurrentMode(off, "UnMdStop"))
      /\ Settles(b, setCurrentMode(b, "UnMdColling"))
      /\ Settles(cold, setCurrentMode(cold, "UnMdStart"))
  BY <1>1, <1>3, <1>4, SetCurrentModeFine, ModeTypes DEF Settles
<1>6. Settles(b, setCurrentMode(off, "UnMdStop"))
      /\ Settles(b, setCurrentMode(cold, "UnMdStart"))
  BY <1>3, <1>4, <1>5, SettlesChain
<1> QED
  BY <1>1, <1>2, <1>3, <1>4, <1>5, <1>6, MovesOn

(* Without air everything that burns is put out at once.                   *)
LEMMA WithoutAirSettles ==
  ASSUME NEW s \in DryerRecord
  PROVE  /\ Settles(s, withoutAir(s))
         /\ Lit(s) /\ s.br \in {"UnMdPartStarted", "UnMdStart"}
              => \A b \in Burners : ~withoutAir(s).unit[b].out
<1> DEFINE t == [s EXCEPT !.startBr = FALSE]
           b == IF t.br \in {"UnMdPartStarted", "UnMdStart"}
                THEN command(t, Burners, "UnMdColling", {"UnMdStart"}) ELSE t
<1>1. Settles(s, t) /\ t \in DryerRecord /\ t.br = s.br
  <2>1. t \in DryerRecord /\ t.unit = s.unit /\ t.cf = s.cf /\ t.br = s.br /\ SameOrder(s, t)
    BY DEF DryerRecord, SameOrder
  <2> QED
    BY <2>1, UnitKept DEF Settles
<1>2. withoutAir(s) \in {b} \cup {setCurrentMode(b, m) : m \in Modes}
  BY ModeTypes DEF withoutAir
<1> HIDE DEF t
<1>3. Settles(t, b) /\ b \in DryerRecord
  <2>1. Settles(t, t)
    BY <1>1, FineSelf, OnlyUnitsOrder DEF Settles
  <2>2. Settles(t, command(t, Burners, "UnMdColling", {"UnMdStart"}))
    BY <1>1, CommandFine, ModeTypes, OnlyUnitsOrder DEF Settles
  <2>3. Settles(t, b)
    BY <2>1, <2>2
  <2> QED
    BY <2>3 DEF Settles, Fine
<1>4. Lit(s) /\ s.br \in {"UnMdPartStarted", "UnMdStart"}
        => \A x \in Burners : ~b.unit[x].out
  <2>1. Lit(s) => Lit(t)
    BY <1>1 DEF Settles, Fine
  <2> QED
    BY <1>1, <2>1, CommandPutsOut, ModeTypes
<1> HIDE DEF b
<1>5. Settles(s, b)
  BY <1>1, <1>3, SettlesChain
<1>6. \A m \in Modes : Settles(b, setCurrentMode(b, m))
  BY <1>3, SetCurrentModeFine DEF Settles
<1>7. Settles(s, withoutAir(s)) /\ Calm(b, withoutAir(s))
  <2>1. CASE withoutAir(s) = b
    BY <1>5, <2>1 DEF Calm
  <2>2. CASE \E m \in Modes : withoutAir(s) = setCurrentMode(b, m)
    BY <1>5, <1>6, <2>2, SettlesChain DEF Settles
  <2> QED
    BY <1>2, <2>1, <2>2
<1>8. Burners \subseteq SubUnits
  BY DEF SubUnits
<1> QED
  BY <1>4, <1>7, <1>8 DEF Calm

LEMMA SetBlockedKeeps ==
  ASSUME NEW s \in DryerRecord, NEW us, NEW v \in BOOLEAN
  PROVE  LET t == setBlocked(s, us, v)
         IN  /\ t \in DryerRecord /\ OnlyUnits(s, t)
             /\ \A u \in SubUnits :
                  /\ t.unit[u].curr = s.unit[u].curr /\ t.unit[u].out = s.unit[u].out
                  /\ t.unit[u].seted = s.unit[u].seted
                  /\ Reached(s.unit[u]) => Reached(t.unit[u])
                  /\ t.unit[u].blocked = IF u \in us THEN v ELSE s.unit[u].blocked
<1> DEFINE f == [u \in SubUnits |->
                   IF u \in us THEN [s.unit[u] EXCEPT !.blocked = v] ELSE s.unit[u]]
           t == setBlocked(s, us, v)
<1>1. \A u \in SubUnits :
        /\ f[u] \in UnitRecord
        /\ f[u].curr = s.unit[u].curr /\ f[u].out = s.unit[u].out
        /\ f[u].seted = s.unit[u].seted
        /\ Reached(s.unit[u]) => Reached(f[u])
        /\ f[u].blocked = IF u \in us THEN v ELSE s.unit[u].blocked
  <2> TAKE u \in SubUnits
  <2>1. s.unit[u] \in UnitRecord
    BY Parts
  <2>2. f[u] = IF u \in us THEN [s.unit[u] EXCEPT !.blocked = v] ELSE s.unit[u]
    OBVIOUS
  <2> HIDE DEF f
  <2>3. CASE u \in us
    BY <2>1, <2>2, <2>3 DEF UnitRecord, Reached
  <2>4. CASE u \notin us
    BY <2>1, <2>2, <2>4
  <2> QED
    BY <2>3, <2>4
<1>2. f \in [SubUnits -> UnitRecord]
  BY <1>1
<1>3. t = [s EXCEPT !.unit = f]
  BY DEF setBlocked
<1> HIDE DEF f, t
<1>4. t \in DryerRecord /\ OnlyUnits(s, t) /\ t.unit = f
  BY <1>2, <1>3, UnitsReplaced DEF OnlyUnits
<1> QED
  BY <1>1, <1>4 DEF t

(* Whatever the common modes have become, after it the interlock fits them *)
(* and nothing burns without air.                                          *)
LEMMA UpdateModeKeeps ==
  ASSUME NEW s \in DryerRecord
  PROVE  LET t == _updateStateAndMode(s)
         IN  /\ t \in DryerRecord /\ SameOrder(s, t) /\ Blocks(t)
             /\ t.cf = s.cf /\ t.br = s.br
             /\ \A u \in SubUnits : t.unit[u].curr = s.unit[u].curr
             /\ s.seted # "UnMdStart" => Calm(s, t)
             /\ Lit(s) => Lit(t) /\ NoFire(t)
<1> DEFINE vf == s.br \in {"UnMdStart", "UnMdPartStarted"}
           vb == s.cf # "UnMdStart"
           a  == setBlocked(s, Fans, vf)
           b  == setBlocked(a, Burners, vb)
           t  == _updateStateAndMode(s)
<1>1. t = IF b.cf = "UnMdStart" THEN withAir(b) ELSE withoutAir(b)
  BY DEF _updateStateAndMode
<1>2. vf \in BOOLEAN /\ vb \in BOOLEAN
  OBVIOUS
<1> HIDE DEF t
<1>3. a \in DryerRecord /\ OnlyUnits(s, a)
      /\ \A u \in SubUnits :
           /\ a.unit[u].curr = s.unit[u].curr /\ a.unit[u].out = s.unit[u].out
           /\ a.unit[u].seted = s.unit[u].seted
           /\ Reached(s.unit[u]) => Reached(a.unit[u])
           /\ a.unit[u].blocked = IF u \in Fans THEN vf ELSE s.unit[u].blocked
  <2> HIDE DEF vf
  <2> QED
    BY <1>2, SetBlockedKeeps
<1>4. b \in DryerRecord /\ OnlyUnits(a, b)
      /\ \A u \in SubUnits :
           /\ b.unit[u].curr = a.unit[u].curr /\ b.unit[u].out = a.unit[u].out
           /\ b.unit[u].seted = a.unit[u].seted
           /\ Reached(a.unit[u]) => Reached(b.unit[u])
           /\ b.unit[u].blocked = IF u \in Burners THEN vb ELSE a.unit[u].blocked
  <2> HIDE DEF vb, a
  <2> QED
    BY <1>2, <1>3, SetBlockedKeeps
<1> HIDE DEF a, b
<1>5. OnlyUnits(s, b)
      /\ \A u \in SubUnits :
           /\ b.unit[u].curr = s.unit[u].curr /\ b.unit[u].out = s.unit[u].out
           /\ b.unit[u].seted = s.unit[u].seted
           /\ Reached(s.unit[u]) => Reached(b.unit[u])
  BY <1>3, <1>4 DEF OnlyUnits
<1>6. Burners \subseteq SubUnits /\ Fans \subseteq SubUnits /\ Fans \cap Burners = {}
  BY DryerConstants DEF SubUnits
<1>7. Blocks(b)
  BY <1>3, <1>4, <1>5, <1>6 DEF Blocks, OnlyUnits
<1>8. Lit(s) => Lit(b)
  BY <1>5, <1>6 DEF Lit
<1>9. Moves(b, t) /\ (Lit(s) => NoFire(t))
  <2>1. CASE b.cf = "UnMdStart"
    <3>1. Moves(b, t)
      BY <1>1, <1>4, <2>1, WithAirMoves
    <3>2. t.cf = "UnMdStart"
      BY <2>1, <3>1 DEF Moves, Fine, Keeps
    <3> QED
      BY <3>1, <3>2 DEF NoFire
  <2>2. CASE b.cf # "UnMdStart"
    <3>1. t = withoutAir(b)
      BY <1>1, <2>2
    <3>2. Settles(b, t)
      BY <1>4, <3>1, WithoutAirSettles
    <3>3. t.br = b.br
      BY <3>2 DEF Settles, Fine, Keeps
    <3>4. Lit(s) => NoFire(t)
      BY <1>4, <1>8, <3>1, <3>3, WithoutAirSettles DEF NoFire
    <3> QED
      BY <3>2, <3>4 DEF Moves, Settles
  <2> QED
    BY <2>1, <2>2
<1>10. t \in DryerRecord /\ Blocks(t) /\ (Lit(s) => Lit(t))
  BY <1>7, <1>8, <1>9, FineBlocks DEF Moves, Fine
<1>11. t.cf = s.cf /\ t.br = s.br /\ \A u \in SubUnits : t.unit[u].curr = s.unit[u].curr
  BY <1>5, <1>9 DEF Moves, Fine, Keeps, OnlyUnits
<1>12. SameOrder(s, t)
  BY <1>5, <1>9, OnlyUnitsOrder, SameOrderChain DEF Moves
<1>13. s.seted # "UnMdStart" => Calm(s, t)
  BY <1>5, <1>9 DEF Moves, Calm, OnlyUnits
<1> QED
  BY <1>9, <1>10, <1>11, <1>12, <1>13 DEF t

-----------------------------------------------------------------------------
(* _updateSubUnitMode.                                                     *)

(* A set of natural numbers has a least one.                               *)
LEMMA NatLeast ==
  ASSUME NEW S \in SUBSET Nat, S # {}
  PROVE  \E i \in S : \A j \in S : i <= j
<1> DEFINE R == OpToRel(<, Nat)
<1>1. \A x, y \in Nat : <<x, y>> \in R <=> x < y
  BY DEF OpToRel
<1>2. IsWellFoundedOn(R, Nat)
  BY NatLessThanWellFounded
<1> HIDE DEF R
<1>3. PICK i \in S : \A j \in S : ~ (<<j, i>> \in R)
  BY <1>2, WFMin
<1>4. \A j \in S : i \in Nat /\ j \in Nat /\ ~ (j < i)
  BY <1>1, <1>3
<1>5. \A j \in S : i <= j
  BY <1>4
<1> QED
  BY <1>5

(* A burner is told by the mode of its start or of its end, no other.      *)
BurnersTell(s) ==
  \A b \in Burners : s.unit[b].curr \in {"UnMdStart", "UnMdCollingStop"}

Fire == {"UnMdStart", "UnMdPartStarted"}

(* _commonModeByType gives a mode it may give, and of burners of which one *)
(* has told its start, a mode of fire.                                     *)
LEMMA CommonModeIs ==
  ASSUME NEW s \in DryerRecord, NEW seq \in Seq(SubUnits), seq # <<>>
  PROVE  /\ commonMode(s, seq) \in CommonModes
         /\ \A i \in DOMAIN seq :
              /\ s.unit[seq[i]].curr = "UnMdStart"
              /\ \A j \in DOMAIN seq :
                   s.unit[seq[j]].curr \in {"UnMdStart", "UnMdCollingStop"}
              => commonMode(s, seq) \in Fire
<1> DEFINE curr(i) == s.unit[seq[i]].curr
           differs == {i \in DOMAIN seq : curr(i) # curr(1)}
           first   == CHOOSE i \in differs : \A j \in differs : i <= j
<1>1. 1 \in DOMAIN seq /\ DOMAIN seq \subseteq Nat
  OBVIOUS
<1>2. \A i \in DOMAIN seq : curr(i) \in Modes
  BY Parts DEF UnitRecord
<1>3. differs # {} => first \in differs
  <2> SUFFICES ASSUME differs # {} PROVE \E i \in differs : \A j \in differs : i <= j
    OBVIOUS
  <2>1. differs \subseteq Nat /\ \A x, y \in Nat : x <= y \/ y <= x
    BY <1>1
  <2> HIDE DEF differs
  <2> QED
    BY <2>1, NatLeast
<1>4. commonMode(s, seq) =
        CASE differs = {} -> curr(1)
          [] differs # {} /\ "UnMdStart" \in {curr(1), curr(first)} -> "UnMdPartStarted"
          [] OTHER -> NoDef
  BY DEF commonMode
<1>5. commonMode(s, seq) \in CommonModes
  <2>1. commonMode(s, seq) \in {curr(1), "UnMdPartStarted", NoDef}
    BY <1>4
  <2> HIDE DEF curr
  <2> QED
    BY <1>1, <1>2, <2>1, ModeTypes DEF CommonModes
<1>6. ASSUME NEW i \in DOMAIN seq, curr(i) = "UnMdStart",
             \A j \in DOMAIN seq : curr(j) \in {"UnMdStart", "UnMdCollingStop"}
      PROVE  commonMode(s, seq) \in Fire
  <2>1. CASE differs = {}
    <3>1. curr(i) = curr(1)
      BY <2>1
    <3> QED
      BY <1>4, <1>6, <2>1, <3>1 DEF Fire
  <2>2. CASE differs # {}
    <3>1. curr(first) # curr(1) /\ first \in DOMAIN seq
      BY <1>3, <2>2
    <3>2. "UnMdStart" \in {curr(1), curr(first)}
      BY <1>1, <1>6, <3>1
    <3> HIDE DEF curr, first, differs
    <3> QED
      BY <1>4, <2>2, <3>2 DEF Fire
  <2> QED
    BY <2>1, <2>2
<1> QED
  BY <1>5, <1>6

LEMMA SequenceOfUnits ==
  /\ CFs \in Seq(SubUnits) /\ CFs # <<>> /\ \A i \in DOMAIN CFs : CFs[i] \in Fans
  /\ Brs \in Seq(SubUnits) /\ Brs # <<>> /\ \A i \in DOMAIN Brs : Brs[i] \in Burners
  /\ \A b \in Burners : \E i \in DOMAIN Brs : Brs[i] = b
<1>1. \A i \in DOMAIN CFs : CFs[i] \in Fans
  BY DEF Fans, Elements
<1>2. \A i \in DOMAIN Brs : Brs[i] \in Burners
  BY DEF Burners, Elements
<1>3. \A b \in Burners : \E i \in DOMAIN Brs : Brs[i] = b
  BY DEF Burners, Elements
<1>4. Fans \subseteq SubUnits /\ Burners \subseteq SubUnits
  BY DEF SubUnits
<1> HIDE DEF Fans, Burners, SubUnits
<1> QED
  BY <1>1, <1>2, <1>3, <1>4, DryerConstants

LEMMA FanModeKeeps ==
  ASSUME NEW s \in DryerRecord, NEW u \in SubUnits
  PROVE  LET t == fanMode(s, u)
         IN  /\ t \in DryerRecord /\ t.unit = s.unit /\ t.br = s.br /\ t.order = s.order
             /\ t.seted \in {s.seted, NoDef}
             /\ Stopped(s) => Stopped(t)
<1> DEFINE curr == s.unit[u].curr
           cf   == commonMode(s, CFs)
           a    == IF curr # "UnMdStart" /\ s.seted \in Active /\ s.cooling
                   THEN noMode(s) ELSE s
           run  == /\ cf \notin {"UnMdStart", "UnMdStop"}
                   /\ a.seted \in Active
                   /\ a.startCF \/ curr = "UnMdStart"
           t    == fanMode(s, u)
<1>1. t = [a EXCEPT !.cf = cf, !.startCF = run]
  BY DEF fanMode
<1>2. cf \in CommonModes
  BY CommonModeIs, SequenceOfUnits
<1>3. a \in DryerRecord /\ a.unit = s.unit /\ a.br = s.br /\ a.order = s.order
      /\ a.seted \in {s.seted, NoDef}
  BY ModeTypes DEF noMode, DryerRecord
<1>4. run \in BOOLEAN /\ (run => a.seted \in Active)
  OBVIOUS
<1> HIDE DEF cf, a, run, t
<1>5. t \in DryerRecord /\ t.unit = s.unit /\ t.br = s.br /\ t.order = s.order
      /\ t.seted = a.seted /\ t.startCF = run
  BY <1>1, <1>2, <1>3, <1>4 DEF DryerRecord
<1>6. Stopped(s) => Stopped(t)
  BY <1>3, <1>4, <1>5 DEF Stopped, Active, NoDef
<1> QED
  BY <1>3, <1>5, <1>6 DEF t

LEMMA BurnerModeKeeps ==
  ASSUME NEW s \in DryerRecord, NEW u \in SubUnits
  PROVE  LET t == burnerMode(s, u)
         IN  /\ t \in DryerRecord /\ t.unit = s.unit /\ t.cf = s.cf
             /\ t.br = commonMode(s, Brs)
             /\ SameOrder(s, t)
<1> DEFINE br  == commonMode(s, Brs)
           go  == /\ br \notin {"UnMdStart", "UnMdColling"}
                  /\ s.cf = "UnMdStart"
                  /\ s.seted = "UnMdStart"
                  /\ s.startBr \/ s.unit[u].curr \in {"UnMdColling", "UnMdStart"}
           out == /\ br # "UnMdCollingStop"
                  /\ s.seted \in {"UnMdCollingStop", "UnMdColling"}
           t   == burnerMode(s, u)
<1>1. t = [s EXCEPT !.br = br, !.startBr = go, !.stopBr = out]
  BY DEF burnerMode
<1>2. br \in CommonModes
  BY CommonModeIs, SequenceOfUnits
<1>3. go \in BOOLEAN /\ out \in BOOLEAN
  OBVIOUS
<1> HIDE DEF br, go, out, t
<1> QED
  BY <1>1, <1>2, <1>3 DEF DryerRecord, SameOrder, br, t

(* What the dryer makes of a mode a sub-unit has told. *)
LEMMA SubUnitModeKeeps ==
  ASSUME NEW s \in DryerRecord, NEW u \in SubUnits
  PROVE  LET t == _updateSubUnitMode(s, u)
         IN  /\ t \in DryerRecord
             /\ t.order = s.order
             /\ Stopped(s) => Stopped(t) /\ (s.order = "UnMdStop" => Calm(s, t))
             /\ Blocks(s) => Blocks(t)
             /\ \A x \in SubUnits : t.unit[x].curr = s.unit[x].curr
             /\ Lit(s) => Lit(t) /\ (NoFire(s) => NoFire(t))
             /\ BurnersTell(s) =>
                  \A b \in Burners :
                    s.unit[b].curr = "UnMdStart" /\ (u = b \/ s.br \in Fire) => t.br \in Fire
<1> DEFINE told == IF u \in Fans
                   THEN IF s.unit[u].curr = s.cf THEN s ELSE fanMode(s, u)
                   ELSE IF s.unit[u].curr = s.br THEN s ELSE burnerMode(s, u)
           t    == _updateSubUnitMode(s, u)
<1>1. told \in DryerRecord /\ told.unit = s.unit /\ told.order = s.order
      /\ told.seted \in {s.seted, NoDef} /\ (Stopped(s) => Stopped(told))
  <2>1. CASE told = s
    BY <2>1
  <2>2. CASE told = fanMode(s, u)
    BY <2>2, FanModeKeeps
  <2>3. CASE told = burnerMode(s, u)
    BY <2>3, BurnerModeKeeps, SameOrderStopped DEF SameOrder
  <2> QED
    BY <2>1, <2>2, <2>3
<1>2. BurnersTell(s) =>
        \A b \in Burners :
          s.unit[b].curr = "UnMdStart" /\ (u = b \/ s.br \in Fire) => told.br \in Fire
  <2> SUFFICES ASSUME BurnersTell(s), NEW b \in Burners, s.unit[b].curr = "UnMdStart",
                      u = b \/ s.br \in Fire
               PROVE  told.br \in Fire
    OBVIOUS
  <2>1. CASE told = burnerMode(s, u)
    <3>1. PICK i \in DOMAIN Brs : Brs[i] = b
      BY SequenceOfUnits
    <3>2. \A j \in DOMAIN Brs : s.unit[Brs[j]].curr \in {"UnMdStart", "UnMdCollingStop"}
      BY SequenceOfUnits DEF BurnersTell
    <3>3. commonMode(s, Brs) \in Fire
      BY <3>1, <3>2, SequenceOfUnits, CommonModeIs
    <3> QED
      BY <2>1, <3>3, BurnerModeKeeps
  <2>2. CASE told # burnerMode(s, u)
    <3>1. told.br = s.br
      BY <2>2, FanModeKeeps
    <3>2. CASE u = b
      <4>1. u \notin Fans
        BY <3>2, DryerConstants
      <4>2. s.unit[u].curr = s.br
        BY <2>2, <4>1
      <4> QED
        BY <3>1, <3>2, <4>2 DEF Fire
    <3> QED
      BY <3>1, <3>2
  <2> QED
    BY <2>1, <2>2
<1>3. t = IF <<told.cf, told.br>> # <<s.cf, s.br>> THEN _updateStateAndMode(told) ELSE told
  BY DEF _updateSubUnitMode
<1> HIDE DEF told, t
<1>4. Burners \subseteq SubUnits
  BY DEF SubUnits
<1>5. Lit(s) => Lit(told)
  BY <1>1 DEF Lit
<1>6. s.order = "UnMdStop" /\ Stopped(s) => told.seted # "UnMdStart"
  BY <1>1 DEF Stopped, NoDef
<1>7. CASE <<told.cf, told.br>> = <<s.cf, s.br>>
  <2>1. t = told /\ told.cf = s.cf /\ told.br = s.br
    BY <1>3, <1>7
  <2>2. (Blocks(s) => Blocks(told)) /\ (NoFire(s) => NoFire(told)) /\ Calm(s, told)
    BY <1>1, <2>1 DEF Blocks, NoFire, Calm
  <2>3. Lit(s) => Lit(t) /\ (NoFire(s) => NoFire(t))
    BY <1>5, <2>1, <2>2
  <2> QED
    BY <1>1, <1>2, <2>1, <2>2, <2>3 DEF t
<1>8. CASE <<told.cf, told.br>> # <<s.cf, s.br>>
  <2>1. t = _updateStateAndMode(told)
    BY <1>3, <1>8
  <2>2. /\ t \in DryerRecord /\ SameOrder(told, t) /\ Blocks(t)
        /\ t.br = told.br
        /\ \A x \in SubUnits : t.unit[x].curr = told.unit[x].curr
        /\ told.seted # "UnMdStart" => Calm(told, t)
        /\ Lit(told) => Lit(t) /\ NoFire(t)
    BY <1>1, <2>1, UpdateModeKeeps
  <2>3. Stopped(told) => Stopped(t)
    BY <2>2, SameOrderStopped
  <2>4. Calm(told, t) => Calm(s, t)
    BY <1>1 DEF Calm
  <2>5. t.order = s.order
    BY <1>1, <2>2 DEF SameOrder
  <2>6. Lit(s) => Lit(t) /\ (NoFire(s) => NoFire(t))
    BY <1>5, <2>2
  <2>7. Stopped(s) => Stopped(t) /\ (s.order = "UnMdStop" => Calm(s, t))
    BY <1>1, <1>6, <2>2, <2>3, <2>4
  <2> QED
    BY <1>1, <1>2, <2>2, <2>5, <2>6, <2>7 DEF t
<1> QED
  BY <1>7, <1>8

-----------------------------------------------------------------------------
(* Handlers and timers.  Safe says that a change keeps the invariants and  *)
(* the modes told; Calm, besides, that it switches nothing on.             *)

Safe(s, t) ==
  /\ t \in DryerRecord
  /\ t.br = s.br
  /\ \A u \in SubUnits : t.unit[u].curr = s.unit[u].curr
  /\ Stopped(s) => Stopped(t)
  /\ Blocks(s) => Blocks(t) /\ (NoFire(s) => NoFire(t))
  /\ Lit(s) => Lit(t)

LEMMA FineSafe ==
  ASSUME NEW s, NEW t, Fine(s, t), SameOrder(s, t) \/ Stopped(t)
  PROVE  Safe(s, t)
<1>1. Blocks(s) => Blocks(t) /\ (NoFire(s) => NoFire(t))
  BY FineBlocks
<1>2. Stopped(s) => Stopped(t)
  BY SameOrderStopped
<1> QED
  BY <1>1, <1>2 DEF Safe, Fine, Keeps

LEMMA SafeChain ==
  ASSUME NEW s, NEW t, NEW w, Safe(s, t), Safe(t, w)
  PROVE  Safe(s, w)
  BY DEF Safe

LEMMA CalmChain ==
  ASSUME NEW s, NEW t, NEW w, Calm(s, t), Calm(t, w)
  PROVE  Calm(s, w)
  BY DEF Calm

LEMMA SubUnitStateSafe ==
  ASSUME NEW s \in DryerRecord
  PROVE  Safe(s, _updateSubUnitState(s)) /\ Calm(s, _updateSubUnitState(s))
<1>1. Safe(s, s) /\ Calm(s, s)
  BY FineSelf, FineSafe, OnlyUnitsOrder
<1>2. Safe(s, setMode(s, "UnMdColling")) /\ Calm(s, setMode(s, "UnMdColling"))
  BY SetModeFine, ModeTypes, FineSafe
<1> QED
  BY <1>1, <1>2 DEF _updateSubUnitState

LEMMA SubUnitAlarmSafe ==
  ASSUME NEW s \in DryerRecord
  PROVE  Safe(s, detectSubUnitAlarm(s)) /\ Calm(s, detectSubUnitAlarm(s))
<1> DEFINE a == [s EXCEPT !.alarm = TRUE, !.seted = NoDef]
           t == command(a, Burners, "UnMdColling", {"UnMdStart"})
<1>1. a \in DryerRecord /\ a.unit = s.unit /\ a.cf = s.cf /\ a.br = s.br /\ SameOrder(s, a)
  BY ModeTypes DEF DryerRecord, SameOrder
<1> HIDE DEF a
<1>2. Safe(s, a) /\ Calm(s, a)
  BY <1>1, UnitKept, FineSafe
<1>3. Safe(a, t) /\ Calm(a, t)
  BY <1>1, CommandFine, ModeTypes, OnlyUnitsOrder, FineSafe
<1>4. detectSubUnitAlarm(s) = t
  BY DEF detectSubUnitAlarm, a
<1> QED
  BY <1>2, <1>3, <1>4, SafeChain, CalmChain

LEMMA AlarmSafe ==
  ASSUME NEW s \in DryerRecord, NEW pressed \in BOOLEAN
  PROVE  Safe(s, detectAlarm(s, pressed)) /\ Calm(s, detectAlarm(s, pressed))
<1> DEFINE a == [s EXCEPT !.alarm = TRUE]
           b == IF pressed THEN setMode(a, "UnMdStop") ELSE a
           t == detectAlarm(s, pressed)
<1>1. a \in DryerRecord /\ a.unit = s.unit /\ a.cf = s.cf /\ a.br = s.br /\ SameOrder(s, a)
  BY DEF DryerRecord, SameOrder
<1> HIDE DEF a
<1>2. Safe(s, a) /\ Calm(s, a)
  BY <1>1, UnitKept, FineSafe
<1>3. Safe(a, b) /\ Calm(a, b)
  <2>1. Safe(a, a) /\ Calm(a, a)
    BY <1>1, FineSelf, FineSafe, OnlyUnitsOrder
  <2>2. Safe(a, setMode(a, "UnMdStop")) /\ Calm(a, setMode(a, "UnMdStop"))
    BY <1>1, SetModeFine, ModeTypes, FineSafe
  <2> QED
    BY <2>1, <2>2
<1> HIDE DEF b
<1>4. b \in DryerRecord /\ Safe(s, b) /\ Calm(s, b)
  BY <1>2, <1>3, SafeChain, CalmChain DEF Safe
<1>5. Safe(b, setMode(b, "UnMdColling")) /\ Calm(b, setMode(b, "UnMdColling"))
  BY <1>4, SetModeFine, ModeTypes, FineSafe
<1>6. t = setMode(b, "UnMdColling") \/ t = b
  BY DEF detectAlarm, a, b
<1> QED
  BY <1>4, <1>5, <1>6, SafeChain, CalmChain

(* The end of cooling lets the fans go, but then no burner burns.          *)
LEMMA CoolingEndSafe ==
  ASSUME NEW s \in DryerRecord
  PROVE  Safe(s, _coolingTimerEnd(s)) /\ Calm(s, _coolingTimerEnd(s))
<1> DEFINE c == command(s, Fans, "UnMdStop", Modes)
           no == FALSE
           t == setBlocked(c, Fans, no)
<1> no \in BOOLEAN /\ ~no
  OBVIOUS
<1>1. Safe(s, c) /\ Calm(s, c) /\ c \in DryerRecord /\ c.br = s.br
  BY CommandFine, ModeTypes, OnlyUnitsOrder, FineSafe DEF Safe
<1> HIDE DEF c, no
<1>2. t \in DryerRecord /\ OnlyUnits(c, t)
      /\ \A u \in SubUnits :
           /\ t.unit[u].curr = c.unit[u].curr /\ t.unit[u].out = c.unit[u].out
           /\ t.unit[u].seted = c.unit[u].seted
           /\ Reached(c.unit[u]) => Reached(t.unit[u])
           /\ t.unit[u].blocked = IF u \in Fans THEN no ELSE c.unit[u].blocked
  BY <1>1, SetBlockedKeeps
<1>3. Burners \subseteq SubUnits /\ Fans \subseteq SubUnits /\ Fans \cap Burners = {}
  BY DryerConstants DEF SubUnits
<1> HIDE DEF t
<1>4. ASSUME c.br \notin {"UnMdStart", "UnMdPartStarted"}
      PROVE  Safe(c, t) /\ Calm(c, t)
  <2>1. Stopped(c) => Stopped(t)
    BY <1>2, SameOrderStopped, OnlyUnitsOrder
  <2>2. Blocks(c) => Blocks(t) /\ (NoFire(c) => NoFire(t))
    BY <1>2, <1>3, <1>4 DEF Blocks, NoFire, OnlyUnits
  <2>3. Lit(c) => Lit(t)
    BY <1>2, <1>3 DEF Lit
  <2>4. Calm(c, t)
    BY <1>2 DEF Calm
  <2> QED
    BY <1>2, <2>1, <2>2, <2>3, <2>4 DEF Safe, OnlyUnits
<1>5. CASE s.br \in {"UnMdStop", "UnMdCollingStop"}
  <2>1. _coolingTimerEnd(s) = t
    BY <1>5 DEF _coolingTimerEnd, t, c, no
  <2>2. Safe(c, t) /\ Calm(c, t)
    BY <1>1, <1>4, <1>5
  <2> QED
    BY <1>1, <2>1, <2>2, SafeChain, CalmChain
<1>6. CASE s.br \notin {"UnMdStop", "UnMdCollingStop"}
  <2>1. _coolingTimerEnd(s) = s
    BY <1>6 DEF _coolingTimerEnd
  <2> QED
    BY <2>1, FineSelf, FineSafe, OnlyUnitsOrder
<1> QED
  BY <1>5, <1>6

(* Replacing the record of one sub-unit. *)
LEMMA UnitReplaced ==
  ASSUME NEW s \in DryerRecord, NEW u \in SubUnits, NEW r \in UnitRecord
  PROVE  LET t == [s EXCEPT !.unit[u] = r]
         IN  /\ t \in DryerRecord /\ OnlyUnits(s, t)
             /\ t.unit[u] = r
             /\ \A x \in SubUnits : x # u => t.unit[x] = s.unit[x]
<1> DEFINE f == [s.unit EXCEPT ![u] = r]
           t == [s EXCEPT !.unit[u] = r]
<1>1. f \in [SubUnits -> UnitRecord] /\ f[u] = r /\ \A x \in SubUnits : x # u => f[x] = s.unit[x]
  BY Parts
<1>2. t = [s EXCEPT !.unit = f]
  OBVIOUS
<1> HIDE DEF f, t
<1>3. t \in DryerRecord /\ OnlyUnits(s, t) /\ t.unit = f
  BY <1>1, <1>2, UnitsReplaced DEF OnlyUnits
<1> QED
  BY <1>1, <1>3 DEF t

(* The button of a fan, or of a burner whose stop it is.                   *)
LEMMA ButtonSafe ==
  ASSUME NEW s \in DryerRecord, NEW u \in SubUnits, NEW m \in Modes
  PROVE  LET t == button(s, u, m)
         IN  /\ t \in DryerRecord /\ t.br = s.br
             /\ \A x \in SubUnits : t.unit[x].curr = s.unit[x].curr
             /\ Stopped(s) => Stopped(t)
             /\ Blocks(s) => Blocks(t) /\ (NoFire(s) => NoFire(t))
             /\ m # "UnMdStart" \/ u \notin Burners => (Lit(s) => Lit(t))
             /\ \A x \in SubUnits :
                  t.unit[x].out /\ ~s.unit[x].out => x = u /\ m = "UnMdStart"
<1> DEFINE r == setSubMode(u, s.unit[u], m)
           w == [s EXCEPT !.unit[u] = r]
           t == button(s, u, m)
<1>1. s.unit[u] \in UnitRecord
  BY Parts
<1>2. r \in UnitRecord /\ r.curr = s.unit[u].curr /\ r.blocked = s.unit[u].blocked
      /\ (m # "UnMdStart" /\ r.out => s.unit[u].out)
      /\ (u \in Burners /\ s.unit[u].blocked /\ r.out => s.unit[u].out)
      /\ (u \in Burners /\ m # "UnMdStart" /\ Reached(s.unit[u]) => ~r.out)
      /\ (Reached(s.unit[u]) => Reached(r))
  BY <1>1, SetSubModeKeeps DEF Reached
<1>3. w = [s EXCEPT !.unit[u] = setSubMode(u, @, m)]
  OBVIOUS
<1>4. t = s \/ t = w
  BY <1>3 DEF button
<1> HIDE DEF r, w, t
<1>5. w \in DryerRecord /\ OnlyUnits(s, w) /\ w.unit[u] = r
      /\ \A x \in SubUnits : x # u => w.unit[x] = s.unit[x]
  BY <1>2, UnitReplaced DEF w
<1>6. Burners \subseteq SubUnits /\ Fans \subseteq SubUnits
  BY DEF SubUnits
<1>7. Stopped(s) => Stopped(w)
  BY <1>5, OnlyUnitsOrder, SameOrderStopped
<1>8. Blocks(s) => Blocks(w)
  BY <1>2, <1>5, <1>6 DEF Blocks, OnlyUnits
<1>9. Blocks(s) /\ NoFire(s) => NoFire(w)
  BY <1>2, <1>5, <1>6 DEF Blocks, NoFire, OnlyUnits
<1>10. m # "UnMdStart" \/ u \notin Burners => (Lit(s) => Lit(w))
  BY <1>2, <1>5, <1>6 DEF Lit
<1>11. \A x \in SubUnits : w.unit[x].curr = s.unit[x].curr
  BY <1>2, <1>5
<1>12. \A x \in SubUnits : w.unit[x].out /\ ~s.unit[x].out => x = u /\ m = "UnMdStart"
  BY <1>2, <1>5
<1> QED
  BY <1>4, <1>5, <1>7, <1>8, <1>9, <1>10, <1>11, <1>12 DEF OnlyUnits, t

-----------------------------------------------------------------------------
(* The inductive invariants.  Inv needs no assumption; FireInv needs that  *)
(* the operator leaves the buttons of the burners alone, and that their    *)
(* lines hold.                                                             *)

Inv == DryerTypeOK /\ Blocks(d) /\ Stopped(d)

(* The dryer knows of a burner that has told its start, or is about to.    *)
Known ==
  \A b \in Burners :
    d.unit[b].curr = "UnMdStart"
      => d.br \in Fire \/ [ev |-> "mode", arg |-> b] \in Elements(events)

ButtonsHandled ==
  \A e \in Elements(events) : e.ev \in {"start", "stop"} => e.arg \in Handled

FireInv ==
  /\ Handled \cap Burners = {} /\ Lossy = {}
  /\ Lit(d) /\ NoFire(d) /\ BurnersTell(d)
  /\ Known /\ ButtonsHandled

(* One step of StopHolds. *)
StopStep ==
  \A u \in SubUnits :
    Rises(u) /\ d.order = "UnMdStop" /\ d.shotCF = 0 => ByButton(u)

(* Events are added, no button of a sub-unit that has none.                *)
QueueGrows ==
  /\ events' \in Seq(Events)
  /\ Elements(events) \subseteq Elements(events')
  /\ \A e \in Elements(events') \ Elements(events) :
       e.ev \in {"start", "stop"} => e.arg \in Handled

LEMMA Appended ==
  ASSUME NEW q \in Seq(Events), NEW e \in Events
  PROVE  Append(q, e) \in Seq(Events) /\ Elements(Append(q, e)) = Elements(q) \cup {e}
<1>1. Append(q, e) \in Seq(Events)
  OBVIOUS
<1>2. DOMAIN Append(q, e) = DOMAIN q \cup {Len(q) + 1}
  OBVIOUS
<1>3. Append(q, e)[Len(q) + 1] = e /\ \A i \in DOMAIN q : Append(q, e)[i] = q[i]
  OBVIOUS
<1> QED
  BY <1>1, <1>2, <1>3 DEF Elements

LEMMA HeadAndTail ==
  ASSUME NEW q \in Seq(Events), q # <<>>
  PROVE  /\ Tail(q) \in Seq(Events) /\ Head(q) \in Events /\ Head(q) \in Elements(q)
         /\ Elements(q) = Elements(Tail(q)) \cup {Head(q)}
<1>1. Tail(q) \in Seq(Events) /\ Head(q) \in Events /\ Head(q) = q[1] /\ 1 \in DOMAIN q
  OBVIOUS
<1>2. \A i \in DOMAIN Tail(q) : i + 1 \in DOMAIN q /\ Tail(q)[i] = q[i + 1]
  OBVIOUS
<1>3. \A i \in DOMAIN q : i # 1 => i - 1 \in DOMAIN Tail(q) /\ Tail(q)[i - 1] = q[i]
  OBVIOUS
<1>4. Elements(Tail(q)) \subseteq Elements(q)
  BY <1>2 DEF Elements
<1>5. \A i \in DOMAIN q : q[i] \in Elements(Tail(q)) \cup {Head(q)}
  BY <1>1, <1>3 DEF Elements
<1>6. Elements(q) \subseteq Elements(Tail(q)) \cup {Head(q)}
  BY <1>5 DEF Elements
<1>7. Head(q) \in Elements(q)
  BY <1>1 DEF Elements
<1> QED
  BY <1>1, <1>4, <1>6, <1>7

(* A safe change of the dryer while events are at most added.              *)
LEMMA SafeStep ==
  ASSUME Inv, Safe(d, d'), QueueGrows,
         clicks' \in 0 .. MaxClicks, disturb' \in 0 .. MaxDisturb
  PROVE  Inv' /\ (FireInv => FireInv')
<1>1. Inv'
  BY DEF Inv, DryerTypeOK, Safe, QueueGrows, Blocks, Stopped
<1>2. ASSUME FireInv PROVE FireInv'
  <2>1. Lit(d)' /\ NoFire(d)'
    BY <1>2 DEF FireInv, Inv, Safe, Lit, NoFire
  <2>2. BurnersTell(d)'
    BY <1>2 DEF FireInv, Safe, BurnersTell, SubUnits
  <2>3. Known'
    BY <1>2 DEF FireInv, Safe, Known, QueueGrows, SubUnits
  <2>4. ButtonsHandled'
    BY <1>2 DEF FireInv, ButtonsHandled, QueueGrows
  <2> QED
    BY <1>2, <2>1, <2>2, <2>3, <2>4 DEF FireInv
<1> QED
  BY <1>1, <1>2

LEMMA CalmStop ==
  ASSUME Calm(d, d')
  PROVE  StopStep
  BY DEF Calm, StopStep, Rises

LEMMA SameQueue ==
  ASSUME DryerTypeOK, events' = events
  PROVE  QueueGrows
  BY DEF QueueGrows, DryerTypeOK

LEMMA PostGrows ==
  ASSUME DryerTypeOK, NEW e \in Events, events' = Append(events, e),
         e.ev \in {"start", "stop"} => e.arg \in Handled
  PROVE  QueueGrows /\ e \in Elements(events')
  BY Appended DEF QueueGrows, DryerTypeOK

-----------------------------------------------------------------------------
(* Handling an event.                                                      *)

LEMMA EventKinds ==
  ASSUME NEW e \in Events
  PROVE  /\ e.ev \in {"mode", "alarm", "start", "stop"} => e.arg \in SubUnits
         /\ e.ev = "setMode" => e.arg \in Orders
  BY DEF Events

LEMMA HandleKeeps ==
  ASSUME NEW s \in DryerRecord, NEW e \in Events
  PROVE  LET t == Handle(s, e)
         IN  /\ t \in DryerRecord
             /\ \A u \in SubUnits : t.unit[u].curr = s.unit[u].curr
             /\ Stopped(s) => Stopped(t)
             /\ Blocks(s) => Blocks(t)
             /\ Blocks(s) /\ Lit(s) /\ NoFire(s) => NoFire(t)
             /\ Lit(s) /\ ~(e.ev = "start" /\ e.arg \in Burners) => Lit(t)
             /\ e.ev # "mode" => t.br = s.br
             /\ Stopped(s) /\ s.order = "UnMdStop" =>
                  \A u \in SubUnits :
                    t.unit[u].out /\ ~s.unit[u].out => e.ev = "start" /\ e.arg = u
<1>1. CASE e.ev = "mode"
  <2>1. Handle(s, e) = _updateSubUnitMode(s, e.arg)
    BY <1>1 DEF Handle
  <2>2. Stopped(s) /\ s.order = "UnMdStop" => Calm(s, Handle(s, e))
    BY <1>1, <2>1, SubUnitModeKeeps, EventKinds
  <2> QED
    BY <1>1, <2>1, <2>2, SubUnitModeKeeps, EventKinds DEF Calm
<1>2. CASE e.ev \in {"start", "stop"}
  <2>1. CASE e.ev = "start"
    <3> DEFINE t == Handle(s, e)
    <3>1. t = button(s, e.arg, "UnMdStart") /\ e.arg \in SubUnits /\ "UnMdStart" \in Modes
      BY <2>1, EventKinds, ModeTypes DEF Handle
    <3> HIDE DEF t
    <3>2. /\ t \in DryerRecord /\ t.br = s.br
          /\ \A u \in SubUnits : t.unit[u].curr = s.unit[u].curr
          /\ Stopped(s) => Stopped(t)
          /\ Blocks(s) => Blocks(t) /\ (NoFire(s) => NoFire(t))
          /\ e.arg \notin Burners => (Lit(s) => Lit(t))
          /\ \A u \in SubUnits : t.unit[u].out /\ ~s.unit[u].out => u = e.arg
      BY <3>1, ButtonSafe
    <3> QED
      BY <2>1, <3>2 DEF t
  <2>2. CASE e.ev = "stop"
    <3> DEFINE t == Handle(s, e)
    <3>1. t = button(s, e.arg, "UnMdStop") /\ e.arg \in SubUnits /\ "UnMdStop" \in Modes
      BY <2>2, EventKinds, ModeTypes DEF Handle
    <3> HIDE DEF t
    <3>2. /\ t \in DryerRecord /\ t.br = s.br
          /\ \A u \in SubUnits : t.unit[u].curr = s.unit[u].curr
          /\ Stopped(s) => Stopped(t)
          /\ Blocks(s) => Blocks(t) /\ (NoFire(s) => NoFire(t))
          /\ Lit(s) => Lit(t)
          /\ \A u \in SubUnits : t.unit[u].out /\ ~s.unit[u].out => FALSE
      BY <3>1, ButtonSafe
    <3> QED
      BY <2>2, <3>2 DEF t
  <2> QED
    BY <1>2, <2>1, <2>2
<1>3. CASE e.ev \in {"alarm", "bunker", "setMode"}
  <2>1. Safe(s, Handle(s, e)) /\ Calm(s, Handle(s, e))
    <3>1. CASE e.ev = "alarm"
      BY <3>1, SubUnitAlarmSafe DEF Handle
    <3>2. CASE e.ev = "bunker"
      BY <3>2, SubUnitStateSafe DEF Handle
    <3>3. CASE e.ev = "setMode"
      <4>1. e.arg \in Modes
        BY <3>3, EventKinds, ModeTypes
      <4> QED
        BY <3>3, <4>1, SetModeFine, FineSafe DEF Handle
    <3> QED
      BY <1>3, <3>1, <3>2, <3>3
  <2> QED
    BY <1>3, <2>1 DEF Safe, Calm
<1>4. e.ev \in {"mode", "alarm", "start", "stop", "bunker", "setMode"}
  BY DEF Events
<1> QED
  BY <1>1, <1>2, <1>3, <1>4

LEMMA HandleEventStep ==
  ASSUME Inv, HandleEvent
  PROVE  Inv' /\ StopStep /\ (FireInv => FireInv')
<1> DEFINE e == Head(events)
<1>1. d \in DryerRecord /\ events \in Seq(Events) /\ events # <<>>
      /\ events' = Tail(events) /\ d' = Handle(d, e)
      /\ clicks' \in 0 .. MaxClicks /\ disturb' \in 0 .. MaxDisturb
  BY DEF Inv, DryerTypeOK, HandleEvent
<1>2. events' \in Seq(Events) /\ e \in Events /\ e \in Elements(events)
      /\ Elements(events) = Elements(events') \cup {e}
  BY <1>1, HeadAndTail
<1> HIDE DEF e
<1>3. Inv'
  BY <1>1, <1>2, HandleKeeps DEF Inv, DryerTypeOK, Blocks, Stopped
<1>4. StopStep
  <2> SUFFICES ASSUME NEW u \in SubUnits, Rises(u), d.order = "UnMdStop"
               PROVE  ByButton(u)
    BY DEF StopStep
  <2>1. e.ev = "start" /\ e.arg = u
    BY <1>1, <1>2, HandleKeeps DEF Inv, Rises
  <2>2. e = [ev |-> "start", arg |-> u]
    BY <1>2, <2>1 DEF Events
  <2> QED
    BY <1>1, <2>2 DEF ByButton, e
<1>5. ASSUME FireInv PROVE FireInv'
  <2>1. ~(e.ev = "start" /\ e.arg \in Burners)
    BY <1>2, <1>5 DEF FireInv, ButtonsHandled
  <2>2. Lit(d)' /\ NoFire(d)'
    <3>1. Lit(d') /\ NoFire(d')
      BY <1>1, <1>2, <1>5, <2>1, HandleKeeps DEF FireInv, Inv
    <3> QED
      BY <3>1 DEF Lit, NoFire
  <2>3. \A u \in SubUnits : d'.unit[u].curr = d.unit[u].curr
    <3>1. \A u \in SubUnits : Handle(d, e).unit[u].curr = d.unit[u].curr
      BY <1>1, <1>2, HandleKeeps
    <3> QED
      BY <1>1, <3>1
  <2>4. BurnersTell(d)'
    BY <1>5, <2>3 DEF FireInv, BurnersTell, SubUnits
  <2>5. Known'
    <3> SUFFICES ASSUME NEW b \in Burners, d'.unit[b].curr = "UnMdStart", d'.br \notin Fire
                 PROVE  [ev |-> "mode", arg |-> b] \in Elements(events')
      BY DEF Known
    <3>1. d.unit[b].curr = "UnMdStart"
      BY <2>3 DEF SubUnits
    <3>2. CASE e.ev = "mode"
      <4>1. d' = _updateSubUnitMode(d, e.arg) /\ e.arg \in SubUnits
        BY <1>1, <1>2, <3>2, EventKinds DEF Handle
      <4>2. e.arg # b /\ d.br \notin Fire
        BY <1>1, <1>5, <3>1, <4>1, SubUnitModeKeeps DEF FireInv
      <4>3. e # [ev |-> "mode", arg |-> b]
        BY <4>2
      <4> QED
        BY <1>2, <1>5, <3>1, <4>2, <4>3 DEF FireInv, Known
    <3>3. CASE e.ev # "mode"
      <4>1. d.br \notin Fire
        BY <1>1, <1>2, <3>3, HandleKeeps
      <4>2. e # [ev |-> "mode", arg |-> b]
        BY <3>3
      <4> QED
        BY <1>2, <1>5, <3>1, <4>1, <4>2 DEF FireInv, Known
    <3> QED
      BY <3>2, <3>3
  <2>6. ButtonsHandled'
    BY <1>2, <1>5 DEF FireInv, ButtonsHandled
  <2> QED
    BY <1>5, <2>2, <2>4, <2>5, <2>6 DEF FireInv
<1> QED
  BY <1>3, <1>4, <1>5

-----------------------------------------------------------------------------
(* Timers.                                                                 *)

LEMMA TimerStep ==
  ASSUME Inv, NEW running, NEW s, Expire(running, s), Safe(d, s)
  PROVE  Inv' /\ (FireInv => FireInv')
<1>1. d' = s /\ events' = events /\ clicks' = clicks /\ disturb' = disturb
  BY DEF Expire
<1>2. QueueGrows /\ clicks' \in 0 .. MaxClicks /\ disturb' \in 0 .. MaxDisturb
  BY <1>1, SameQueue DEF Inv, DryerTypeOK
<1> QED
  BY <1>1, <1>2, SafeStep

(* A timer that is no longer running. *)
LEMMA OffSafe ==
  ASSUME NEW s \in DryerRecord
  PROVE  /\ \A t \in {[s EXCEPT !.startBr = FALSE], [s EXCEPT !.stopBr = FALSE],
                      [s EXCEPT !.cooling = FALSE]} :
              t \in DryerRecord /\ Safe(s, t) /\ Calm(s, t) /\ SameOrder(s, t)
         /\ LET t == [s EXCEPT !.startCF = FALSE]
            IN  t \in DryerRecord /\ Safe(s, t) /\ Calm(s, t)
         /\ s.shotCF > 0 => LET t == [s EXCEPT !.shotCF = @ - 1]
                            IN  t \in DryerRecord /\ Safe(s, t) /\ Calm(s, t)
         /\ s.shotBr > 0 => LET t == [s EXCEPT !.shotBr = @ - 1]
                            IN  /\ t \in DryerRecord /\ Safe(s, t) /\ Calm(s, t)
                                /\ SameOrder(s, t)
<1>1. ASSUME NEW t \in {[s EXCEPT !.startBr = FALSE], [s EXCEPT !.stopBr = FALSE],
                        [s EXCEPT !.cooling = FALSE]}
      PROVE  t \in DryerRecord /\ Safe(s, t) /\ Calm(s, t) /\ SameOrder(s, t)
  <2>1. t \in DryerRecord /\ t.unit = s.unit /\ t.cf = s.cf /\ t.br = s.br /\ SameOrder(s, t)
    BY DEF DryerRecord, SameOrder
  <2> QED
    BY <2>1, UnitKept, FineSafe
<1>2. LET t == [s EXCEPT !.startCF = FALSE]
      IN  t \in DryerRecord /\ Safe(s, t) /\ Calm(s, t)
  <2> DEFINE t == [s EXCEPT !.startCF = FALSE]
  <2>1. t \in DryerRecord /\ t.unit = s.unit /\ t.cf = s.cf /\ t.br = s.br
        /\ (Stopped(s) => Stopped(t))
    BY DEF DryerRecord, Stopped
  <2> HIDE DEF t
  <2>2. Fine(s, t) /\ Calm(s, t)
    BY <2>1, UnitKept
  <2>3. Safe(s, t)
    BY <2>1, <2>2, FineBlocks DEF Safe, Fine, Keeps
  <2> QED
    BY <2>1, <2>2, <2>3 DEF t
<1>3. ASSUME s.shotCF > 0
      PROVE  LET t == [s EXCEPT !.shotCF = @ - 1]
             IN  t \in DryerRecord /\ Safe(s, t) /\ Calm(s, t)
  <2> DEFINE t == [s EXCEPT !.shotCF = @ - 1]
  <2>1. s.shotCF - 1 \in Nat
    BY <1>3 DEF DryerRecord
  <2>2. t \in DryerRecord /\ t.unit = s.unit /\ t.cf = s.cf /\ t.br = s.br /\ SameOrder(s, t)
    BY <2>1 DEF DryerRecord, SameOrder
  <2> QED
    BY <2>2, UnitKept, FineSafe
<1>4. ASSUME s.shotBr > 0
      PROVE  LET t == [s EXCEPT !.shotBr = @ - 1]
             IN  t \in DryerRecord /\ Safe(s, t) /\ Calm(s, t) /\ SameOrder(s, t)
  <2> DEFINE t == [s EXCEPT !.shotBr = @ - 1]
  <2>1. s.shotBr - 1 \in Nat
    BY <1>4 DEF DryerRecord
  <2>2. t \in DryerRecord /\ t.unit = s.unit /\ t.cf = s.cf /\ t.br = s.br /\ SameOrder(s, t)
    BY <2>1 DEF DryerRecord, SameOrder
  <2> QED
    BY <2>2, UnitKept, FineSafe
<1> QED
  BY <1>1, <1>2, <1>3, <1>4

(* The delay of the burners asks for the mode to be reached.               *)
LEMMA StartBrSafe ==
  ASSUME NEW s \in DryerRecord, NEW t \in DryerRecord, Safe(s, t), Calm(s, t), SameOrder(s, t)
  PROVE  /\ Safe(s, _startBrByTimer(t))
         /\ Stopped(s) /\ s.order = "UnMdStop" => Calm(s, _startBrByTimer(t))
<1>1. Safe(t, _startBrByTimer(t))
  BY StartBrFine, OnlyUnitsOrder, FineSafe
<1>2. Safe(s, _startBrByTimer(t))
  BY <1>1, SafeChain
<1>3. ASSUME Stopped(s), s.order = "UnMdStop" PROVE Calm(s, _startBrByTimer(t))
  <2>1. t.seted # "UnMdStart"
    BY <1>3 DEF Stopped, SameOrder, NoDef
  <2> QED
    BY <2>1, StartBrFine
<1> QED
  BY <1>2, <1>3

LEMMA TimersStep ==
  ASSUME Inv, Timers
  PROVE  Inv' /\ StopStep /\ (FireInv => FireInv')
<1>1. d \in DryerRecord /\ Stopped(d)
  BY DEF Inv, DryerTypeOK
<1>2. ASSUME NEW running, NEW s, Expire(running, s), Safe(d, s),
             d.order = "UnMdStop" /\ d.shotCF = 0 => Calm(d, s)
      PROVE  Inv' /\ StopStep /\ (FireInv => FireInv')
  <2>1. d' = s
    BY <1>2 DEF Expire
  <2>2. StopStep
    BY <1>2, <2>1 DEF StopStep, Rises, Calm
  <2> QED
    BY <1>2, <2>2, TimerStep
<1>3. CASE StartCFDelay
  <2> DEFINE t == [d EXCEPT !.startCF = FALSE]
  <2>1. t \in DryerRecord /\ Safe(d, t)
    BY <1>1, OffSafe
  <2>2. Expire(d.startCF, _startCFbyTimer(t))
    BY <1>3 DEF StartCFDelay
  <2> HIDE DEF t
  <2>3. Safe(t, _startCFbyTimer(t))
    BY <2>1, StartCFFine, OnlyUnitsOrder, FineSafe
  <2>4. Safe(d, _startCFbyTimer(t))
    BY <2>1, <2>3, SafeChain
  <2>5. d.order # "UnMdStop"
    BY <1>1, <2>2 DEF Expire, Stopped
  <2> QED
    BY <1>2, <2>2, <2>4, <2>5
<1>4. CASE StartBrDelay
  <2> DEFINE t == [d EXCEPT !.startBr = FALSE]
  <2>1. t \in DryerRecord /\ Safe(d, t) /\ Calm(d, t) /\ SameOrder(d, t)
    BY <1>1, OffSafe
  <2>2. Expire(d.startBr, _startBrByTimer(t))
    BY <1>4 DEF StartBrDelay
  <2> HIDE DEF t
  <2> QED
    BY <1>1, <1>2, <2>1, <2>2, StartBrSafe
<1>5. CASE StopBrDelay
  <2> DEFINE t == [d EXCEPT !.stopBr = FALSE]
  <2>1. t \in DryerRecord /\ Safe(d, t) /\ Calm(d, t)
    BY <1>1, OffSafe
  <2>2. Expire(d.stopBr, _stopBrByTimer(t))
    BY <1>5 DEF StopBrDelay
  <2> HIDE DEF t
  <2>3. Safe(t, _stopBrByTimer(t)) /\ Calm(t, _stopBrByTimer(t))
    BY <2>1, StopBrFine, OnlyUnitsOrder, FineSafe
  <2>4. Safe(d, _stopBrByTimer(t)) /\ Calm(d, _stopBrByTimer(t))
    BY <2>1, <2>3, SafeChain, CalmChain
  <2> QED
    BY <1>2, <2>2, <2>4
<1>6. CASE CoolingTimer
  <2> DEFINE t == [d EXCEPT !.cooling = FALSE]
  <2>1. t \in DryerRecord /\ Safe(d, t) /\ Calm(d, t)
    BY <1>1, OffSafe
  <2>2. Expire(d.cooling, _coolingTimerEnd(t))
    BY <1>6 DEF CoolingTimer
  <2> HIDE DEF t
  <2>3. Safe(t, _coolingTimerEnd(t)) /\ Calm(t, _coolingTimerEnd(t))
    BY <2>1, CoolingEndSafe
  <2>4. Safe(d, _coolingTimerEnd(t)) /\ Calm(d, _coolingTimerEnd(t))
    BY <2>1, <2>3, SafeChain, CalmChain
  <2> QED
    BY <1>2, <2>2, <2>4
<1>7. CASE WarningCF
  <2> DEFINE t == [d EXCEPT !.shotCF = @ - 1]
  <2>1. Expire(d.shotCF > 0, _startCFbyTimer(t)) /\ d.shotCF > 0
    BY <1>7 DEF WarningCF, Expire
  <2>2. t \in DryerRecord /\ Safe(d, t)
    BY <1>1, <2>1, OffSafe
  <2> HIDE DEF t
  <2>3. Safe(t, _startCFbyTimer(t))
    BY <2>2, StartCFFine, OnlyUnitsOrder, FineSafe
  <2>4. Safe(d, _startCFbyTimer(t))
    BY <2>2, <2>3, SafeChain
  <2>5. d.shotCF # 0
    BY <2>1
  <2> QED
    BY <1>2, <2>1, <2>4, <2>5
<1>8. CASE WarningBr
  <2> DEFINE t == [d EXCEPT !.shotBr = @ - 1]
  <2>1. Expire(d.shotBr > 0, _startBrByTimer(t)) /\ d.shotBr > 0
    BY <1>8 DEF WarningBr, Expire
  <2>2. t \in DryerRecord /\ Safe(d, t) /\ Calm(d, t) /\ SameOrder(d, t)
    BY <1>1, <2>1, OffSafe
  <2> HIDE DEF t
  <2> QED
    BY <1>1, <1>2, <2>1, <2>2, StartBrSafe
<1> QED
  BY <1>3, <1>4, <1>5, <1>6, <1>7, <1>8 DEF Timers

-----------------------------------------------------------------------------
(* The units and the plant.                                                *)

LEMMA PatchSafe ==
  ASSUME NEW s \in DryerRecord, NEW u \in SubUnits, NEW r \in UnitRecord,
         r.curr = s.unit[u].curr, r.blocked = s.unit[u].blocked,
         r.out => s.unit[u].out,
         u \in Burners /\ r.out /\ Reached(r) => r.seted = s.unit[u].seted,
         r.linked = s.unit[u].linked, r.connected = s.unit[u].connected
  PROVE  Safe(s, [s EXCEPT !.unit[u] = r]) /\ Calm(s, [s EXCEPT !.unit[u] = r])
<1> DEFINE t == [s EXCEPT !.unit[u] = r]
<1>1. t \in DryerRecord /\ OnlyUnits(s, t) /\ t.unit[u] = r
      /\ \A x \in SubUnits : x # u => t.unit[x] = s.unit[x]
  BY UnitReplaced
<1> HIDE DEF t
<1>2. Burners \subseteq SubUnits
  BY DEF SubUnits
<1>3. Keeps(s, t) /\ SameBlocks(s, t) /\ Calm(s, t)
  BY <1>1, <1>2 DEF Keeps, SameBlocks, Calm, OnlyUnits
<1>4. Lit(s) => Lit(t)
  BY <1>1, <1>2 DEF Lit, Reached
<1>5. Fine(s, t)
  BY <1>1, <1>3, <1>4 DEF Fine
<1> QED
  BY <1>1, <1>3, <1>5, OnlyUnitsOrder, FineSafe DEF t

LEMMA ReportType ==
  ASSUME NEW r \in UnitRecord
  PROVE  /\ report(r) \in UnitRecord /\ report(r).curr = r.curr /\ report(r).out = r.out
         /\ report(r).blocked = r.blocked /\ report(r).seted = r.seted
         /\ report(r).linked = r.linked /\ report(r).connected = r.connected
<1> DEFINE n == IF r.due < MaxDue THEN r.due + 1 ELSE r.due
<1>1. n \in 0 .. MaxDue
  BY DEF UnitRecord, MaxDue
<1>2. report(r) = [r EXCEPT !.due = n]
  BY DEF report
<1> HIDE DEF n
<1> QED
  BY <1>1, <1>2 DEF UnitRecord

LEMMA DisturbType ==
  ASSUME DryerTypeOK, Disturb
  PROVE  clicks' \in 0 .. MaxClicks /\ disturb' \in 0 .. MaxDisturb
  BY DryerConstants DEF Disturb, DryerTypeOK

LEMMA ContactorStep ==
  ASSUME Inv, NEW u \in SubUnits, Contactor(u) \/ Rescan(u)
  PROVE  Inv' /\ StopStep /\ (FireInv => FireInv')
<1> DEFINE c == [d.unit[u] EXCEPT !.km = d.unit[u].out]
           r == IF Contactor(u) THEN report(c) ELSE report(d.unit[u])
<1>1. d \in DryerRecord /\ d.unit[u] \in UnitRecord
  BY Parts DEF Inv, DryerTypeOK
<1>2. c \in UnitRecord /\ c.curr = d.unit[u].curr /\ c.out = d.unit[u].out
      /\ c.blocked = d.unit[u].blocked /\ c.seted = d.unit[u].seted
      /\ c.linked = d.unit[u].linked /\ c.connected = d.unit[u].connected
  BY <1>1 DEF UnitRecord
<1>3. d' = [d EXCEPT !.unit[u] = r] /\ events' = events
      /\ clicks' = clicks /\ (disturb' = disturb \/ Disturb)
  <2>1. CASE Contactor(u)
    BY <2>1 DEF Contactor
  <2>2. CASE ~Contactor(u) /\ Rescan(u)
    BY <2>2 DEF Rescan, Disturb
  <2> QED
    BY <2>1, <2>2
<1> HIDE DEF c
<1>4. r \in UnitRecord /\ r.curr = d.unit[u].curr /\ r.out = d.unit[u].out
      /\ r.blocked = d.unit[u].blocked /\ r.seted = d.unit[u].seted
      /\ r.linked = d.unit[u].linked /\ r.connected = d.unit[u].connected
  BY <1>1, <1>2, ReportType
<1> HIDE DEF r
<1>5. Safe(d, d') /\ Calm(d, d')
  BY <1>1, <1>3, <1>4, PatchSafe
<1>6. QueueGrows /\ clicks' \in 0 .. MaxClicks /\ disturb' \in 0 .. MaxDisturb
  BY <1>3, SameQueue, DisturbType DEF Inv, DryerTypeOK
<1> QED
  BY <1>5, <1>6, SafeStep, CalmStop

LEMMA TripStep ==
  ASSUME Inv, NEW u \in SubUnits, Trip(u)
  PROVE  Inv' /\ StopStep /\ (FireInv => FireInv')
<1> DEFINE a == [d.unit[u] EXCEPT !.alarm = TRUE]
           r == setSubMode(u, a, "UnMdStop")
           e == [ev |-> "alarm", arg |-> u]
<1>1. d \in DryerRecord /\ d.unit[u] \in UnitRecord
  BY Parts DEF Inv, DryerTypeOK
<1>2. a \in UnitRecord /\ a.curr = d.unit[u].curr /\ a.out = d.unit[u].out
      /\ a.blocked = d.unit[u].blocked
      /\ a.linked = d.unit[u].linked /\ a.connected = d.unit[u].connected
  BY <1>1 DEF UnitRecord
<1>3. d' = [d EXCEPT !.unit[u] = r] /\ events' = Append(events, e)
      /\ Disturb
  BY DEF Trip, Post
<1> HIDE DEF a
<1>4. r \in UnitRecord /\ r.curr = a.curr /\ r.blocked = a.blocked /\ (r.out => a.out)
      /\ (u \in Burners /\ Reached(a) => ~r.out)
      /\ r.linked = a.linked /\ r.connected = a.connected
  BY <1>2, SetSubModeKeeps, ModeTypes
<1> HIDE DEF r
<1>5. Safe(d, d') /\ Calm(d, d')
  BY <1>1, <1>2, <1>3, <1>4, PatchSafe DEF Reached
<1>6. e \in Events /\ e.ev = "alarm"
  BY DEF Events
<1> HIDE DEF e
<1>7. QueueGrows
  BY <1>3, <1>6, PostGrows DEF Inv
<1> QED
  BY <1>3, <1>5, <1>7, DisturbType, SafeStep, CalmStop DEF Inv

(* A unit looks at its tags: it tells the dryer whatever mode it takes.    *)
LEMMA ObserveStep ==
  ASSUME Inv, NEW u \in SubUnits, Observe(u)
  PROVE  Inv' /\ StopStep /\ (FireInv => FireInv')
<1> DEFINE isFan == u \in Fans
           r == updateState(d.unit[u], isFan)
           e == [ev |-> "mode", arg |-> u]
<1>1. d \in DryerRecord /\ d.unit[u] \in UnitRecord /\ d.unit[u].due > 0
      /\ events \in Seq(Events) /\ isFan \in BOOLEAN
  BY Parts DEF Inv, DryerTypeOK, Observe
<1>2. d' = [d EXCEPT !.unit[u] = r] /\ clicks' = clicks /\ disturb' = disturb
      /\ events' = IF r.state \in settled THEN Append(events, e) ELSE events
  BY DEF Observe
<1>3. u \in Burners <=> ~isFan
  BY DryerConstants DEF SubUnits
<1> HIDE DEF isFan
<1>4. /\ r \in UnitRecord
      /\ r.out = d.unit[u].out /\ r.blocked = d.unit[u].blocked
      /\ r.state \in settled
           => /\ r.curr = modeOf(r.state, isFan)
              /\ r.seted = NoDef
              /\ r.out /\ r.connected => r.state = "UnStStarted"
      /\ r.state \notin settled => r.curr = d.unit[u].curr /\ r.seted = d.unit[u].seted
      /\ ~isFan => r.state # "UnStManualStarted"
      /\ r.linked = d.unit[u].linked /\ r.connected = d.unit[u].connected
      /\ d.unit[u].connected => r.state # "UnStNotConnected"
  BY <1>1, UpdateStateKeeps
<1> HIDE DEF r
<1>5. d' \in DryerRecord /\ OnlyUnits(d, d') /\ d'.unit[u] = r
      /\ \A x \in SubUnits : x # u => d'.unit[x] = d.unit[x]
  <2> DEFINE w == [d EXCEPT !.unit[u] = r]
  <2>1. w \in DryerRecord /\ OnlyUnits(d, w) /\ w.unit[u] = r
        /\ \A x \in SubUnits : x # u => w.unit[x] = d.unit[x]
    BY <1>1, <1>4, UnitReplaced
  <2> HIDE DEF w
  <2> QED
    BY <1>2, <2>1 DEF w
<1>6. Burners \subseteq SubUnits /\ Fans \subseteq SubUnits
  BY DEF SubUnits
<1>7. e \in Events /\ e.ev = "mode"
  BY DEF Events
<1>8. QueueGrows /\ (r.state \in settled => e \in Elements(events'))
  <2>1. CASE r.state \in settled
    BY <1>2, <1>7, <2>1, PostGrows DEF Inv
  <2>2. CASE r.state \notin settled
    BY <1>2, <2>2, SameQueue DEF Inv
  <2> QED
    BY <2>1, <2>2
<1>9. Inv'
  <2>1. Blocks(d')
    BY <1>4, <1>5, <1>6 DEF Inv, Blocks, OnlyUnits
  <2>2. Stopped(d')
    BY <1>5, OnlyUnitsOrder, SameOrderStopped DEF Inv
  <2>3. DryerTypeOK'
    BY <1>2, <1>5, <1>8 DEF Inv, DryerTypeOK, QueueGrows
  <2> QED
    BY <2>1, <2>2, <2>3 DEF Inv, Blocks, Stopped
<1>10. StopStep
  BY <1>4, <1>5 DEF StopStep, Rises
<1>11. ASSUME FireInv PROVE FireInv'
  <2> DEFINE told == IF r.state = "UnStStarted" THEN "UnMdStart" ELSE "UnMdCollingStop"
  <2>0. ASSUME u \in Burners
        PROVE  Reached(d.unit[u]) /\ Reached(r) /\ (r.state \in settled => r.curr = told)
    <3>1. Reached(d.unit[u])
      BY <1>11, <2>0 DEF FireInv, Lit
    <3>2. Reached(r) /\ r.state \notin {"UnStManualStarted", "UnStNotConnected"} /\ ~isFan
      BY <1>3, <1>4, <2>0, <3>1 DEF Reached
    <3> QED
      BY <1>4, <3>1, <3>2 DEF modeOf, settled
  <2>1. u \in Burners /\ r.state \in settled
          => /\ r.curr = told
             /\ r.out => r.curr = "UnMdStart"
    BY <1>4, <2>0 DEF Reached
  <2>2. Lit(d')
    BY <1>4, <1>5, <1>6, <1>11, <2>0, <2>1 DEF FireInv, Lit
  <2>3. NoFire(d')
    BY <1>4, <1>5, <1>6, <1>11 DEF FireInv, NoFire, OnlyUnits
  <2>4. BurnersTell(d')
    BY <1>4, <1>5, <1>6, <1>11, <2>1 DEF FireInv, BurnersTell
  <2>5. Known'
    <3> SUFFICES ASSUME NEW b \in Burners, d'.unit[b].curr = "UnMdStart", d'.br \notin Fire
                 PROVE  [ev |-> "mode", arg |-> b] \in Elements(events')
      BY DEF Known
    <3>1. d.br \notin Fire
      BY <1>5 DEF OnlyUnits
    <3>2. CASE b = u /\ r.state \in settled
      BY <1>8, <3>2
    <3>3. CASE ~(b = u /\ r.state \in settled)
      <4>1. d.unit[b].curr = "UnMdStart"
        BY <1>4, <1>5, <1>6, <3>3
      <4> QED
        BY <1>8, <1>11, <3>1, <4>1 DEF FireInv, Known, QueueGrows
    <3> QED
      BY <3>2, <3>3
  <2>6. ButtonsHandled'
    BY <1>8, <1>11 DEF FireInv, ButtonsHandled, QueueGrows
  <2> QED
    BY <1>11, <2>2, <2>3, <2>4, <2>5, <2>6 DEF FireInv, Lit, NoFire, BurnersTell
<1> QED
  BY <1>9, <1>10, <1>11

(* The line of a burner comes and goes, and the burner notices: no output  *)
(* changes.  Where all lines hold there is no such step.                   *)
LEMMA LineStep ==
  ASSUME Inv, NEW u \in Lossy, LineBroken(u) \/ LineBack(u) \/ _sensorConnect(u)
  PROVE  Inv' /\ StopStep /\ (FireInv => FireInv')
<1>1. d \in DryerRecord /\ u \in SubUnits /\ d.unit[u] \in UnitRecord
      /\ events \in Seq(Events)
  BY Parts, DryerConstants DEF Inv, DryerTypeOK, SubUnits
<1>2. ASSUME NEW r \in UnitRecord, d' = [d EXCEPT !.unit[u] = r],
             r.out = d.unit[u].out, r.blocked = d.unit[u].blocked,
             events' \in Seq(Events), clicks' = clicks, disturb' = disturb \/ Disturb
      PROVE  Inv' /\ StopStep /\ (FireInv => FireInv')
  <2>1. d' \in DryerRecord /\ OnlyUnits(d, d') /\ d'.unit[u] = r
        /\ \A x \in SubUnits : x # u => d'.unit[x] = d.unit[x]
    <3> DEFINE w == [d EXCEPT !.unit[u] = r]
    <3>1. w \in DryerRecord /\ OnlyUnits(d, w) /\ w.unit[u] = r
          /\ \A x \in SubUnits : x # u => w.unit[x] = d.unit[x]
      BY <1>1, UnitReplaced
    <3> HIDE DEF w
    <3> QED
      BY <1>2, <3>1 DEF w
  <2>2. Blocks(d') /\ StopStep
    BY <1>2, <2>1 DEF Inv, Blocks, OnlyUnits, SubUnits, StopStep, Rises
  <2>3. Stopped(d')
    BY <2>1, OnlyUnitsOrder, SameOrderStopped DEF Inv
  <2>4. clicks' \in 0 .. MaxClicks /\ disturb' \in 0 .. MaxDisturb
    BY <1>2, DisturbType DEF Inv, DryerTypeOK
  <2>5. DryerTypeOK'
    BY <1>2, <2>1, <2>4 DEF DryerTypeOK
  <2>6. ~FireInv
    BY DEF FireInv
  <2> QED
    BY <2>2, <2>3, <2>5, <2>6 DEF Inv, Blocks, Stopped
<1>3. CASE LineBroken(u)
  <2> DEFINE r == [d.unit[u] EXCEPT !.linked = FALSE]
  <2>1. r \in UnitRecord /\ r.out = d.unit[u].out /\ r.blocked = d.unit[u].blocked
    BY <1>1 DEF UnitRecord
  <2>2. d' = [d EXCEPT !.unit[u] = r] /\ events' = events /\ Disturb
    BY <1>3 DEF LineBroken
  <2> HIDE DEF r
  <2>3. clicks' = clicks
    BY <2>2 DEF Disturb
  <2> QED
    BY <1>1, <1>2, <2>1, <2>2, <2>3
<1>4. CASE LineBack(u)
  <2> DEFINE back == [d.unit[u] EXCEPT !.linked = TRUE]
             r    == IF back.connected THEN report(back) ELSE back
  <2>1. back \in UnitRecord /\ back.out = d.unit[u].out /\ back.blocked = d.unit[u].blocked
    BY <1>1 DEF UnitRecord
  <2>2. d' = [d EXCEPT !.unit[u] = r] /\ events' = events /\ clicks' = clicks
        /\ disturb' = disturb
    BY <1>4 DEF LineBack
  <2> HIDE DEF back
  <2>3. r \in UnitRecord /\ r.out = d.unit[u].out /\ r.blocked = d.unit[u].blocked
    BY <2>1, ReportType
  <2> HIDE DEF r
  <2> QED
    BY <1>1, <1>2, <2>2, <2>3
<1>5. CASE _sensorConnect(u)
  <2> DEFINE lost == [d.unit[u] EXCEPT !.connected = FALSE, !.alarm = TRUE, !.seted = NoDef,
                        !.state = "UnStNotConnected", !.curr = NoDef]
             found == [d.unit[u] EXCEPT !.connected = TRUE]
             now   == IF d.unit[u].connected THEN lost ELSE found
             r     == report(now)
             told  == <<[ev |-> "alarm", arg |-> u], [ev |-> "mode", arg |-> u],
                        [ev |-> "alarm", arg |-> u]>>
  <2>1. lost \in UnitRecord /\ lost.out = d.unit[u].out /\ lost.blocked = d.unit[u].blocked
    BY <1>1, ModeTypes DEF UnitRecord, States
  <2>2. found \in UnitRecord /\ found.out = d.unit[u].out
        /\ found.blocked = d.unit[u].blocked
    BY <1>1 DEF UnitRecord
  <2>3. d' = [d EXCEPT !.unit[u] = r]
        /\ events' = (IF d.unit[u].connected THEN events \o told ELSE events)
        /\ clicks' = clicks /\ disturb' = disturb
    BY <1>5 DEF _sensorConnect
  <2>4. told \in Seq(Events)
    BY <1>1 DEF Events
  <2> HIDE DEF lost, found, told
  <2>5. now \in UnitRecord /\ now.out = d.unit[u].out /\ now.blocked = d.unit[u].blocked
    BY <2>1, <2>2
  <2> HIDE DEF now
  <2>6. r \in UnitRecord /\ r.out = d.unit[u].out /\ r.blocked = d.unit[u].blocked
    BY <2>5, ReportType
  <2> HIDE DEF r
  <2>7. events' \in Seq(Events)
    BY <1>1, <2>3, <2>4
  <2> QED
    BY <1>2, <2>3, <2>6, <2>7
<1> QED
  BY <1>3, <1>4, <1>5

(* The operator, and what comes from the tags of the dryer itself.         *)
LEMMA UserStep ==
  ASSUME Inv, User
  PROVE  Inv' /\ StopStep /\ (FireInv => FireInv')
<1>1. d \in DryerRecord /\ DryerTypeOK
  BY DEF Inv, DryerTypeOK
<1>2. ASSUME NEW e \in Events, Press(e), e.ev \in {"start", "stop"} => e.arg \in Handled
      PROVE  Inv' /\ StopStep /\ (FireInv => FireInv')
  <2>1. d' = d /\ events' = Append(events, e) /\ clicks' \in 0 .. MaxClicks
        /\ disturb' \in 0 .. MaxDisturb
    BY <1>1, <1>2, DryerConstants DEF Press, Post, DryerTypeOK
  <2>2. Safe(d, d') /\ Calm(d, d')
    BY <1>1, <2>1, FineSelf, FineSafe, OnlyUnitsOrder
  <2>3. QueueGrows
    BY <1>1, <1>2, <2>1, PostGrows
  <2> QED
    BY <2>1, <2>2, <2>3, SafeStep, CalmStop
<1>3. ASSUME NEW m \in Orders, Click(m)
      PROVE  Inv' /\ StopStep /\ (FireInv => FireInv')
  <2> DEFINE e == [ev |-> "setMode", arg |-> m]
  <2>1. e \in Events /\ e.ev = "setMode" /\ Press(e)
    BY <1>3 DEF Events, Click
  <2> HIDE DEF e
  <2> QED
    BY <1>2, <2>1
<1>4. ASSUME NEW u \in Handled, NEW ev \in {"start", "stop"}, UserButton(u, ev)
      PROVE  Inv' /\ StopStep /\ (FireInv => FireInv')
  <2> DEFINE e == [ev |-> ev, arg |-> u]
  <2>1. e \in Events /\ e.arg = u /\ Press(e)
    BY <1>4, DryerConstants DEF Events, UserButton
  <2> HIDE DEF e
  <2> QED
    BY <1>2, <2>1
<1>5. ASSUME NEW stay, NEW own \in BOOLEAN, resetAlarm(stay, own)
      PROVE  Inv' /\ StopStep /\ (FireInv => FireInv')
  <2> DEFINE f == [u \in SubUnits |-> [d.unit[u] EXCEPT !.alarm = u \in stay]]
             a == stay # {} \/ own
             t == [d EXCEPT !.unit = f]
             w == [t EXCEPT !.alarm = a]
  <2>1. \A u \in SubUnits :
          /\ f[u] \in UnitRecord
          /\ f[u].curr = d.unit[u].curr /\ f[u].out = d.unit[u].out
          /\ f[u].seted = d.unit[u].seted /\ f[u].blocked = d.unit[u].blocked
          /\ f[u].linked = d.unit[u].linked /\ f[u].connected = d.unit[u].connected
    <3> TAKE u \in SubUnits
    <3>1. d.unit[u] \in UnitRecord
      BY <1>1, Parts
    <3> DEFINE v == u \in stay
    <3>2. v \in BOOLEAN /\ f[u] = [d.unit[u] EXCEPT !.alarm = v]
      OBVIOUS
    <3> HIDE DEF v, f
    <3> QED
      BY <3>1, <3>2 DEF UnitRecord
  <2>2. f \in [SubUnits -> UnitRecord]
    BY <2>1
  <2>3. a \in BOOLEAN
    BY <1>1 DEF DryerRecord
  <2>4. d' = w /\ events' = events /\ Disturb
    BY <1>5 DEF resetAlarm, DryerRecord
  <2> HIDE DEF f, a
  <2>5. t \in DryerRecord /\ OnlyUnits(d, t) /\ t.unit = f
    BY <1>1, <2>2, UnitsReplaced DEF OnlyUnits
  <2> HIDE DEF t
  <2>6. w \in DryerRecord /\ w.unit = f /\ w.cf = d.cf /\ w.br = d.br /\ SameOrder(d, w)
    BY <2>3, <2>5 DEF DryerRecord, OnlyUnits, SameOrder
  <2> HIDE DEF w
  <2>7. Burners \subseteq SubUnits
    BY DEF SubUnits
  <2>8. Keeps(d, w) /\ SameBlocks(d, w) /\ Calm(d, w) /\ (Lit(d) => Lit(w))
    BY <2>1, <2>6, <2>7 DEF Keeps, SameBlocks, Calm, Lit, Reached
  <2>9. Safe(d, w)
    BY <2>6, <2>8, FineSafe DEF Fine
  <2> QED
    BY <1>1, <2>4, <2>8, <2>9, SameQueue, DisturbType, SafeStep, CalmStop
<1>6. ASSUME NEW pressed \in BOOLEAN, OwnAlarm(pressed)
      PROVE  Inv' /\ StopStep /\ (FireInv => FireInv')
  <2>1. d' = detectAlarm(d, pressed) /\ events' = events /\ Disturb
    BY <1>6 DEF OwnAlarm
  <2>2. Safe(d, d') /\ Calm(d, d')
    BY <1>1, <2>1, AlarmSafe
  <2> QED
    BY <1>1, <2>1, <2>2, SameQueue, DisturbType, SafeStep, CalmStop
<1>7. ASSUME Level
      PROVE  Inv' /\ StopStep /\ (FireInv => FireInv')
  <2> DEFINE e == [ev |-> "bunker", arg |-> "level"]
  <2>1. d' = [d EXCEPT !.loaded = ~@] /\ events' = Append(events, e) /\ Disturb
    BY <1>7 DEF Level, Post
  <2>2. d' \in DryerRecord /\ d'.unit = d.unit /\ d'.cf = d.cf /\ d'.br = d.br
        /\ SameOrder(d, d')
    BY <1>1, <2>1 DEF DryerRecord, SameOrder
  <2>3. Safe(d, d') /\ Calm(d, d')
    BY <1>1, <2>2, UnitKept, FineSafe
  <2>4. e \in Events /\ e.ev = "bunker"
    BY DEF Events
  <2> HIDE DEF e
  <2>5. QueueGrows
    BY <1>1, <2>1, <2>4, PostGrows
  <2> QED
    BY <1>1, <2>1, <2>3, <2>5, DisturbType, SafeStep, CalmStop
<1> QED
  BY <1>3, <1>4, <1>5, <1>6, <1>7 DEF User

-----------------------------------------------------------------------------
(* The theorems.                                                           *)

LEMMA InitHolds ==
  ASSUME Init
  PROVE  Inv /\ (Handled \cap Burners = {} /\ Lossy = {} => FireInv)
<1> DEFINE f == [u \in SubUnits |->
            [curr |-> IF u \in Fans THEN "UnMdStop" ELSE "UnMdCollingStop",
             seted |-> NoDef, state |-> "UnStStoped", out |-> FALSE, km |-> FALSE,
             due |-> 0, blocked |-> u \in Burners, alarm |-> FALSE,
             linked |-> TRUE, connected |-> TRUE]]
<1>1. \A u \in SubUnits :
        /\ f[u] \in UnitRecord /\ ~f[u].out /\ f[u].blocked = (u \in Burners)
        /\ Reached(f[u])
        /\ f[u].curr = IF u \in Fans THEN "UnMdStop" ELSE "UnMdCollingStop"
  <2> TAKE u \in SubUnits
  <2> DEFINE v == u \in Burners
             c == IF u \in Fans THEN "UnMdStop" ELSE "UnMdCollingStop"
             no == FALSE  yes == TRUE
  <2>1. v \in BOOLEAN /\ c \in Modes /\ no \in BOOLEAN /\ ~no /\ yes \in BOOLEAN /\ yes
    BY DEF Modes
  <2>2. f[u] = [curr |-> c, seted |-> NoDef, state |-> "UnStStoped", out |-> no,
                km |-> no, due |-> 0, blocked |-> v, alarm |-> no,
                linked |-> yes, connected |-> yes]
    OBVIOUS
  <2> HIDE DEF v, c, no, yes, f
  <2>3. f[u] \in UnitRecord /\ ~f[u].out /\ f[u].blocked = v /\ f[u].curr = c
        /\ Reached(f[u])
    BY <2>1, <2>2, ModeTypes DEF UnitRecord, States, MaxDue, Reached
  <2> QED
    BY <2>3 DEF v, c
<1>2. f \in [SubUnits -> UnitRecord]
  BY <1>1
<1>3. /\ d = [mode |-> "UnMdCollingStop", seted |-> NoDef, alarm |-> FALSE,
              cf |-> "UnMdStop", br |-> "UnMdCollingStop",
              startCF |-> FALSE, startBr |-> FALSE, stopBr |-> FALSE, cooling |-> FALSE,
              shotCF |-> 0, shotBr |-> 0, loaded |-> TRUE, order |-> NoDef, unit |-> f]
      /\ events = <<>> /\ clicks = MaxClicks /\ disturb = MaxDisturb
  BY DEF Init
<1> HIDE DEF f
<1>4. d \in DryerRecord
  BY <1>2, <1>3, ModeTypes DEF DryerRecord, CommonModes
<1>5. d.unit = f /\ d.cf = "UnMdStop" /\ d.br = "UnMdCollingStop" /\ d.order = NoDef
  BY <1>3
<1>6. Burners \subseteq SubUnits /\ Fans \cap Burners = {}
  BY DryerConstants DEF SubUnits
<1>7. Elements(events) = {}
  BY <1>3 DEF Elements
<1>8. Inv
  <2>1. DryerTypeOK
    BY <1>3, <1>4, DryerConstants DEF DryerTypeOK
  <2>2. Blocks(d) /\ Stopped(d)
    BY <1>1, <1>5, <1>6 DEF Blocks, Stopped, NoDef
  <2> QED
    BY <2>1, <2>2 DEF Inv
<1>9. Lit(d) /\ NoFire(d) /\ BurnersTell(d) /\ Known /\ ButtonsHandled
  BY <1>1, <1>5, <1>6, <1>7 DEF Lit, NoFire, BurnersTell, Known, ButtonsHandled
<1> QED
  BY <1>8, <1>9 DEF FireInv

LEMMA StepHolds ==
  ASSUME Inv, [Next]_vars
  PROVE  Inv' /\ (FireInv => FireInv')
<1>1. CASE Thread
  BY <1>1, HandleEventStep, ObserveStep, LineStep DEF Thread
<1>2. CASE Timers
  BY <1>2, TimersStep
<1>3. CASE Plant
  BY <1>3, ContactorStep, TripStep, LineStep DEF Plant
<1>4. CASE User
  BY <1>4, UserStep
<1>5. CASE UNCHANGED vars
  <2>1. d' = d /\ events' = events /\ clicks' = clicks /\ disturb' = disturb
    BY <1>5 DEF vars
  <2> QED
    BY <2>1 DEF Inv, DryerTypeOK, Blocks, Stopped, FireInv, Lit, NoFire, BurnersTell,
                Known, ButtonsHandled
<1> QED
  BY <1>1, <1>2, <1>3, <1>4, <1>5 DEF Next

LEMMA StepStops ==
  ASSUME Inv, Next
  PROVE  StopStep
<1>1. CASE Thread
  BY <1>1, HandleEventStep, ObserveStep, LineStep DEF Thread
<1>2. CASE Timers
  BY <1>2, TimersStep
<1>3. CASE Plant
  BY <1>3, ContactorStep, TripStep, LineStep DEF Plant
<1>4. CASE User
  BY <1>4, UserStep
<1> QED
  BY <1>1, <1>2, <1>3, <1>4 DEF Next

LEMMA Inductive == Spec => []Inv
<1>1. Init => Inv
  BY InitHolds
<1>2. Inv /\ [Next]_vars => Inv'
  BY StepHolds
<1> QED
  BY <1>1, <1>2, PTL DEF Spec

(* The variables keep to their types.                                      *)
THEOREM DryerTypes == Spec => []DryerTypeOK
<1>1. Inv => DryerTypeOK
  BY DEF Inv
<1> QED
  BY <1>1, Inductive, PTL

(* The interlocks of fans and burners always fit what the dryer knows of   *)
(* them.                                                                   *)
THEOREM DryerBlocks == Spec => []BlocksFollow
<1>1. Inv => BlocksFollow
  BY DEF Inv, Blocks, BlocksFollow
<1> QED
  BY <1>1, Inductive, PTL

(* A dryer told to stop switches nothing on by itself, by no timer that a  *)
(* stop() reaches, by no mode a sub-unit still reports and by no line that *)
(* comes back.  Until the singleShot of a siren has expired nothing is     *)
(* claimed: it does start a fan after the stop.                            *)
THEOREM DryerStops == Spec => StopHolds
<1>1. Inv /\ [Next]_vars => [\A u \in SubUnits :
        Rises(u) /\ d.order = "UnMdStop" /\ d.shotCF = 0 => ByButton(u)]_vars
  <2>1. CASE UNCHANGED vars
    BY <2>1
  <2>2. ASSUME Inv, Next
        PROVE  \A u \in SubUnits :
                 Rises(u) /\ d.order = "UnMdStop" /\ d.shotCF = 0 => ByButton(u)
    BY <2>2, StepStops DEF StopStep
  <2> QED
    BY <2>1, <2>2
<1> QED
  BY <1>1, Inductive, PTL DEF Spec, StopHolds

(* Where the operator leaves the buttons of the burners alone and their    *)
(* lines hold, no burner goes on burning after the dryer has learnt that a *)
(* fan stands.                                                             *)
THEOREM DryerGuarded ==
  ASSUME Handled \cap Burners = {}, Lossy = {}
  PROVE  Spec => []BurnersGuarded
<1>1. Init => Inv /\ FireInv
  BY InitHolds
<1>2. Inv /\ FireInv /\ [Next]_vars => (Inv /\ FireInv)'
  BY StepHolds
<1>3. Inv /\ FireInv => BurnersGuarded
  BY DEF FireInv, NoFire, Known, Fire, BurnersGuarded
<1> QED
  BY <1>1, <1>2, <1>3, PTL DEF Spec

=============================================================================
