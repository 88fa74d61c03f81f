----------------------------- MODULE Reservation -----------------------------
(***************************************************************************)
(* What routes promise about the units they share, with every command and  *)
(* answer left out: a route gets to work by taking all of its units in one *)
(* step, only if none is taken, keeps exactly them while it works, and     *)
(* gives all of them back in one step.                                     *)
(***************************************************************************)
CONSTANTS Routes, Units, NoRoute,
          Needs     \* Needs[r]: the units of route r

VARIABLES owner,    \* the route that holds a unit, or NoRoute
          busy      \* whether a route is at work

Free(u) == owner[u] = NoRoute

Init ==
  /\ owner = [u \in Units |-> NoRoute]
  /\ busy = [r \in Routes |-> FALSE]

Take(r) ==
  /\ ~busy[r]
  /\ \A u \in Needs[r] : Free(u)
  /\ owner' = [u \in Units |-> IF u \in Needs[r] THEN r ELSE owner[u]]
  /\ busy' = [busy EXCEPT ![r] = TRUE]

GiveBack(r) ==
  /\ busy[r]
  /\ owner' = [u \in Units |-> IF owner[u] = r THEN NoRoute ELSE owner[u]]
  /\ busy' = [busy EXCEPT ![r] = FALSE]

Next == \E r \in Routes : Take(r) \/ GiveBack(r)

Spec == Init /\ [][Next]_<<owner, busy>>

=============================================================================
