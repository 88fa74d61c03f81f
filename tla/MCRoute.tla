------------------------------- MODULE MCRoute -------------------------------
(* Small plants for model checking module RouteProps.                      *)
EXTENDS RouteProps

CONSTANTS r1, r2,          \* routes
          e1, e2, n1,      \* engines and a noria
          s1, b1           \* a silos and the bunker of a dryer

KindOf ==
  [u \in Units |-> CASE u = n1 -> "noria" [] u = s1 -> "silos"
                     [] u = b1 -> "bunker" [] OTHER -> "engine"]

Item(u) == [un |-> u, mode |-> CASE u = s1 -> "UnMdEmpty" [] u = b1 -> "UnMdNeedLoad"
                                 [] OTHER -> "UnMdStart"]

Line(us) == [r \in Routes |-> [i \in DOMAIN us |-> Item(us[i])]]

SilosLine  == Line(<<e1, n1, s1>>)
NoriaLine  == Line(<<e1, n1>>)
ShortLine  == Line(<<e1, s1>>)
BunkerLine == Line(<<e1, b1>>)
CycleLine  == Line(<<s1, b1>>)
OneUnit    == Line(<<e1>>)

(* Two routes that end in the same noria. *)
SharedLines ==
  [r \in Routes |-> IF r = r1 THEN <<Item(e1), Item(n1)>> ELSE <<Item(e2), Item(n1)>>]

=============================================================================
