------------------------------ MODULE MCOutput ------------------------------
(* Small groups of outputs for model checking module OutputProps.          *)
EXTENDS OutputProps

CONSTANTS a, b   \* tags

OneRange  == <<Tags>>
TwoRanges == <<{a}, Tags \ {a}>>

=============================================================================
