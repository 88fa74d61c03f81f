------------------------------ MODULE MCDryer ------------------------------
(* Small dryers for model checking module DryerProps.                      *)
EXTENDS DryerProps

CONSTANTS f1, f2,   \* fans
          b1, b2    \* burners

OneFan     == <<f1>>
TwoFans    == <<f1, f2>>
OneBurner  == <<b1>>
TwoBurners == <<b1, b2>>

=============================================================================
