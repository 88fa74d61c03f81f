-------------------------------- MODULE Prom --------------------------------
(***************************************************************************)
(* The enumerations of SCADAenums.h that routes and units exchange.  Only  *)
(* the members that the modelled code tells apart are kept.                *)
(***************************************************************************)
EXTENDS Integers, Sequences, FiniteSets

RouteCommands ==
  {"RtCmNo", "RtCmToRoute", "RtCmToRoutForClean", "RtCmCleanStop",
   "RtCmStop", "RtCmToSave", "RtCmStopOnRouteAlarm"}

UnitModes ==
  {"UnMdNoDef", "UnMdStop", "UnMdStart", "UnMdCleanStop",
   "UnMdEmpty", "UnMdFull", "UnMdNeedLoad", "UnMdNeedUnload"}

(* EngineStates of an ElectroEngine with one contactor and no reverse. *)
EngineStates ==
  {"EngStoped", "EngToForvard", "EngForvard", "EngToStopForward",
   "EngManualForward"}

(* UnMdStop is satisfied by a clean stop; every other mode only by itself. *)
icvalModes(TrgMd, ChckMd) ==
  \/ TrgMd = ChckMd
  \/ TrgMd = "UnMdStop" /\ ChckMd = "UnMdCleanStop"

=============================================================================
