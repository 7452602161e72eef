------------------------------- MODULE Formats -------------------------------
(***************************************************************************)
(* The parts of the program that only compute, side by side: a behaviour   *)
(* exercises one of them and leaves the others as they are.                *)
(***************************************************************************)
EXTENDS RegionFormat, ChunkKeys, Selections, WorldLayout

formatVars == <<regionVars, keyVars, selectionVars, layoutVars>>

FormatsInit ==
  /\ RegionInit
  /\ KeyInit
  /\ SelectionInit
  /\ LayoutInit

FormatsNext ==
  \/ /\ KeyInit /\ SelectionInit /\ LayoutInit
     /\ RegionStep
     /\ UNCHANGED <<keyVars, selectionVars, layoutVars>>
  \/ /\ RegionInit /\ SelectionInit /\ LayoutInit
     /\ KeyStep
     /\ UNCHANGED <<regionVars, selectionVars, layoutVars>>
  \/ /\ RegionInit /\ KeyInit /\ LayoutInit
     /\ SelectionStep
     /\ UNCHANGED <<regionVars, keyVars, layoutVars>>
  \/ /\ RegionInit /\ KeyInit /\ SelectionInit
     /\ LayoutStep
     /\ UNCHANGED <<regionVars, keyVars, selectionVars>>

FormatsSpec == FormatsInit /\ [][FormatsNext]_formatVars
=============================================================================
