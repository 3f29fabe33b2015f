---------------------------- MODULE MCUtilities ----------------------------
(***************************************************************************)
(* What the other parts are made with (Utilities), and the lists of types  *)
(* (TypeList), in one run: a behaviour exercises one of them, chosen at    *)
(* the start.                                                              *)
(***************************************************************************)
EXTENDS Utilities

CONSTANTS Types, unit_t, none_t, MaxLen

VARIABLES ListA, ListB                  \* TypeList

listVars == <<ListA, ListB>>

Lists  == INSTANCE TypeList
Sample == INSTANCE SampleCode

ASSUME Lists!TypeListAssumption

(* SampleCode: the code checked in for sample.proto is the code that       *)
(* CodeGenerator describes.                                                *)
ASSUME Sample!SampleIsGenerated

MCInit ==
  /\ PartsInit /\ Lists!Init
  /\ chosen \in {"RefCount", "TypeList", "BookEntity", "CodeGenerator",
                 "LayeredBuilder"}

MCNext ==
  \/ PartsNext /\ UNCHANGED listVars
  \/ chosen = "TypeList" /\ Lists!Next /\ UNCHANGED partVars

MCSpec == MCInit /\ [][MCNext]_<<partVars, listVars>>

(* TypeList: the recursive templates, but for four of them, are the        *)
(* operations on sequences and sets that their comments describe, at every *)
(* length and position.                                                    *)
ListsMeetReference == chosen = "TypeList" => Lists!ListsMeetReference

=============================================================================
