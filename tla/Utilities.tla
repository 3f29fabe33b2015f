----------------------------- MODULE Utilities -----------------------------
(***************************************************************************)
(* What the other parts are made with: smart pointers over counted objects *)
(* (RefCount), the generated messages that calls carry (BookEntity) with   *)
(* the builders of responses (LayeredBuilder), and the compiler that       *)
(* generates them (CodeGenerator).  They share nothing: a behaviour        *)
(* exercises one of them, which is chosen at the start.                    *)
(***************************************************************************)
EXTENDS RefCount

CONSTANTS Books, Values, default, MaxOps, MaxCalls, MaxSaved, FieldNames, Oneofs, MaxFields

VARIABLES
  chosen,
  book, wire, op, ops,                  \* BookEntity
  heap, obj, temps, cur, calls,         \* LayeredBuilder
  fields                                \* CodeGenerator

bookVars    == <<book, wire, op, ops>>
layeredVars == <<heap, obj, temps, cur, calls>>
partVars    == <<chosen, vars, bookVars, layeredVars, fields>>

Book    == INSTANCE BookEntity
Layered == INSTANCE LayeredBuilder
Code    == INSTANCE CodeGenerator

ASSUME PartsAssumption ==
  Book!BookAssumption /\ Layered!LayeredAssumption /\ Code!CodeAssumption

PartsInit == Init /\ Book!Init /\ Layered!Init /\ Code!Init

PartsNext ==
  /\ UNCHANGED chosen
  /\ \/ /\ chosen = "RefCount" /\ Next
        /\ UNCHANGED <<bookVars, layeredVars, fields>>
     \/ /\ chosen = "BookEntity" /\ Book!Next
        /\ UNCHANGED <<vars, layeredVars, fields>>
     \/ /\ chosen = "LayeredBuilder" /\ Layered!Next
        /\ UNCHANGED <<vars, bookVars, fields>>
     \/ /\ chosen = "CodeGenerator" /\ Code!Next
        /\ UNCHANGED <<vars, bookVars, layeredVars>>

PartsSpec == PartsInit /\ [][PartsNext]_partVars

(* BookEntity: the bytes of a message restore it, and the bytes of two are *)
(* the bytes of the merged one.                                            *)
WireFaithful == chosen = "BookEntity" => Book!WireFaithful

(* BookEntity: a read of a Ref leaves what every read returns as it was,   *)
(* though it may create an author.                                         *)
ReadsKeepContents == Book!ReadsKeepContents

(* LayeredBuilder: a builder, however it was reached, changes the message  *)
(* that the calls which made it name, and refers to a living parent.       *)
BuildersReachTheirMessage == chosen = "LayeredBuilder" => Layered!BuildersReachTheirMessage

(* CodeGenerator: for every message, the files the compiler writes from    *)
(* separate loops over its fields agree on slots, order and types, and     *)
(* every field is read and written through an accessor of its own.         *)
GeneratedCodeAgrees == chosen = "CodeGenerator" => Code!GeneratedCodeAgrees

=============================================================================
