--------------------------- MODULE CodeGenerator ---------------------------
(***************************************************************************)
(* What the compiler (compiler/utility/utility.cpp, driven by the          *)
(* templates of compiler/generators) writes for a message of a .proto      *)
(* file.  Three files depend on each other and come from separate loops    *)
(* over the fields: the header declares the vtables and the classes (.h),  *)
(* the source implements the classes by calls through the vtables (.cc),   *)
(* and the specification for protobuf fills the vtables (.pb.cc).          *)
(*                                                                         *)
(* A field is [name, type, of, repeated, oneof]: of names the message or   *)
(* enum of the field, oneof the oneof that contains it.  Names are in      *)
(* lower_snake_case.  A name of the generated code is the tuple of its     *)
(* parts, as <<"set", "title">>, and so is a C++ type.                     *)
(***************************************************************************)
EXTENDS Naturals, Sequences, SequencesExt, Lists

CONSTANTS
  FieldNames,   \* of the fields of a message
  Oneofs,       \* the names of its oneofs
  MaxFields     \* bound: the fields of a message

VARIABLE fields         \* the message being compiled

none == "none"

Escaped(name) == CASE name = "delete" -> "delete_" [] OTHER -> name

(* Fields and oneofs are in one scope.  protoc escapes as the compiler     *)
(* does, so two names that are one when escaped do not compile as it is.   *)
CodeAssumption ==
  /\ MaxFields \in Nat
  /\ none \notin Oneofs /\ FieldNames \cap Oneofs = {}
  /\ \A m, n \in FieldNames \cup Oneofs : Escaped(m) = Escaped(n) => m = n

-----------------------------------------------------------------------------
(* Which fields are generated *)
IsSupported(f) == f.type # "map"
IsVariant(f)   == f.oneof # none

Select(fs, Test(_)) == Among(fs, {f \in Range(fs) : Test(f)})

AllOf(fs, oneof) == Select(fs, LAMBDA f : f.oneof = oneof)

(* OneOfDescriptorWrap::fields: the alternatives. *)
Alternatives(fs, oneof) == Select(AllOf(fs, oneof), IsSupported)

NotOneofOrFirst(fs, f) == IsVariant(f) => f = AllOf(fs, f.oneof)[1]

(* DescriptorWrap::fields: the first alternative stands for its oneof. *)
MessageFields(fs) == Select(fs, LAMBDA f : IsSupported(f) /\ NotOneofOrFirst(fs, f))

(* The fields that a caller changes through a builder of their own. *)
HasBuilder(f) == f.type = "message" \/ f.repeated \/ IsVariant(f)

InVariantGetter(f) == Escaped(f.name)
InMessageGetter(f) == IF IsVariant(f) THEN Escaped(f.oneof) ELSE Escaped(f.name)

-----------------------------------------------------------------------------
(* The C++ types of a field, to read it and to change it *)
RefInVariant(f) ==
  LET one == CASE f.type = "message" -> <<"Ref", f.of>>
               [] f.type = "enum"    -> <<"Enum", f.of>>
               [] f.type = "string"  -> <<"string_view">>
               [] OTHER              -> <<f.type>>
  IN  IF f.repeated THEN <<"repeated", one>> ELSE one

RefInMessage(f) == IF IsVariant(f) THEN <<"Ref", f.oneof>> ELSE RefInVariant(f)

BuilderInner(f) ==
  CASE f.type = "message" -> <<"Builder", f.of>>
    [] f.type = "enum"    -> <<"Enum", f.of>>
    [] OTHER              -> <<f.type>>

BuilderInVariant(f) ==
  CASE ~f.repeated        -> BuilderInner(f)
    [] f.repeated /\ f.type = "message" -> <<"VecEntityBuilder", BuilderInner(f)>>
    [] f.repeated /\ f.type # "message" -> <<"VecBuilder", BuilderInner(f)>>

BuilderInMessage(f) ==
  IF IsVariant(f) THEN <<"Builder", f.oneof>> ELSE BuilderInVariant(f)

LayeredBuilder(f) ==
  CASE f.type = "message" /\ f.repeated  -> <<"VecEntityLayeredBuilder", f.of>>
    [] f.type = "message" /\ ~f.repeated -> <<"LayeredBuilder", f.of>>
    [] f.type # "message" -> <<"VecLayeredBuilder", BuilderInner(f)>>

-----------------------------------------------------------------------------
(* How the specification for protobuf reads and writes a field: through    *)
(* which accessor of the message, and the type of the expression           *)
Access(through, type) == [through |-> through, type |-> type]

UnwrapInVariant(f) ==
  Access(IF f.type = "message" THEN <<"mutable", InVariantGetter(f)>> ELSE <<InVariantGetter(f)>>,
         RefInVariant(f))

UnwrapInMessage(f) ==
  IF IsVariant(f) THEN Access(<<"wrap", f.oneof>>, <<"Ref", f.oneof>>) ELSE UnwrapInVariant(f)

(* An enum is cast as it is: that compiles if Enum converts to a number. *)
UnwrapBuilderInVariant(f) ==
  CASE f.type = "message" ->
         Access(<<"mutable", InVariantGetter(f)>>, <<"callback", BuilderInner(f)>>)
    [] f.type = "enum" -> Access(<<"set", InVariantGetter(f)>>, <<"number">>)
    [] f.type \notin {"message", "enum"} ->
         Access(<<"set", InVariantGetter(f)>>, BuilderInner(f))

UnwrapBuilderRepeated(f) ==
  Access(IF f.type = "message" THEN <<"mutable", InVariantGetter(f), "Add">>
                               ELSE <<"add", InVariantGetter(f)>>,
         BuilderInVariant(f))

UnwrapBuilderInMessage(f) ==
  CASE f.repeated   -> UnwrapBuilderRepeated(f)
    [] IsVariant(f) -> Access(<<"wrap", f.oneof>>, <<"Builder", f.oneof>>)
    [] ~f.repeated /\ ~IsVariant(f) ->
         Access(<<IF f.type = "message" THEN "mutable" ELSE "set", InVariantGetter(f)>>,
                BuilderInner(f))

\* the values of a repeated enum are taken as they are
ToDynamic_EnumsAsTheyAre(f, getter, hasDynamic) ==
  CASE ~f.repeated /\ hasDynamic        -> <<"as_dynamic", getter>>
    [] ~f.repeated /\ ~hasDynamic       -> <<"value", getter>>
    [] f.repeated /\ f.type = "message" -> <<"repeated_ref_to_dynamic", getter>>
    [] f.repeated /\ f.type # "message" -> <<"repeated_to_dynamic", getter>>

(* The value of a field in as_dynamic(): the getter and what is made of it *)
ToDynamic(f, getter, hasDynamic) ==
  CASE ~f.repeated /\ hasDynamic  -> <<"as_dynamic", getter>>
    [] ~f.repeated /\ ~hasDynamic -> <<"value", getter>>
    [] f.repeated /\ hasDynamic   -> <<"repeated_ref_to_dynamic", getter>>
    [] f.repeated /\ ~hasDynamic  -> <<"repeated_to_dynamic", getter>>

ToDynamicInMessage(f) ==
  ToDynamic(f, InMessageGetter(f), f.type = "message" \/ IsVariant(f) \/ f.type = "enum")

ToDynamicInVariant(f) ==
  ToDynamic(f, InVariantGetter(f), f.type \in {"message", "enum"})

-----------------------------------------------------------------------------
(* The templates.  Each file is a record of sequences, in the order in     *)
(* which the lines are written.                                            *)
Slot(name, type)       == [name |-> name, type |-> type]
Fill(name, access)     == [name |-> name, through |-> access.through, type |-> access.type]
Call(name, slot)       == [name |-> name, slot |-> slot]
Each(fs, Of(_))        == [i \in DOMAIN fs |-> Of(fs[i])]

EachTwo(fs, One(_), Two(_)) ==
  [i \in 1..2 * Len(fs) |-> IF i % 2 = 1 THEN One(fs[(i + 1) \div 2]) ELSE Two(fs[i \div 2])]

SetSlot(f) ==
  IF HasBuilder(f) THEN <<"construct", InMessageGetter(f)>> ELSE <<"set", InMessageGetter(f)>>

OfEveryRef     == << <<"as_builder">>, <<"serialize">> >>
OfEveryBuilder == << <<"move_initialize_from">>, <<"deserialize">>, <<"as_ref">> >>

(* .h, vtables and classes; .h, templates; .cc; .pb.cc of a message *)
MessageHeader(fs) ==
  [ref     |-> Each(fs, LAMBDA f : Slot(<<InMessageGetter(f)>>, RefInMessage(f))),
   builder |-> Each(fs, LAMBDA f : Slot(SetSlot(f), BuilderInMessage(f))),
   layered |-> Each(Select(fs, LAMBDA f : ~IsVariant(f)), LAMBDA f :
                 Slot(<<InMessageGetter(f)>>,
                      IF HasBuilder(f) THEN LayeredBuilder(f) ELSE BuilderInMessage(f)))]

MessageTemplates(fs) ==
  [builder |-> Each(Select(fs, HasBuilder), LAMBDA f :
                 Call(<<"set", InMessageGetter(f)>>, <<"construct", InMessageGetter(f)>>)),
   layered |-> Each(Select(fs, LAMBDA f : ~IsVariant(f)), LAMBDA f :
                 Call(<<InMessageGetter(f)>>, SetSlot(f)))]

MessageSource(fs) ==
  [ref     |-> Each(fs, LAMBDA f : <<InMessageGetter(f)>>) \o OfEveryRef,
   dynamic |-> Each(fs, LAMBDA f : <<InVariantGetter(f), ToDynamicInMessage(f)>>),
   builder |-> Each(Select(fs, LAMBDA f : ~HasBuilder(f)),
                    LAMBDA f : <<"set", InMessageGetter(f)>>) \o OfEveryBuilder]

MessageSpec(fs) ==
  [ref     |-> Each(fs, LAMBDA f : Fill(<<InMessageGetter(f)>>, UnwrapInMessage(f))),
   builder |-> Each(fs, LAMBDA f : Fill(SetSlot(f), UnwrapBuilderInMessage(f)))]

(* The same of a oneof.  Its builder has a slot is_null, that is neither   *)
(* filled nor called.                                                      *)
VariantHeader(fs) ==
  [ref     |-> EachTwo(fs, LAMBDA f : Slot(<<"is", InVariantGetter(f)>>, <<"bool">>),
                           LAMBDA f : Slot(<<InVariantGetter(f)>>, RefInVariant(f))),
   builder |-> Each(fs, LAMBDA f : Slot(<<"set", InVariantGetter(f)>>,
                 IF f.type = "message" THEN <<"callback", BuilderInVariant(f)>>
                                       ELSE BuilderInVariant(f)))]

VariantSource(fs) ==
  [ref     |-> EachTwo(fs, LAMBDA f : <<"is", InVariantGetter(f)>>,
                           LAMBDA f : <<InVariantGetter(f)>>),
   dynamic |-> Each(fs, LAMBDA f : <<InVariantGetter(f), ToDynamicInVariant(f)>>),
   builder |-> Each(fs, LAMBDA f : <<"set", InVariantGetter(f)>>)]

VariantSpec(fs) ==
  [ref     |-> EachTwo(fs, LAMBDA f : Fill(<<"is", InVariantGetter(f)>>,
                                           Access(<<f.oneof, "case", f.name>>, <<"bool">>)),
                           LAMBDA f : Fill(<<InVariantGetter(f)>>, UnwrapInVariant(f))),
   builder |-> Each(fs, LAMBDA f :
                 Fill(<<"set", InVariantGetter(f)>>, UnwrapBuilderInVariant(f)))]

-----------------------------------------------------------------------------
(* The methods of a service *)
MethodSupported(m) == ~(m.client /\ m.server)

MethodCode(m) ==
  [kind     |-> IF m.server THEN "ServerStreaming"
                ELSE IF m.client THEN "ClientStreaming" ELSE "Unary",
   unit     |-> IF m.server THEN "stream_writer" ELSE IF m.client THEN "stream_reader" ELSE "unary",
   sync     |-> [request  |-> IF m.client THEN "RpcGenerator" ELSE "Ref",
                 response |-> IF m.server THEN "RpcGenerator" ELSE "RpcResult",
                 broken   |-> "as_broken"],
   async    |-> [request  |-> IF m.client THEN "RpcChannel" ELSE "Ref",
                 response |-> IF m.server THEN "RpcChannel" ELSE "RpcTask",
                 broken   |-> IF m.server THEN "as_broken_channel" ELSE "as_broken_task"]]

MethodClient(m) ==
  IF m.server THEN "stream_reader_client"
  ELSE IF m.client THEN "stream_writer_client" ELSE "rpc_unary_client"

-----------------------------------------------------------------------------
(* The messages that protoc accepts, with up to MaxFields fields: a map is *)
(* a repeated field, these are not in a oneof, and a oneof is one block.   *)
Fields ==
  {f \in [name : FieldNames, type : {"int64", "string", "enum", "message", "map"},
          of : {"other", none}, repeated : BOOLEAN, oneof : Oneofs \cup {none}] :
     /\ f.of = "other" <=> f.type \in {"enum", "message"}
     /\ f.type = "map" => f.repeated
     /\ f.repeated => f.oneof = none}

Init == fields = <<>>

AddField(f) ==
  /\ Len(fields) < MaxFields
  /\ \A g \in Range(fields) : g.name # f.name
  /\ IsVariant(f) /\ AllOf(fields, f.oneof) # <<>> => Last(fields).oneof = f.oneof
  /\ fields' = Append(fields, f)

Next == \E f \in Fields : AddField(f)

Spec == Init /\ [][Next]_fields

-----------------------------------------------------------------------------
TypeOK ==
  /\ fields \in Seq(Fields)
  /\ \A i, j \in 1..Len(fields) : fields[i].name = fields[j].name => i = j

Names(s) == [i \in DOMAIN s |-> s[i].name]

(* What a vtable declares is what the specification fills, in that order   *)
(* and without a repetition, with functions of the declared types.  The    *)
(* setter of an enum in a oneof is the exception: the cast does not        *)
(* compile.                                                                *)
Matches(declared, filled) ==
  /\ Names(declared) = Names(filled)
  /\ IsInjective(Names(declared))
  /\ \A i \in DOMAIN declared :
       \/ filled[i].type = declared[i].type
       \/ filled[i].type = <<"number">> /\ declared[i].type[1] = "Enum"

(* A value in as_dynamic() comes from a getter of the class, what is a Ref *)
(* or an Enum, and nothing else, is asked for its own as_dynamic(), and no *)
(* key comes twice.                                                        *)
DynamicMatches(declared, dynamic) ==
  /\ IsInjective([i \in DOMAIN dynamic |-> dynamic[i][1]])
  /\ \A i \in DOMAIN dynamic : \E d \in Range(declared) :
       LET made     == dynamic[i][2]
           repeated == d.type[1] = "repeated"
           one      == IF repeated THEN d.type[2] ELSE d.type
       IN  /\ d.name = <<made[2]>>
           /\ made[1] = CASE repeated /\ one[1] \in {"Ref", "Enum"}     -> "repeated_ref_to_dynamic"
                         [] repeated /\ one[1] \notin {"Ref", "Enum"}  -> "repeated_to_dynamic"
                         [] ~repeated /\ one[1] \in {"Ref", "Enum"}    -> "as_dynamic"
                         [] ~repeated /\ one[1] \notin {"Ref", "Enum"} -> "value"

Through(fills) == {fills[i].through : i \in DOMAIN fills}

(* A field that is read and written through an accessor of its own. *)
Reached(f, spec) ==
  \E r \in Through(spec.ref), w \in Through(spec.builder) :
    Escaped(f.name) \in Range(r) \cap Range(w)

MessageAgrees ==
  LET fs     == MessageFields(fields)
      header == MessageHeader(fs)
      templ  == MessageTemplates(fs)
      source == MessageSource(fs)
      spec   == MessageSpec(fs)
      called == Range(source.builder) \cup {c.slot : c \in Range(templ.builder)}
  IN  /\ Matches(header.ref, spec.ref) /\ Matches(header.builder, spec.builder)
      /\ source.ref = Names(header.ref) \o OfEveryRef
      /\ called = Range(Names(header.builder) \o OfEveryBuilder)
      /\ Names(header.layered) = Names(templ.layered)
      /\ \A c \in Range(templ.layered) : c.slot \in called
      /\ DynamicMatches(header.ref, source.dynamic)
      /\ \A f \in Range(fields) : IsSupported(f) /\ ~IsVariant(f) => Reached(f, spec)

VariantAgrees(oneof) ==
  LET fs     == Alternatives(fields, oneof)
      header == VariantHeader(fs)
      source == VariantSource(fs)
      spec   == VariantSpec(fs)
      whole  == <<"wrap", oneof>>
      parent == MessageSpec(MessageFields(fields))
  IN  /\ Matches(header.ref, spec.ref) /\ Matches(header.builder, spec.builder)
      /\ source.ref = Names(header.ref) /\ source.builder = Names(header.builder)
      /\ DynamicMatches(header.ref, source.dynamic)
      /\ whole \in Through(parent.ref) \cap Through(parent.builder)
      /\ \A f \in Range(fs) : Reached(f, spec)

(* For every message: the files agree on the slots, their order and their  *)
(* types, every slot is called by the class that has it, JSON is made of   *)
(* what the class can read, and every supported field is read and written  *)
(* through an accessor of its own.                                         *)
GeneratedCodeAgrees ==
  /\ MessageAgrees
  /\ \A f \in Range(fields) : IsVariant(f) => VariantAgrees(f.oneof)

=============================================================================
