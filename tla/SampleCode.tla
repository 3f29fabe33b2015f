---------------------------- MODULE SampleCode ----------------------------
(***************************************************************************)
(* The code that is checked in for examples/book/sample.proto, in          *)
(* examples/out/book, in the terms of CodeGenerator: for every message     *)
(* what the four parts of the code declare, call and fill, and for every   *)
(* method what its two calls take and return.  SampleIsGenerated says that *)
(* this is what the compiler writes.                                       *)
(*                                                                         *)
(* The slots that every message has (as_builder and serialize of the Ref,  *)
(* move_initialize_from, deserialize and as_ref of the Builder, move_from  *)
(* and done of the LayeredBuilder, is_null of a oneof) are left out.       *)
(***************************************************************************)
EXTENDS CodeGenerator

String == <<"string">>
View   == <<"string_view">>
Int64  == <<"int64">>

-----------------------------------------------------------------------------
(* A message of one field: of a scalar type, or of another message *)
ScalarHeader(name, ref, builder) ==
  [ref     |-> << Slot(<<name>>, ref) >>,
   builder |-> << Slot(<<"set", name>>, builder) >>,
   layered |-> << Slot(<<name>>, builder) >>]

ScalarTemplates(name) ==
  [builder |-> <<>>, layered |-> << Call(<<name>>, <<"set", name>>) >>]

ScalarSource(name) ==
  [ref     |-> << <<name>> >> \o OfEveryRef,
   dynamic |-> << <<name, <<"value", name>> >> >>,
   builder |-> << <<"set", name>> >> \o OfEveryBuilder]

ScalarSpec(name, ref, builder) ==
  [ref     |-> << Fill(<<name>>, Access(<<name>>, ref)) >>,
   builder |-> << Fill(<<"set", name>>, Access(<<"set", name>>, builder)) >>]

NestingHeader(name, of) ==
  [ref     |-> << Slot(<<name>>, <<"Ref", of>>) >>,
   builder |-> << Slot(<<"construct", name>>, <<"Builder", of>>) >>,
   layered |-> << Slot(<<name>>, <<"LayeredBuilder", of>>) >>]

NestingTemplates(name) ==
  [builder |-> << Call(<<"set", name>>, <<"construct", name>>) >>,
   layered |-> << Call(<<name>>, <<"construct", name>>) >>]

NestingSource(name) ==
  [ref     |-> << <<name>> >> \o OfEveryRef,
   dynamic |-> << <<name, <<"as_dynamic", name>> >> >>,
   builder |-> OfEveryBuilder]

NestingSpec(name, of) ==
  [ref     |-> << Fill(<<name>>, Access(<<"mutable", name>>, <<"Ref", of>>)) >>,
   builder |-> << Fill(<<"construct", name>>, Access(<<"mutable", name>>, <<"Builder", of>>)) >>]

-----------------------------------------------------------------------------
(* sample.yaz.h: the vtables and the classes *)
AuthorHeader             == ScalarHeader("name", View, String)
InsideOneOfMessageHeader == ScalarHeader("field", View, String)
GetBookRequestHeader     == ScalarHeader("isbn", Int64, Int64)
GetBookViaAuthorHeader   == ScalarHeader("author", View, String)
BookStoreHeader          == ScalarHeader("name", View, String)
CycleDep1Header          == NestingHeader("dep", "cycle_dep2")
CycleDep2Header          == NestingHeader("dep", "cycle_dep1")

PageHeader ==
  [ref     |-> << Slot(<<"lines">>, <<"repeated", View>>) >>,
   builder |-> << Slot(<<"construct", "lines">>, <<"VecBuilder", String>>) >>,
   layered |-> << Slot(<<"lines">>, <<"VecLayeredBuilder", String>>) >>]

FirstOneofHeader ==
  [ref     |-> << Slot(<<"is", "first_oneof_string">>, <<"bool">>), Slot(<<"first_oneof_string">>, View),
                  Slot(<<"is", "first_oneof_int">>, <<"bool">>), Slot(<<"first_oneof_int">>, Int64) >>,
   builder |-> << Slot(<<"set", "first_oneof_string">>, String),
                  Slot(<<"set", "first_oneof_int">>, Int64) >>]

SecondOneofHeader ==
  [ref     |-> << Slot(<<"is", "second_oneof_string">>, <<"bool">>), Slot(<<"second_oneof_string">>, View),
                  Slot(<<"is", "second_oneof_int">>, <<"bool">>), Slot(<<"second_oneof_int">>, Int64),
                  Slot(<<"is", "second_oneof_message">>, <<"bool">>),
                  Slot(<<"second_oneof_message">>, <<"Ref", "inside_one_of_message">>) >>,
   builder |-> << Slot(<<"set", "second_oneof_string">>, String),
                  Slot(<<"set", "second_oneof_int">>, Int64),
                  Slot(<<"set", "second_oneof_message">>,
                       <<"callback", <<"Builder", "inside_one_of_message">> >>) >>]

BookRef ==
  << Slot(<<"isbn">>, Int64), Slot(<<"title">>, View), Slot(<<"author">>, <<"Ref", "author">>),
     Slot(<<"pages">>, <<"repeated", <<"Ref", "page">> >>),
     Slot(<<"first_oneof">>, <<"Ref", "first_oneof">>),
     Slot(<<"availability">>, <<"Enum", "availability">>),
     Slot(<<"recommended">>, <<"Enum", "can_recommend">>),
     Slot(<<"second_oneof">>, <<"Ref", "second_oneof">>) >>

BookBuilder ==
  << Slot(<<"set", "isbn">>, Int64), Slot(<<"set", "title">>, String),
     Slot(<<"construct", "author">>, <<"Builder", "author">>),
     Slot(<<"construct", "pages">>, <<"VecEntityBuilder", <<"Builder", "page">> >>),
     Slot(<<"construct", "first_oneof">>, <<"Builder", "first_oneof">>),
     Slot(<<"set", "availability">>, <<"Enum", "availability">>),
     Slot(<<"set", "recommended">>, <<"Enum", "can_recommend">>),
     Slot(<<"construct", "second_oneof">>, <<"Builder", "second_oneof">>) >>

BookLayered ==
  << Slot(<<"isbn">>, Int64), Slot(<<"title">>, String),
     Slot(<<"author">>, <<"LayeredBuilder", "author">>),
     Slot(<<"pages">>, <<"VecEntityLayeredBuilder", "page">>),
     Slot(<<"availability">>, <<"Enum", "availability">>),
     Slot(<<"recommended">>, <<"Enum", "can_recommend">>) >>

BookHeader == [ref |-> BookRef, builder |-> BookBuilder, layered |-> BookLayered]

-----------------------------------------------------------------------------
(* sample.yaz.h: the templates of the builders *)
AuthorTemplates             == ScalarTemplates("name")
InsideOneOfMessageTemplates == ScalarTemplates("field")
GetBookRequestTemplates     == ScalarTemplates("isbn")
GetBookViaAuthorTemplates   == ScalarTemplates("author")
BookStoreTemplates          == ScalarTemplates("name")
PageTemplates               == NestingTemplates("lines")
CycleDep1Templates          == NestingTemplates("dep")
CycleDep2Templates          == NestingTemplates("dep")

BookTemplates ==
  [builder |-> << Call(<<"set", "author">>, <<"construct", "author">>),
                  Call(<<"set", "pages">>, <<"construct", "pages">>),
                  Call(<<"set", "first_oneof">>, <<"construct", "first_oneof">>),
                  Call(<<"set", "second_oneof">>, <<"construct", "second_oneof">>) >>,
   layered |-> << Call(<<"isbn">>, <<"set", "isbn">>), Call(<<"title">>, <<"set", "title">>),
                  Call(<<"author">>, <<"construct", "author">>),
                  Call(<<"pages">>, <<"construct", "pages">>),
                  Call(<<"availability">>, <<"set", "availability">>),
                  Call(<<"recommended">>, <<"set", "recommended">>) >>]

-----------------------------------------------------------------------------
(* sample.yaz.cc *)
AuthorSource             == ScalarSource("name")
InsideOneOfMessageSource == ScalarSource("field")
GetBookRequestSource     == ScalarSource("isbn")
GetBookViaAuthorSource   == ScalarSource("author")
BookStoreSource          == ScalarSource("name")
CycleDep1Source          == NestingSource("dep")
CycleDep2Source          == NestingSource("dep")

PageSource ==
  [ref     |-> << <<"lines">> >> \o OfEveryRef,
   dynamic |-> << <<"lines", <<"repeated_to_dynamic", "lines">> >> >>,
   builder |-> OfEveryBuilder]

FirstOneofSource ==
  [ref     |-> << <<"is", "first_oneof_string">>, <<"first_oneof_string">>,
                  <<"is", "first_oneof_int">>, <<"first_oneof_int">> >>,
   dynamic |-> << <<"first_oneof_string", <<"value", "first_oneof_string">> >>,
                  <<"first_oneof_int", <<"value", "first_oneof_int">> >> >>,
   builder |-> << <<"set", "first_oneof_string">>, <<"set", "first_oneof_int">> >>]

SecondOneofSource ==
  [ref     |-> << <<"is", "second_oneof_string">>, <<"second_oneof_string">>,
                  <<"is", "second_oneof_int">>, <<"second_oneof_int">>,
                  <<"is", "second_oneof_message">>, <<"second_oneof_message">> >>,
   dynamic |-> << <<"second_oneof_string", <<"value", "second_oneof_string">> >>,
                  <<"second_oneof_int", <<"value", "second_oneof_int">> >>,
                  <<"second_oneof_message", <<"as_dynamic", "second_oneof_message">> >> >>,
   builder |-> << <<"set", "second_oneof_string">>, <<"set", "second_oneof_int">>,
                  <<"set", "second_oneof_message">> >>]

BookSource ==
  [ref     |-> << <<"isbn">>, <<"title">>, <<"author">>, <<"pages">>, <<"first_oneof">>,
                  <<"availability">>, <<"recommended">>, <<"second_oneof">> >> \o OfEveryRef,
   dynamic |-> << <<"isbn", <<"value", "isbn">> >>, <<"title", <<"value", "title">> >>,
                  <<"author", <<"as_dynamic", "author">> >>,
                  <<"pages", <<"repeated_ref_to_dynamic", "pages">> >>,
                  <<"first_oneof_string", <<"as_dynamic", "first_oneof">> >>,
                  <<"availability", <<"as_dynamic", "availability">> >>,
                  <<"recommended", <<"as_dynamic", "recommended">> >>,
                  <<"second_oneof_string", <<"as_dynamic", "second_oneof">> >> >>,
   builder |-> << <<"set", "isbn">>, <<"set", "title">>, <<"set", "availability">>,
                  <<"set", "recommended">> >> \o OfEveryBuilder]

-----------------------------------------------------------------------------
(* sample.yaz.pb.cc *)
AuthorSpec             == ScalarSpec("name", View, String)
InsideOneOfMessageSpec == ScalarSpec("field", View, String)
GetBookRequestSpec     == ScalarSpec("isbn", Int64, Int64)
GetBookViaAuthorSpec   == ScalarSpec("author", View, String)
BookStoreSpec          == ScalarSpec("name", View, String)
CycleDep1Spec          == NestingSpec("dep", "cycle_dep2")
CycleDep2Spec          == NestingSpec("dep", "cycle_dep1")

PageSpec ==
  [ref     |-> << Fill(<<"lines">>, Access(<<"lines">>, <<"repeated", View>>)) >>,
   builder |-> << Fill(<<"construct", "lines">>, Access(<<"add", "lines">>, <<"VecBuilder", String>>)) >>]

IsCase(oneof, name) == Fill(<<"is", name>>, Access(<<oneof, "case", name>>, <<"bool">>))
SetTo(name, type)   == Fill(<<"set", name>>, Access(<<"set", name>>, type))
Read(name, type)    == Fill(<<name>>, Access(<<name>>, type))

FirstOneofSpec ==
  [ref     |-> << IsCase("first_oneof", "first_oneof_string"), Read("first_oneof_string", View),
                  IsCase("first_oneof", "first_oneof_int"), Read("first_oneof_int", Int64) >>,
   builder |-> << SetTo("first_oneof_string", String), SetTo("first_oneof_int", Int64) >>]

SecondOneofSpec ==
  [ref     |-> << IsCase("second_oneof", "second_oneof_string"), Read("second_oneof_string", View),
                  IsCase("second_oneof", "second_oneof_int"), Read("second_oneof_int", Int64),
                  IsCase("second_oneof", "second_oneof_message"),
                  Fill(<<"second_oneof_message">>, Access(<<"mutable", "second_oneof_message">>,
                       <<"Ref", "inside_one_of_message">>)) >>,
   builder |-> << SetTo("second_oneof_string", String), SetTo("second_oneof_int", Int64),
                  Fill(<<"set", "second_oneof_message">>, Access(<<"mutable", "second_oneof_message">>,
                       <<"callback", <<"Builder", "inside_one_of_message">> >>)) >>]

BookReads ==
  << Read("isbn", Int64), Read("title", View),
     Fill(<<"author">>, Access(<<"mutable", "author">>, <<"Ref", "author">>)),
     Fill(<<"pages">>, Access(<<"mutable", "pages">>, <<"repeated", <<"Ref", "page">> >>)),
     Fill(<<"first_oneof">>, Access(<<"wrap", "first_oneof">>, <<"Ref", "first_oneof">>)),
     Read("availability", <<"Enum", "availability">>),
     Read("recommended", <<"Enum", "can_recommend">>),
     Fill(<<"second_oneof">>, Access(<<"wrap", "second_oneof">>, <<"Ref", "second_oneof">>)) >>

BookWrites ==
  << SetTo("isbn", Int64), SetTo("title", String),
     Fill(<<"construct", "author">>, Access(<<"mutable", "author">>, <<"Builder", "author">>)),
     Fill(<<"construct", "pages">>, Access(<<"mutable", "pages", "Add">>,
          <<"VecEntityBuilder", <<"Builder", "page">> >>)),
     Fill(<<"construct", "first_oneof">>, Access(<<"wrap", "first_oneof">>, <<"Builder", "first_oneof">>)),
     SetTo("availability", <<"Enum", "availability">>),
     SetTo("recommended", <<"Enum", "can_recommend">>),
     Fill(<<"construct", "second_oneof">>, Access(<<"wrap", "second_oneof">>, <<"Builder", "second_oneof">>)) >>

BookSpec == [ref |-> BookReads, builder |-> BookWrites]

-----------------------------------------------------------------------------
(* sample.yaz.rpc.h: the methods of BookService, bidirectional GetBooks    *)
(* not among them                                                          *)
GetBookCode ==
  [kind |-> "Unary", unit |-> "unary",
   sync |-> [request |-> "Ref", response |-> "RpcResult", broken |-> "as_broken"],
   async |-> [request |-> "Ref", response |-> "RpcTask", broken |-> "as_broken_task"]]

GetBooksViaAuthorCode ==
  [kind |-> "ServerStreaming", unit |-> "stream_writer",
   sync |-> [request |-> "Ref", response |-> "RpcGenerator", broken |-> "as_broken"],
   async |-> [request |-> "Ref", response |-> "RpcChannel", broken |-> "as_broken_channel"]]

GetGreatestBookCode ==
  [kind |-> "ClientStreaming", unit |-> "stream_reader",
   sync |-> [request |-> "RpcGenerator", response |-> "RpcResult", broken |-> "as_broken"],
   async |-> [request |-> "RpcChannel", response |-> "RpcTask", broken |-> "as_broken_task"]]

(* sample.yaz.rpc.client.h *)
Clients == <<"rpc_unary_client", "stream_reader_client", "stream_writer_client">>

-----------------------------------------------------------------------------
(* sample.proto *)
Plain(name, type)      == [name |-> name, type |-> type, of |-> none, repeated |-> FALSE, oneof |-> none]
Of(name, type, of)     == [Plain(name, type) EXCEPT !.of = of]
Repeated(f)            == [f EXCEPT !.repeated = TRUE]
InOneof(oneof, f)      == [f EXCEPT !.oneof = oneof]

OneString(name) == << Plain(name, "string") >>

BookFields ==
  << Plain("isbn", "int64"), Plain("title", "string"), Of("author", "message", "author"),
     Repeated(Of("pages", "message", "page")),
     InOneof("first_oneof", Plain("first_oneof_string", "string")),
     InOneof("first_oneof", Plain("first_oneof_int", "int64")),
     Of("availability", "enum", "availability"), Of("recommended", "enum", "can_recommend"),
     InOneof("second_oneof", Plain("second_oneof_string", "string")),
     InOneof("second_oneof", Plain("second_oneof_int", "int64")),
     InOneof("second_oneof", Of("second_oneof_message", "message", "inside_one_of_message")) >>

StoreFields == OneString("name") \o << Repeated(Plain("books", "map")) >>

MessageIs(fs, header, templates, source, spec) ==
  LET mf == MessageFields(fs)
  IN  /\ MessageHeader(mf) = header /\ MessageTemplates(mf) = templates
      /\ MessageSource(mf) = source /\ MessageSpec(mf) = spec

VariantIs(fs, oneof, header, source, spec) ==
  LET alts == Alternatives(fs, oneof)
  IN  VariantHeader(alts) = header /\ VariantSource(alts) = source /\ VariantSpec(alts) = spec

Method(client, server) == [client |-> client, server |-> server]

Methods == Select(<< Method(FALSE, FALSE), Method(FALSE, TRUE), Method(TRUE, FALSE),
                        Method(TRUE, TRUE) >>, MethodSupported)

(* The code checked in is the code the compiler writes for sample.proto.   *)
SampleIsGenerated ==
  /\ MessageIs(OneString("name"), AuthorHeader, AuthorTemplates, AuthorSource, AuthorSpec)
  /\ MessageIs(OneString("field"), InsideOneOfMessageHeader, InsideOneOfMessageTemplates,
               InsideOneOfMessageSource, InsideOneOfMessageSpec)
  /\ MessageIs(<< Repeated(Plain("lines", "string")) >>, PageHeader, PageTemplates, PageSource, PageSpec)
  /\ MessageIs(BookFields, BookHeader, BookTemplates, BookSource, BookSpec)
  /\ VariantIs(BookFields, "first_oneof", FirstOneofHeader, FirstOneofSource, FirstOneofSpec)
  /\ VariantIs(BookFields, "second_oneof", SecondOneofHeader, SecondOneofSource, SecondOneofSpec)
  /\ MessageIs(<< Plain("isbn", "int64") >>, GetBookRequestHeader, GetBookRequestTemplates,
               GetBookRequestSource, GetBookRequestSpec)
  /\ MessageIs(OneString("author"), GetBookViaAuthorHeader, GetBookViaAuthorTemplates,
               GetBookViaAuthorSource, GetBookViaAuthorSpec)
  /\ MessageIs(StoreFields, BookStoreHeader, BookStoreTemplates, BookStoreSource, BookStoreSpec)
  /\ MessageIs(<< Of("dep", "message", "cycle_dep2") >>, CycleDep1Header, CycleDep1Templates,
               CycleDep1Source, CycleDep1Spec)
  /\ MessageIs(<< Of("dep", "message", "cycle_dep1") >>, CycleDep2Header, CycleDep2Templates,
               CycleDep2Source, CycleDep2Spec)
  /\ Each(Methods, MethodCode) = << GetBookCode, GetBooksViaAuthorCode, GetGreatestBookCode >>
  /\ Each(Methods, MethodClient) = Clients

=============================================================================
