----------------------------- MODULE BookEntity -----------------------------
(***************************************************************************)
(* The messages a call carries, on the example of com.book.Book: what      *)
(* protoc generates (examples/out/book/sample.pb.h, .cc) as one program    *)
(* sees it through what the compiler of this repository generates on top,  *)
(* the classes Ref to read and Builder to change it (sample.yaz.cc,        *)
(* sample.yaz.pb.cc).  Several of the reads of a Ref are implemented with  *)
(* the mutable_ accessor of the message, so that reading changes it.       *)
(*                                                                         *)
(* A message nested in the book (Author, Page, InsideOneOfMessage) has one *)
(* field, and is its value; a page without lines is default.  Bytes are a  *)
(* sequence of entries, each a tag and a body, the values in it.           *)
(***************************************************************************)
EXTENDS Naturals, Sequences, SequencesExt, Lists

CONSTANTS
  Books,        \* the messages the program has
  Values,       \* of the fields
  default,      \* 0 or the empty string, which proto3 does not distinguish from unset
  nullptr,      \* author_ of a book without author
  MaxOps        \* bound: operations in a behaviour

BookAssumption == default \in Values /\ nullptr \notin Values /\ MaxOps \in Nat

VARIABLES
  book,         \* book[b] : the fields of b
  wire,         \* the bytes of the last serialize()
  op,           \* what the last operation was: "read", "write", "parse", "unset"
  ops           \* how many there were

bookVars == <<book, wire, op, ops>>

FirstAlternatives  == {"first_oneof_string", "first_oneof_int"}
SecondAlternatives == {"second_oneof_string", "second_oneof_int", "second_oneof_message"}
Scalars == {"isbn", "title", "availability", "recommended"}

NotSet == [alt |-> "NOT_SET", value |-> default]

Empty ==
  [isbn |-> default, title |-> default, author |-> nullptr, pages |-> <<>>,
   first_oneof |-> NotSet, availability |-> default, recommended |-> default,
   second_oneof |-> NotSet]

-----------------------------------------------------------------------------
(* The accessors of the generated message *)
SetScalar(m, field, v) == [m EXCEPT ![field] = v]

MutableAuthor(m) == IF m.author = nullptr THEN [m EXCEPT !.author = default] ELSE m

AddPage(m, v) == [m EXCEPT !.pages = Append(@, v)]

(* Setting an alternative clears the one that was set. *)
SetFirst(m, alt, v)  == [m EXCEPT !.first_oneof  = [alt |-> alt, value |-> v]]
SetSecond(m, alt, v) == [m EXCEPT !.second_oneof = [alt |-> alt, value |-> v]]

MutableMessage(m) ==
  IF m.second_oneof.alt = "second_oneof_message" THEN m
  ELSE SetSecond(m, "second_oneof_message", default)

-----------------------------------------------------------------------------
(* MergeFrom, of a message of one field and of the book *)
MergeField(v, from) == IF from # default THEN from ELSE v

MergeFrom(m, from) ==
  LET author == [MutableAuthor(m) EXCEPT !.author = MergeField(@, from.author)].author
      inner  == [MutableMessage(m) EXCEPT !.second_oneof.value =
                   MergeField(@, from.second_oneof.value)].second_oneof
  IN  [m EXCEPT
         !.isbn   = MergeField(@, from.isbn),
         !.title  = MergeField(@, from.title),
         !.author = IF from.author = nullptr THEN @ ELSE author,
         !.pages  = @ \o from.pages,
         !.first_oneof  = IF from.first_oneof = NotSet THEN @ ELSE from.first_oneof,
         !.availability = MergeField(@, from.availability),
         !.recommended  = MergeField(@, from.recommended),
         !.second_oneof = IF from.second_oneof = NotSet THEN @
                          ELSE IF from.second_oneof.alt = "second_oneof_message" THEN inner
                          ELSE from.second_oneof]

-----------------------------------------------------------------------------
(* Bytes *)
InnerEntries(v) == IF v = default THEN <<>> ELSE <<v>>

ScalarEntry(m, field) ==
  IF m[field] = default THEN <<>> ELSE << [tag |-> field, body |-> <<m[field]>>] >>

AuthorEntry(m) ==
  IF m.author = nullptr THEN <<>>
  ELSE << [tag |-> "author", body |-> InnerEntries(m.author)] >>

\* an alternative that holds the default value is left out, like a scalar
OneofEntry_OmitsDefault(oneof) ==
  IF oneof.value = default THEN <<>> ELSE << [tag |-> oneof.alt, body |-> <<oneof.value>>] >>

(* An alternative is written also when its value is the default. *)
OneofEntry(oneof) ==
  IF oneof.alt = "NOT_SET" THEN <<>>
  ELSE << [tag  |-> oneof.alt,
           body |-> IF oneof.alt = "second_oneof_message"
                      THEN InnerEntries(oneof.value) ELSE <<oneof.value>>] >>

(* _InternalSerialize: in the order of the field numbers. *)
Entries(m) ==
  ScalarEntry(m, "isbn") \o ScalarEntry(m, "title") \o AuthorEntry(m) \o
  [i \in 1..Len(m.pages) |-> [tag |-> "pages", body |-> InnerEntries(m.pages[i])]] \o
  OneofEntry(m.first_oneof) \o
  ScalarEntry(m, "availability") \o ScalarEntry(m, "recommended") \o
  OneofEntry(m.second_oneof)

InnerParse(v, body) == IF body = <<>> THEN v ELSE Last(body)

(* One round of the loop of _InternalParse. *)
ParseEntry(m, e) ==
  CASE e.tag \in Scalars -> SetScalar(m, e.tag, Last(e.body))
    [] e.tag = "author"  -> [MutableAuthor(m) EXCEPT !.author = InnerParse(@, e.body)]
    [] e.tag = "pages"   -> AddPage(m, InnerParse(default, e.body))
    [] e.tag \in FirstAlternatives -> SetFirst(m, e.tag, Last(e.body))
    [] e.tag = "second_oneof_message" ->
         [MutableMessage(m) EXCEPT !.second_oneof.value = InnerParse(@, e.body)]
    [] e.tag \in SecondAlternatives \ {"second_oneof_message"} ->
         SetSecond(m, e.tag, Last(e.body))

(* The loop: the message after each round. *)
Parse(m, entries) ==
  LET parsed[n \in 0..Len(entries)] ==
        IF n = 0 THEN m ELSE ParseEntry(parsed[n - 1], entries[n])
  IN  parsed[Len(entries)]

(* ByteSizeLong, with a byte for each tag and length and each value. *)
InnerSize(v) == IF v = default THEN 0 ELSE 1

ByteSize(m) ==
  LET Scalar(f)  == IF m[f] = default THEN 0 ELSE 2
      Pages      == Total([i \in 1..Len(m.pages) |-> 1 + InnerSize(m.pages[i])])
      Author     == IF m.author = nullptr THEN 0 ELSE 1 + InnerSize(m.author)
      Oneof(one) == IF one.alt = "NOT_SET" THEN 0
                    ELSE IF one.alt = "second_oneof_message" THEN 1 + InnerSize(one.value)
                    ELSE 2
  IN  Pages + Scalar("title") + Author + Scalar("isbn") + Scalar("availability") +
      Scalar("recommended") + Oneof(m.first_oneof) + Oneof(m.second_oneof)

-----------------------------------------------------------------------------
Init ==
  /\ book = [b \in Books |-> Empty]
  /\ wire = <<>>
  /\ op   = "write"
  /\ ops  = 0

Becomes(b, m, kind) ==
  /\ ops < MaxOps
  /\ ops'  = ops + 1
  /\ op'   = kind
  /\ book' = [book EXCEPT ![b] = m]

(* Builder: set_isbn, set_title, set_availability, set_recommended *)
BuildScalar(b) ==
  \E field \in Scalars, v \in Values :
    Becomes(b, SetScalar(book[b], field, v), "write") /\ UNCHANGED wire

(* set_author(clbk): the callback may set the name of the author. *)
BuildAuthor(b) ==
  LET m == MutableAuthor(book[b])
  IN  \E v \in Values \cup {m.author} :
        Becomes(b, [m EXCEPT !.author = v], "write") /\ UNCHANGED wire

(* set_pages(clbk), pages.push_back(...) *)
BuildPage(b) ==
  \E v \in Values : Becomes(b, AddPage(book[b], v), "write") /\ UNCHANGED wire

BuildFirst(b) ==
  \E alt \in FirstAlternatives, v \in Values :
    Becomes(b, SetFirst(book[b], alt, v), "write") /\ UNCHANGED wire

BuildSecond(b) ==
  \/ \E alt \in SecondAlternatives \ {"second_oneof_message"}, v \in Values :
       Becomes(b, SetSecond(book[b], alt, v), "write") /\ UNCHANGED wire
  \/ LET m == MutableMessage(book[b])
     IN  \E v \in Values \cup {m.second_oneof.value} :
           Becomes(b, SetSecond(m, "second_oneof_message", v), "write") /\ UNCHANGED wire

(* move_initialize_from: the two swap. *)
MoveInitializeFrom(b, c) ==
  /\ b # c
  /\ ops < MaxOps
  /\ ops'  = ops + 1
  /\ op'   = "write"
  /\ book' = [book EXCEPT ![b] = book[c], ![c] = book[b]]
  /\ UNCHANGED wire

CopyFrom(b, c) ==
  b # c /\ Becomes(b, MergeFrom(Empty, book[c]), "write") /\ UNCHANGED wire

(* deserialize: ParseFromArray clears first.  It fails when the bytes end  *)
(* in the middle of an entry, whose field may then hold anything.          *)
Deserialize(b) ==
  /\ UNCHANGED wire
  /\ \/ Becomes(b, Parse(Empty, wire), "parse")
     \/ \E n \in 1..Len(wire), v \in Values :
          LET m == Parse(Empty, SubSeq(wire, 1, n - 1))
          IN  \/ Becomes(b, m, "parse")
              \/ Becomes(b, ParseEntry(m, [wire[n] EXCEPT !.body = <<v>>]), "parse")

(* Ref: the reads.  author() is mutable_author() of the message. *)
ReadAuthor(b) == Becomes(b, MutableAuthor(book[b]), "read") /\ UNCHANGED wire

(* second_oneof_message() is mutable_second_oneof_message(), for a caller  *)
(* that has asked is_second_oneof_message() and for one that has not.      *)
ReadMessage(b) ==
  /\ Becomes(b, MutableMessage(book[b]),
             IF book[b].second_oneof.alt = "second_oneof_message" THEN "read" ELSE "unset")
  /\ UNCHANGED wire

\* as_dynamic() of the oneof asks for the message whatever is set
AsDynamic_Unguarded(b) ==
  Becomes(b, MutableMessage(MutableAuthor(book[b])), "read") /\ UNCHANGED wire

(* as_dynamic, of which to_json is made: it reads everything, of a oneof   *)
(* the alternative that is set.                                            *)
AsDynamic(b) ==
  LET m == MutableAuthor(book[b])
  IN  /\ Becomes(b, IF m.second_oneof.alt = "second_oneof_message"
                      THEN MutableMessage(m) ELSE m, "read")
      /\ UNCHANGED wire

(* serialize() writes as many bytes as ByteSizeLong() has announced. *)
Serialize(b) == Becomes(b, book[b], "read") /\ wire' = Entries(book[b])

Next ==
  \E b \in Books :
    \/ BuildScalar(b) \/ BuildAuthor(b) \/ BuildPage(b) \/ BuildFirst(b) \/ BuildSecond(b)
    \/ \E c \in Books : MoveInitializeFrom(b, c) \/ CopyFrom(b, c)
    \/ Deserialize(b)
    \/ ReadAuthor(b) \/ ReadMessage(b) \/ AsDynamic(b) \/ Serialize(b)

Spec == Init /\ [][Next]_bookVars

-----------------------------------------------------------------------------
Oneof(alternatives) == {NotSet} \cup [alt : alternatives, value : Values]

Messages ==
  [isbn : Values, title : Values, author : Values \cup {nullptr}, pages : Seq(Values),
   first_oneof : Oneof(FirstAlternatives), availability : Values, recommended : Values,
   second_oneof : Oneof(SecondAlternatives)]

(* Only the entry of a nested message may have an empty body. *)
NestedTags == {"author", "pages", "second_oneof_message"}
Tags       == Scalars \cup NestedTags \cup FirstAlternatives \cup SecondAlternatives
WireEntries ==
  {e \in [tag : Tags, body : {<<>>} \cup {<<v>> : v \in Values}] :
     e.tag \notin NestedTags => e.body # <<>>}

TypeOK ==
  /\ book \in [Books -> Messages]
  /\ wire \in Seq(WireEntries)
  /\ op \in {"read", "write", "parse", "unset"}
  /\ ops \in 0..MaxOps

(* The bytes of one book after those of another are the book that          *)
(* MergeFrom makes of the two; so bytes restore the book they were made    *)
(* of, with its default alternatives and its empty author, and their       *)
(* number is the one that ByteSizeLong computes on its own.                *)
WireFaithful ==
  \A b, c \in Books :
    LET x == book[b]
        y == book[c]
    IN  /\ Parse(Empty, Entries(x)) = x
        /\ Parse(Empty, Entries(x) \o Entries(y)) = MergeFrom(x, y)
        /\ ByteSize(x) = Total([i \in 1..Len(Entries(x)) |-> 1 + Len(Entries(x)[i].body)])

(* What the reads of a Ref return, an absent author being an unnamed one. *)
Contents(m) == [m EXCEPT !.author = IF @ = nullptr THEN default ELSE @]

(* A read of a Ref, though it goes through mutable_ accessors, leaves what *)
(* every read returns as it was; except second_oneof_message() of a caller *)
(* that did not ask which alternative is set.                              *)
ReadsKeepContents ==
  [][op' = "read" => \A b \in Books : Contents(book'[b]) = Contents(book[b])]_bookVars

=============================================================================
