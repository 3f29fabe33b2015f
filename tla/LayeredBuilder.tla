--------------------------- MODULE LayeredBuilder ---------------------------
(***************************************************************************)
(* Chains of builders over a message, as in                                *)
(*   response.author().name(..).done().pages().push().lines().push(..)     *)
(*     .done().done().done()                                               *)
(* Each call returns by value a builder of its own, which points to the    *)
(* message it changes and to the builder the chain came from (sample.yaz.h *)
(* LayeredBuilder, support.hpp VecEntityLayeredBuilder); done() returns a  *)
(* copy of the latter.  Only VecLayeredBuilder, of the lines of a page,    *)
(* holds that builder by value.  The builders of a statement die at its    *)
(* end; the last one may be saved in a variable and used in another        *)
(* statement.  move_from exchanges the contents of two messages, while     *)
(* builders of the messages inside are alive.                              *)
(***************************************************************************)
EXTENDS Naturals, Sequences, SequencesExt, FiniteSets

CONSTANTS
  nullptr,
  MaxCalls,     \* bound: calls in a behaviour
  MaxSaved      \* bound: builders saved in variables

LayeredAssumption == nullptr \notin Nat /\ MaxCalls \in Nat /\ MaxSaved \in Nat

VARIABLES
  heap,         \* the messages by address; heap[a] : author and pages of a book
  obj,          \* the living builders by their identity
  temps,        \* those that die at the end of the statement
  cur,          \* what the last call of the statement returned, 0 between statements
  calls

layeredVars == <<heap, obj, temps, cur, calls>>

Response == 1           \* address of the message of the response, and its builder
Other    == 2           \* a message of the same type
Roots    == {Response, Other}

Blank == [author |-> nullptr, pages |-> <<>>]

(* A builder: the message it changes, the builder it came from (for lines, *)
(* the one its page came from), and where the caller takes it to be: the   *)
(* root and the calls from there.  When it is loose, the builder it came   *)
(* from was a temporary of an earlier statement.                           *)
Builder(ptr, parent, root, path) ==
  [ptr |-> ptr, parent |-> parent, root |-> root, path |-> path, loose |-> FALSE]

Kind(b) == IF b.path = <<>> THEN "book" ELSE Last(b.path)[1]

Saved == DOMAIN obj \ temps

NewId == CHOOSE id \in 1..(Cardinality(DOMAIN obj) + 1) : id \notin DOMAIN obj
NewAddress == Cardinality(DOMAIN heap) + 1

Extend(f, x, y) == [z \in DOMAIN f \cup {x} |-> IF z = x THEN y ELSE f[z]]

-----------------------------------------------------------------------------
Init ==
  /\ heap  = [a \in 1..4 |-> IF a = Other THEN [author |-> 3, pages |-> <<4>>] ELSE Blank]
  /\ obj   = [id \in {1} |-> Builder(Response, nullptr, Response, <<>>)]
  /\ temps = {}
  /\ cur   = 0
  /\ calls = 0

(* A statement begins with a variable. *)
Start(id) ==
  /\ cur = 0 /\ id \in Saved /\ calls < MaxCalls
  /\ cur' = id
  /\ UNCHANGED <<heap, obj, temps, calls>>

(* A call on cur, which returns the builder b. *)
Returns(b) ==
  /\ cur # 0 /\ calls < MaxCalls
  /\ calls' = calls + 1
  /\ obj'   = Extend(obj, NewId, b)
  /\ temps' = temps \cup {NewId}
  /\ cur'   = NewId

Nested(ptr, step) == Builder(ptr, cur, obj[cur].root, Append(obj[cur].path, step))

\* author(): a new author, as if none was there
Author_CreatesAnother ==
  /\ cur # 0 /\ Kind(obj[cur]) = "book"
  /\ heap' = [Extend(heap, NewAddress, Blank) EXCEPT ![obj[cur].ptr].author = NewAddress]
  /\ Returns(Nested(NewAddress, <<"author">>))

(* author(): construct_author_builder, by mutable_author(). *)
Author ==
  /\ cur # 0 /\ Kind(obj[cur]) = "book"
  /\ LET book == obj[cur].ptr
         here == heap[book].author
     IN  IF here = nullptr
           THEN /\ heap' = [Extend(heap, NewAddress, Blank) EXCEPT ![book].author = NewAddress]
                /\ Returns(Nested(NewAddress, <<"author">>))
           ELSE /\ UNCHANGED heap
                /\ Returns(Nested(here, <<"author">>))

(* pages() *)
Pages ==
  /\ cur # 0 /\ Kind(obj[cur]) = "book"
  /\ UNCHANGED heap
  /\ Returns(Nested(obj[cur].ptr, <<"pages">>))

(* VecEntityLayeredBuilder::push(): mutable_pages()->Add(). *)
Push ==
  /\ cur # 0 /\ Kind(obj[cur]) = "pages"
  /\ LET book == obj[cur].ptr
     IN  /\ heap' = [Extend(heap, NewAddress, Blank) EXCEPT ![book].pages = Append(@, NewAddress)]
         /\ Returns(Nested(NewAddress, <<"page", Len(heap[book].pages) + 1>>))

(* lines(): the page's builder is moved into the new one. *)
Lines ==
  /\ cur # 0 /\ Kind(obj[cur]) = "page"
  /\ UNCHANGED heap
  /\ Returns([obj[cur] EXCEPT !.path = Append(@, <<"lines">>)])

(* done(): the page's builder moved out again, or a copy of the parent,    *)
(* which a caller does not ask of a loose builder.                         *)
Done ==
  /\ cur # 0 /\ UNCHANGED heap
  /\ \/ /\ Kind(obj[cur]) = "lines"
        /\ Returns([obj[cur] EXCEPT !.path = Front(@)])
     \/ /\ Kind(obj[cur]) \in {"author", "pages", "page"}
        /\ ~obj[cur].loose
        /\ Returns(obj[obj[cur].parent])

(* move_from(r) of a book: the contents are exchanged.  The builders of    *)
(* what is inside go with it.                                              *)
MoveFrom(other) ==
  /\ cur # 0 /\ Kind(obj[cur]) = "book" /\ calls < MaxCalls
  /\ other \in Roots \ {obj[cur].ptr}
  /\ LET this == obj[cur].ptr
         Elsewhere(b) == [b EXCEPT !.root = CASE b.root = this  -> other
                                              [] b.root = other -> this]
     IN  /\ heap' = [heap EXCEPT ![this] = heap[other], ![other] = heap[this]]
         /\ obj' = [id \in DOMAIN obj |->
                      IF Kind(obj[id]) \in {"book", "pages"} THEN obj[id] ELSE Elsewhere(obj[id])]
  /\ calls' = calls + 1
  /\ UNCHANGED <<temps, cur>>

EndStatement(saved) ==
  /\ cur # 0
  /\ cur'   = 0
  /\ temps' = {}
  /\ obj'   = [id \in Saved \cup saved |->
                 IF id \in saved THEN [obj[id] EXCEPT !.loose = @ \/ obj[id].parent \in temps]
                                 ELSE obj[id]]
  /\ UNCHANGED <<heap, calls>>

(* The end of a statement, with the last builder saved or not. *)
Forget == EndStatement({})
Save   == cur \in temps /\ Cardinality(Saved) <= MaxSaved /\ EndStatement({cur})

Next ==
  \/ \E id \in DOMAIN obj : Start(id)
  \/ Author \/ Pages \/ Push \/ Lines \/ Done
  \/ \E other \in Roots : MoveFrom(other)
  \/ Forget \/ Save

Spec == Init /\ [][Next]_layeredVars

-----------------------------------------------------------------------------
(* The message where a path of calls leads. *)
Follow(address, step) ==
  CASE step[1] = "author" -> heap[address].author
    [] step[1] = "page"   -> heap[address].pages[step[2]]
    [] step[1] \in {"pages", "lines"} -> address

Locate(b) ==
  LET at[n \in 0..Len(b.path)] == IF n = 0 THEN b.root ELSE Follow(at[n - 1], b.path[n])
  IN  at[Len(b.path)]

ParentPath(b) == IF Kind(b) = "lines" THEN Front(Front(b.path)) ELSE Front(b.path)

(* A builder changes the message that the calls which made it name, though *)
(* others were pushed or moved since; the builder it came from is the one  *)
(* before it in the chain; and that one is alive, unless the builder was   *)
(* saved from a longer chain.                                              *)
BuildersReachTheirMessage ==
  \A id \in DOMAIN obj \ {1} :
    LET b == obj[id]
    IN  /\ b.ptr = Locate(b)
        /\ Kind(b) # "book" /\ ~b.loose =>
             b.parent \in DOMAIN obj /\ obj[b.parent].path = ParentPath(b)

=============================================================================
