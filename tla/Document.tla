------------------------------ MODULE Document ------------------------------
(***************************************************************************)
(* A parsed document (src/lib/document.c) and the segments it is read from  *)
(* (the second half of src/lib/segment.h), with a client who navigates it.  *)
(*                                                                         *)
(* A handle is <<segment_no, offset>>, a segment a sequence of the cells    *)
(* that module Parser stores, a table of elements a slice of a table cell.  *)
(* A key or a string is a sequence of bytes, an integer's token its text.   *)
(* Calls that return an error are not steps: they change nothing.           *)
(***************************************************************************)
EXTENDS Numbers, FiniteSets

CONSTANTS Texts,  \* a sequence: the tokens, the tree that they spell, and the
                  \* slots in which the client keeps tables
          Keys    \* that the client looks up

VARIABLES segments,  \* of the document, empty when there is none
          sorted,    \* handles of the headers with the tag size INBOUND_SORTED
          handle,    \* the one that the client holds
          tables,    \* that the client holds
          tree       \* not in the code: what the text says

docVars == <<segments, sorted, handle, tables, tree>>

P == INSTANCE Parser WITH context <- <<>>, read <- <<>>, MaxTokens <- 0, Inputs <- {}

Missing  == <<"missing">>
First    == <<0, 0>>     \* thsn_value_handle_first
NotFound == <<255, 0>>   \* thsn_value_handle_not_found

----------------------------------------------------------------------------
(* Parsing.                                                                *)

(* thsn_parser_parse_value stores an integer with the least size it fits.   *)
Stored(token) ==
  IF token.kind = "int" THEN [token EXCEPT !.data = StoreInt(Atoll(@))] ELSE token

Take(parser, token) ==
  IF parser.result = "success" THEN P!ParseNextToken(parser, Stored(token)) ELSE parser

(* A composite that another thread has parsed, the first in segment 1 and   *)
(* the others in segment 2, for which the parser takes a handle.           *)
TakePreparsed(parsers, tokens) ==
  LET k      == IF parsers[2].segment = <<>> THEN 2 ELSE 3
      offset == P!NextOffset(parsers[k])
  IN  [parsers EXCEPT ![1] = P!AddValueHandle(@, <<k - 1, offset>>),
                      ![k] = FoldLeft(Take, P!ResetState(@), tokens)]

(* thsn_document_parse, and the result of thsn_document_parse_multithreaded *)
(* when there are preparsed composites.  No document is left if it fails.  *)
Parsed(tokens) ==
  LET take(parsers, t) == IF t.kind = "preparsed"
                          THEN TakePreparsed(parsers, t.data)
                          ELSE [parsers EXCEPT ![1] = Take(@, t)]
      parsers == FoldLeft(take, [k \in 1 .. 3 |-> P!NewContext], tokens)
      count   == IF parsers[2].segment = <<>> THEN 1 ELSE 3
  IN  IF parsers[1].result = "finished"
      THEN [k \in 1 .. count |-> parsers[k].segment]
      ELSE <<>>

----------------------------------------------------------------------------
(* What every document is that the parser has finished: handles lead to     *)
(* values and headers to the tables of their elements, all of them there.   *)

HasCell(segs, h) == h[1] + 1 \in DOMAIN segs /\ h[2] + 1 \in DOMAIN segs[h[1] + 1]
CellOf(segs, h)  == segs[h[1] + 1][h[2] + 1]
HasTag(segs, h, tags) == HasCell(segs, h) /\ CellOf(segs, h).tag \in tags

Values == {"leaf", "array", "object"}

(* The type of a value that is no composite, by the token it was read from. *)
Scalars    == {"null", "bool", "number", "string"}
WordTypes  == [null |-> "null", true |-> "bool", false |-> "bool"]
TokenTypes == [string |-> "string", int |-> "number", float |-> "number"]

TypeOfLeaf(token) ==
  IF token.kind = "word" THEN WordTypes[token.data] ELSE TokenTypes[token.kind]

(* An object's table leads to the keys; the values follow them.            *)
IsElement(segs, type, h) ==
  IF type = "array" THEN HasTag(segs, h, Values \cup {"handle"})
  ELSE /\ HasTag(segs, h, {"leaf"}) /\ CellOf(segs, h).token.data \in Seq(Nat)
       /\ HasTag(segs, <<h[1], h[2] + 1>>, Values \cup {"handle"})

IsTableOf(segs, type, h, count) ==
  /\ HasTag(segs, h, {"table"})
  /\ Len(CellOf(segs, h).offsets) = count
  /\ \A k \in 1 .. count : IsElement(segs, type, <<h[1], CellOf(segs, h).offsets[k]>>)

IsCell(segs, h) ==
  LET cell == CellOf(segs, h)
  IN  \/ cell.tag = "leaf" /\ TypeOfLeaf(cell.token) \in Scalars
      \/ /\ cell.tag = "handle"
         /\ cell.value \in Nat \X Nat /\ HasTag(segs, cell.value, Values)
      \/ cell.tag = "table" /\ cell = P!Table(cell.offsets) /\ cell.offsets \in Seq(Nat)
      \/ /\ cell.tag \in {"array", "object"} /\ cell.count \in Nat
         /\ cell.count > 0 =>
              /\ cell.table \in Nat
              /\ IsTableOf(segs, cell.tag, <<h[1], cell.table>>, cell.count)
              /\ cell.tag = "object" =>
                   IsTableOf(segs, cell.tag, <<h[1], cell.table + 1>>, cell.count)

(* The table cells of a composite that is not empty.                       *)
HasElements(cell) == cell.tag \in {"array", "object"} /\ cell.count > 0
TablesOf(cell)    == {cell.table} \cup IF cell.tag = "object" THEN {cell.table + 1} ELSE {}

(* A document is a tree: only the main parser takes handles, to values in   *)
(* other segments; elements are stored behind their header; no composite's  *)
(* table is another's.                                                     *)
IsInTree(segs, h) ==
  LET cell == CellOf(segs, h)
  IN  /\ cell.tag = "handle" => h[1] = 0 /\ cell.value[1] # 0
      /\ HasElements(cell) =>
           /\ \A k \in 1 .. cell.count : h[2] < CellOf(segs, <<h[1], cell.table>>).offsets[k]
           /\ \A o \in DOMAIN segs[h[1] + 1] \ {h[2] + 1} :
                LET other == CellOf(segs, <<h[1], o - 1>>)
                IN  HasElements(other) => TablesOf(cell) \cap TablesOf(other) = {}

(* An object's second table is a copy of the first until it is sorted.      *)
IsCopied(segs, h) ==
  LET cell == CellOf(segs, h)
  IN  HasElements(cell) /\ cell.tag = "object" =>
        CellOf(segs, <<h[1], cell.table + 1>>) = CellOf(segs, <<h[1], cell.table>>)

IsDocument(segs) ==
  /\ segs \in Seq(Seq(UNION {ToSet(segment) : segment \in ToSet(segs)}))
  /\ Len(segs) <= NotFound[1]
  /\ \A n \in DOMAIN segs : \A o \in DOMAIN segs[n] :
       LET h == <<n - 1, o - 1>>
       IN  IsCell(segs, h) /\ IsInTree(segs, h) /\ IsCopied(segs, h)

ASSUME TextsAssumption ==
  \A k \in DOMAIN Texts :
    LET segs == Parsed(Texts[k].tokens)
    IN  IsDocument(segs) /\ (segs # <<>> /\ Texts[k].tree # Missing => HasTag(segs, First, Values))

ASSUME KeysAssumption == Keys \subseteq Seq(Nat)

----------------------------------------------------------------------------
(* Reading values.                                                         *)

Readable(h) == HasCell(segments, h)
Cell(h)     == CellOf(segments, h)

Handles == UNION {{<<k - 1, o>> : o \in 0 .. Len(segments[k]) - 1} : k \in DOMAIN segments}

FollowHandle(h) ==
  LET follow[g \in Handles] ==
        IF Cell(g).tag = "handle" THEN follow[Cell(g).value] ELSE g
  IN  IF Readable(h) THEN follow[h] ELSE h

(* thsn_document_value_type, "error" where it returns one.                 *)
ValueType(h) ==
  IF ~Readable(h) THEN "error"
  ELSE CASE Cell(h).tag \in {"handle", "table"} -> "error"
         [] Cell(h).tag \in {"array", "object"} -> Cell(h).tag
         [] Cell(h).tag = "leaf"               -> TypeOfLeaf(Cell(h).token)

(* thsn_document_read_bool, _number, _string.                              *)
ReadScalar(h) ==
  LET token == Cell(h).token
  IN  CASE token.kind = "int" -> ReadInt(token.data)
        [] ValueType(h) = "bool" -> token.data = "true"
        [] OTHER -> token.data

----------------------------------------------------------------------------
(* Tables: slices of a table cell.                                         *)

Tables == [type : {"array", "object", "sorted"}, segment_no : Nat, table : Nat,
           first : Nat \ {0}, count : Nat]

EmptyTable(type, segment_no) ==
  [type |-> type, segment_no |-> segment_no, table |-> 0, first |-> 1, count |-> 0]

TableCell(t) == Cell(<<t.segment_no, t.table>>)

OffsetAt(t, element_no) == TableCell(t).offsets[t.first + element_no]

AtOffset(t, n) == [t EXCEPT !.first = @ + n, !.count = @ - n]
Truncate(t, n) == [t EXCEPT !.count = n]

WithoutHead(t) == [t EXCEPT !.first = @ + 1]
Unread(t)      == t

(* thsn_segment_composite_consume_element_offset reads off the first one.  *)
Rest(t) == AtOffset(t, 1)

PlainTable(header)  == header.table
UsesPlainTable(header) == header.table
SortedTable(header) == header.table + 1

(* thsn_document_read_array and _object; _read_object_sorted's table.      *)
ReadComposite(h) ==
  IF Cell(h).count = 0 THEN EmptyTable(Cell(h).tag, h[1])
  ELSE [EmptyTable(Cell(h).tag, h[1]) EXCEPT !.table = PlainTable(Cell(h)),
                                            !.count = Cell(h).count]

ReadSorted(h) ==
  IF Cell(h).count = 0 THEN EmptyTable("sorted", h[1])
  ELSE [EmptyTable("sorted", h[1]) EXCEPT !.table = SortedTable(Cell(h)),
                                         !.count = Cell(h).count]

KeyAt(segment_no, offset) == Cell(<<segment_no, offset>>).token.data

(* thsn_document_index_array_element, or with thsn_document_object_read_kv  *)
(* after it thsn_document_object_index_element: an object's table leads to  *)
(* its keys, a value comes right after its key.                            *)
KeyOf(t, offset)   == IF t.type = "array" THEN <<>> ELSE KeyAt(t.segment_no, offset)
ValueOf(t, offset) ==
  FollowHandle(<<t.segment_no, IF t.type = "array" THEN offset ELSE offset + 1>>)

----------------------------------------------------------------------------
(* Keys in order.                                                          *)

Least(n, m) == IF n < m THEN n ELSE m

ComparePrefixes(s, t) ==
  LET differences == {k \in 1 .. Least(Len(s), Len(t)) : s[k] # t[k]}
      first == CHOOSE k \in differences : \A l \in differences : k <= l
  IN  IF differences = {} THEN 0 ELSE s[first] - t[first]

(* memcmp of what both have, and then the sizes.                           *)
Compare(s, t) ==
  LET differences == {k \in 1 .. Least(Len(s), Len(t)) : s[k] # t[k]}
      first == CHOOSE k \in differences : \A l \in differences : k <= l
  IN  IF differences = {} THEN Len(s) - Len(t) ELSE s[first] - t[first]

InOrder(segment_no, offsets) ==
  \A k \in 1 .. Len(offsets) - 1 :
    Compare(KeyAt(segment_no, offsets[k]), KeyAt(segment_no, offsets[k + 1])) <= 0

Arrangements(offsets) ==
  LET of[rest \in SUBSET DOMAIN offsets] ==
        IF rest = {} THEN {<<>>}
        ELSE UNION {{Append(start, offsets[k]) : start \in of[rest \ {k}]} : k \in rest}
  IN  of[DOMAIN offsets]

(* qsort does not keep the order of equal keys: any one may come first.    *)
Sortings(segment_no, offsets) ==
  {arranged \in Arrangements(offsets) : InOrder(segment_no, arranged)}

MidpointAtEnd(count) == count - 1

Midpoint(count) == count \div 2

(* thsn_segment_object_index: binary search of a sorted table.             *)
Search(t, key) ==
  LET search[s \in Tables] ==
        IF s.count = 0 THEN [handle |-> NotFound, probes |-> 0]
        ELSE LET middle == Midpoint(s.count)
                 offset == OffsetAt(s, middle)
                 order  == Compare(key, KeyAt(s.segment_no, offset))
                 rest   == IF order < 0 THEN search[Truncate(s, middle)]
                                        ELSE search[AtOffset(s, middle + 1)]
             IN  IF order = 0
                 THEN [handle |-> <<s.segment_no, offset + 1>>, probes |-> 1]
                 ELSE [rest EXCEPT !.probes = @ + 1]
  IN  search[t]

----------------------------------------------------------------------------
(* The client.                                                             *)

DocumentInit ==
  /\ \E k \in DOMAIN Texts :
       /\ segments = Parsed(Texts[k].tokens)
       /\ tree = Texts[k].tree
       /\ tables = [s \in Texts[k].slots |-> EmptyTable("array", 0)]
  /\ sorted = {}
  /\ handle = First

Keep(s, t) == tables' = [tables EXCEPT ![s] = t]

GoToRoot ==
  /\ segments # <<>>
  /\ handle' = First
  /\ UNCHANGED <<segments, sorted, tables, tree>>

ReadElements(s) ==
  /\ ValueType(handle) \in {"array", "object"}
  /\ Keep(s, ReadComposite(handle))
  /\ UNCHANGED <<segments, sorted, handle, tree>>

(* thsn_document_read_object_sorted of the object at h: the table is sorted *)
(* in place, once.                                                         *)
Sort(h) ==
  LET t == ReadSorted(h)
  IN  /\ ValueType(h) = "object"
      /\ IF t.count = 0 \/ h \in sorted
         THEN UNCHANGED <<segments, sorted>>
         ELSE /\ \E offsets \in Sortings(h[1], TableCell(t).offsets) :
                   segments' = [segments EXCEPT
                                  ![h[1] + 1][t.table + 1].offsets = offsets]
              /\ sorted' = sorted \cup {h}

ReadObjectSorted(s) ==
  /\ Sort(handle)
  /\ Keep(s, ReadSorted(handle))
  /\ UNCHANGED <<handle, tree>>

IndexElement(s) ==
  /\ \E k \in 0 .. tables[s].count - 1 :
       handle' = ValueOf(tables[s], OffsetAt(tables[s], k))
  /\ UNCHANGED <<segments, sorted, tables, tree>>

ConsumeElement(s) ==
  /\ tables[s].count > 0
  /\ handle' = ValueOf(tables[s], OffsetAt(tables[s], 0))
  /\ Keep(s, Rest(tables[s]))
  /\ UNCHANGED <<segments, sorted, tree>>

(* thsn_document_object_index, whose table has to be a sorted one.  The     *)
(* handle it returns is not followed.                                      *)
ObjectIndex(s, key) ==
  /\ tables[s].type = "sorted"
  /\ handle' = Search(tables[s], key).handle
  /\ UNCHANGED <<segments, sorted, tables, tree>>

Navigate ==
  \/ GoToRoot
  \/ \E s \in DOMAIN tables : \/ ReadElements(s) \/ ReadObjectSorted(s)
                      \/ IndexElement(s) \/ ConsumeElement(s)
  \/ \E s \in DOMAIN tables, key \in Keys : ObjectIndex(s, key)

----------------------------------------------------------------------------
(* Properties.                                                             *)

(* The tree of what the document holds at a handle, and the elements of a   *)
(* table: the client's view of them.                                       *)
Elements(t, Tree(_)) ==
  [k \in 1 .. t.count |->
     LET offset == OffsetAt(t, k - 1)
     IN  [key |-> KeyOf(t, offset), value |-> Tree(ValueOf(t, offset))]]

TreeAt[h \in Handles \cup {First, NotFound}] ==
  IF ValueType(h) = "error" THEN Missing
  ELSE <<ValueType(h),
         IF ValueType(h) \in {"array", "object"}
         THEN Elements(ReadComposite(h), LAMBDA value : TreeAt[value])
         ELSE ReadScalar(h)>>

Held(h)       == TreeAt[FollowHandle(h)]
ElementsOf(t) == Elements(t, LAMBDA value : TreeAt[value])

Standing == Held(handle)
Rests    == [s \in DOMAIN tables |-> ElementsOf(tables[s])]

(* The client sees a tree that never changes: the document is the one that  *)
(* the text spells, no matter which parts other threads parsed, a table's   *)
(* elements stay the same while the client sorts objects and reads others,  *)
(* a sorted table is the plain one in an order of keys, and a key is found  *)
(* exactly if the object has it.                                           *)
JsonTree == INSTANCE JsonTree WITH document <- tree, at <- Standing, rests <- Rests

ImplementsJsonTree == JsonTree!Spec

(* A key is looked up by halving a table that was sorted some time before:  *)
(* it is found exactly if one of the elements that are left has it, however *)
(* the client has sorted, read and shortened its tables since.             *)
KeysAreFound ==
  \A s \in DOMAIN tables, key \in Keys : tables[s].type = "sorted" =>
    LET t     == tables[s]
        named == {o \in {OffsetAt(t, k) : k \in 0 .. t.count - 1} :
                    KeyAt(t.segment_no, o) = key}
    IN  Search(t, key).handle
          \in IF named = {} THEN {NotFound} ELSE {<<t.segment_no, o + 1>> : o \in named}

(* "Indexing an object is O(log(n))": a search reads no more keys than it   *)
(* takes to halve the table down to nothing.                               *)
LookupsAreLogarithmic ==
  \A s \in DOMAIN tables : tables[s].type = "sorted" /\ tables[s].count > 0 =>
    \A key \in Keys : 2 ^ (Search(tables[s], key).probes - 1) <= tables[s].count
=============================================================================
