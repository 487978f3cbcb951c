# A TLA+ model of threason

threason is a C11 library that parses JSON text into a read-only document, with
one thread or with several. This directory holds TLA+ modules that model it,
TLC configurations that check them on small instances, and theorems about all
parts but the speculative parsing that TLAPS checks for every value of the
constants. Paths of the source are relative to `src/`. `PROJECT.json` maps every
definition to the lines it models.

## 1. Inventory

| Component | State | Operations | Hard to get right |
|---|---|---|---|
| `lib/parser_threads.c`, parallel parsing | thread contexts (a chunk, two results with a completion flag each, the chosen scenario), the iterator over preparsed values, the document's segments | `thsn_document_parse_multithreaded`, `thsn_main_thread`, `thsn_preparse_thread`, `thsn_preparse_buffer`, the iterator `thsn_pp_iter_*` | detached threads and shared memory; error paths while threads run; speculation about strings; one forward pass over tables |
| `lib/tokenizer.h` | the unread rest of a text | `thsn_next_token` | escapes, signs, text that ends inside a token |
| `lib/parser.h` | state, untyped stack, segment | one handler per state, `thsn_parser_add_value_handle` | the stack's layout; EOF as a value; handles |
| `lib/segment.h` | a vector of tagged values | store, read, sort, search | headers written late; sorting in place; 56-bit offsets |
| `lib/document.c` | segments of a document | parse, free, navigation, handles | following handles into other segments |
| `lib/vector.h`, `lib/slice.h` | buffer, capacity, offset | grow, shrink, push, pop, sub-slices | growth at every capacity, data behind the end |
| `lib/visitor.c` | a stack of composites, the context of the callbacks | `thsn_document_visit` | balanced callbacks, skip and abort |
| `bin/formater.c` | the client | parse, visit, free | freeing after a failed parse |
| `lib/tests`, `benchmarks`, `generate_json.py`, `third_party` | | | not part of the library |

How they interact. The caller's thread cuts the input into chunks and starts a
detached thread per chunk but the first. A thread tokenizes and parses its
chunk twice, once as if the chunk began inside a string and once as if it did
not, stores for each a segment and a table of the composite values found in
it, and sets a completion flag (release store). The caller tokenizes and parses the
whole input; strings and opening brackets move an iterator over the chunks.
Entering a chunk chooses one of its two results and waits for its flag (acquire
load). A value that the table lists at the read position is not parsed again:
a handle (segment number, offset) is stored and its text skipped. In the end
the caller waits for all flags, moves the chosen segments into the document and
frees the rest. There is no other shared state, no lock and no message.

What makes each component correct:

- Parallel parsing: the chunks tile the input; a published result never changes;
  memory is freed once, after its last use, and none is lost; the call returns;
  handles lead to the segment they were made for; the document is the one that
  sequential parsing gives.
- Tokenizer: strings and numbers end where a forward reading ends them; nothing
  is read beyond the text.
- Parser: accepts the grammar; reads its stack as it was written; the segment
  says what was read.
- Segment and document: lookups agree with the value that was stored, by
  position or by key, in whichever segment it lies.
- Vector: space asked for is there, it holds what was pushed, and what was popped
  can be read until it grows.
- Visitor: callbacks are balanced and in document order, with the context of
  their value, whatever they answer.
- Formatter: what it prints is the text, and it frees what it owns on all paths.

The hazards are listed in `PROJECT.json`, each at its line, with the
properties that cover it.

## 2. Modules

| Module | Models | Abstracts |
|---|---|---|
| `ParserThreads` | the whole of `parser_threads.c`: caller, threads, heap, flags, cursor, errors | the text: a token may be any that fits, a table any that fits into its chunk; the parser accepts or rejects |
| `ParseCall` | no code: what a call of `thsn_document_parse_multithreaded` promises | threads, chunks, tables |
| `Tokenizer` | `tokenizer.h`, and `thsn_advance_after_end_of_string` | one digit, one space and one word stand for all |
| `Parser` | `parser.h` and the writing half of `segment.h` | cells for bytes, tokens for values |
| `Numbers` | how integers are read, stored in the least of four widths, and read back | the widths are parameters |
| `Json`, `MCParser` | no code: grammar and meaning of a segment, and properties that compare `Parser` with them | |
| `Speculation`, `MCSpeculation` | compose `Tokenizer` and `Parser` into `thsn_preparse_buffer`, `thsn_main_thread` and `thsn_document_parse` | the threads: a preparsing is a function of its chunk |
| `Document` | `document.c`, the reading half of `segment.h`, and a client who navigates | cells for bytes; calls that return an error change nothing and are no steps |
| `JsonTree` | no code: what navigation promises | segments, offsets, handles |
| `Visitor` | `visitor.c`, with callbacks that answer anything and use the document | allocations do not fail |
| `TreeWalk` | no code: what a visit promises its client, and a program that prints | stack, tables, handles |
| `Formatter` | `bin/formater.c` from the parse to the exit | the spelling of values, reading arguments and file |
| `MCDocuments` | no code: the texts, keys and visitors of the document runs | |
| `Vector` | `vector.h`, with failing reallocations and sizes up to SIZE_MAX | alignment |
| `ParserThreadsProofs` | proofs: types, tiling, publication, scenarios | |
| `CursorProofs` | proofs: the cursor over the tables | |
| `ParserThreadsMemory` | proofs: memory and handles; `ParserThreads` implements `ParseCall` | |
| `VectorProofs` | proofs: all properties of `Vector` | |
| `TokenizerProofs` | proofs: all properties of `Tokenizer` | |
| `ParserProofs` | proofs: types, the stack, the headers of `Parser` | |
| `DocumentProofs` | proofs: types of `Document`, `Visitor` and `Formatter`, sorting and searching, integers | |
| `JsonTreeProofs` | proofs: sorting changes no tree; `Document` implements `JsonTree`, `Visitor` and `Formatter` implement `TreeWalk` | |

The modules follow the data. A text is cut into tokens (`Tokenizer`), these are
parsed into a segment (`Parser`, `Numbers`), by one thread or by several
(`Speculation`, `ParserThreads`); a document is read from its segments
(`Document`), walked (`Visitor`) and printed (`Formatter`). `Vector` lies under
all of them; the other modules take a vector for a sequence, which its
properties justify.

`ParserThreads` and `Speculation` look at the same file from two sides. The
first has all interleavings and every error, and lets the tables list whatever
fits; nothing it shows depends on the text. The second has the real tables of a
real text; a result that is published and never changed again
(`PublishedIsFrozen`) is a function of its chunk, which justifies to leave the
threads out.

### ParserThreads and ParseCall

`pc` is the position of the caller: `call`, `create` (the loop that starts the
threads), `token`, `advance`, `await`, `find`, `parse`, `handle` (one iteration
of `thsn_main_thread`), `collect`, `cleanup_not`, `cleanup_in`, `returned`, and
`freed` once the client has freed the document.
A step lies between two accesses to memory that another thread accesses too, or
two frees. `thread_pc` is the position of a preparsing thread: it preparses and
publishes twice, IN_STRING first. A job `<<t, s>>` is preparsing `s` of the
chunk of thread `t`.

A pointer is the set of the blocks it points to, `{}` being NULL; `live` is the
set of allocated blocks, `misused` collects blocks freed while not allocated.
`PreparseOutcomes` says which ends of `thsn_preparse_buffer` are considered:
`LeftAllocated` and `Published` give for each what it leaves behind. The
outcomes other than "preparsed" are allocation failures; "no_table" is the one
that loses nothing, and is the one that sets the `failed` flag in the runs
that pass.

An allocation failure of the caller's own parser takes the path of a rejected
token. The NULL dereference after a failed `calloc` of the contexts is not
modelled: the process ends there.

`ParseCall` has three variables: the status of the call, the allocated memory
and the document that the caller holds. While the call runs memory comes and
goes; when it returns, what is allocated is exactly the document or nothing, it
stays so, and every handle leads to the segment its value was stored in.
`ParserThreads` implements it with `Status`, `live` and `DocumentReturned`; a
thread that outlives the call and touches memory is a step that `ParseCall` does
not have.

### Tokenizer, Parser, Json, Numbers

`NextToken(from, end)` is a function from a position of a text to a token and
the next position, so that a chunk is the same text with another `end`. Runs of
backslashes are counted backwards as in the code; the reference
`EndsForwards` reads a string escape by escape.

The parser's stack is untyped in C. `Parser` tags what is pushed and ends with
the result "mismatch" if something else is popped; `StackFits` says that this
never happens and what the stack looks like. A segment is a sequence of cells,
with a header completed when its composite is closed, as in the code.

`Numbers` accumulates the digits of an integer as a positive number in the
longest width, applies the sign in the end, and stores the bits in the least
width they fit. The tokenizer makes a number without a point or an exponent an
integer however long it is (`tokenizer.h:194-195`), so that a long long may
overflow. That is undefined in C; here it wraps, as in the builds of the
Makefile, and the number that is stored is another one (`long_integers`,
section 4).

### Document, JsonTree, Visitor, Formatter

A handle is `<<segment_no, offset>>`. `segments` are the document's, each as
`Parser` stores it; `TakePreparsed` gives a composite that another thread has
parsed to the parser as a handle and puts it into a segment of its own. `sorted` holds the
headers whose tag says that their second table is sorted: reading an object by
key sorts that table in place, once, through a const document. Tables are
slices of a table cell that a client keeps while others are sorted, and may
consume from their front. `qsort` may order equal keys in any way. Following a
handle and searching a table are recursive functions, on the handles of the
document and on the tables, so that they can be proved about.

`TextsAssumption` says what a document is that the parser has finished
(`IsDocument`): handles lead to values, headers to tables with as many offsets
as they count, and those to elements of the right kind (`IsCell`); it is a tree,
with elements behind their header, no table of two composites, and handles only
from the main segment into others (`IsInTree`); and an object's second table is a
copy of the first (`IsCopied`). TLC evaluates it for every text of the runs. The properties `ImplementsJsonTree`, `KeysAreFound` and
`LookupsAreLogarithmic` of `Document` are checked by way of `MCDocuments`.

`JsonTree` has a tree that never changes, the value on which the client stands,
and what is left of its tables. `TreeAt` reads the tree at a handle; `Standing` and
`Rests` map the client's handle and tables to it. Where a lookup returns a handle that leads on to another segment the
mapping follows it; that the code does not is a finding (section 4).

`Visitor` is the loop of `thsn_document_visit`: `pc` is `visit` at the top of the
outer loop, `ascend` at the top of the inner one, and `stack` holds for each
composite what is left of its table and the context it ends in. Every callback
may answer CONTINUE, SKIP or abort, the vtable may lack any, and between two
callbacks the client may sort any object (`CallbackSorts`).

`Formatter` gives each client a document of its own: a navigator, a visitor
with any callbacks, and the program, whose `owned` is what it has to free. One
printed line stands for one callback.

`TreeWalk` has the values that are still to be called back for, in the order of
the text and each in the context of its place. Its steps take the first of them
off: the elements of a composite and its end come in its place, or nothing if
the callback skips it; an answer that aborts leaves nothing. `Todo` maps to it
the value at hand and what the tables on the stack have left, from the innermost
composite outwards (`DueIn`); the depth of a printed line is the number of
composites around the value. `Descend` maps to a stutter: it is where the code
moves on from one value to the next without a callback.

### Vector

One vector and an owner who pushes, pops, grows, shrinks and frees it in any
order. `slice` is what the last shrink returned: it lies behind the end of the
vector and is readable until the vector grows. `stack` and `popped` are not in the code:
they say what a reader should see.

## 3. Runs

| Run | Module | Checks | Bounds |
|---|---|---|---|
| `three_chunks` | `ParserThreads` | `TypeOK`, `ChunksTileInput`, `NoUseAfterFree`, `NoDoubleFree`, `NoLeak`, `PublishedIsFrozen`, `ImplementsParseCall`, `Returns` | 7 bytes, 3 chunks of 3, 2 and 2 bytes |
| `long_tables` | `ParserThreads` | `HandlesResolve`, `CursorKeepsRest`, `ScenarioSettled`, `FindsListedValue`, `ImplementsParseCall` | 10 bytes, 2 chunks of 5 bytes |
| `wrapped` | `ParserThreads` | violates `NoUseAfterFree` | 4 chunks, a uint8_t of 4 values |
| `out_of_memory` | `ParserThreads` | violates `NoLeak` | 2 chunks, all outcomes |
| `tokens` | `Tokenizer` | `TypeOK`, `StringsEndForwards`, `JsonNumbersAreRead` | texts of 5 out of 9 characters |
| `parsing` | `MCParser` | `TypeOK`, `StackFits`, `FinishedIsReadable`, `AcceptsDocuments`, `SegmentSaysWhatWasRead` | 11 tokens |
| `speculated` | `MCSpeculation` | `TypeOK`, `SameDocument`, `RejectsOnlyHandles` | 9 characters, 3 chunks |
| `refused_handle` | `MCSpeculation` | violates `AcceptsSameDocuments` | 6 characters, 3 chunks |
| `vector` | `Vector` | `TypeOK`, `SpaceIsThere`, `HoldsWhatWasPushed`, `PoppedStaysReadable` | PTRDIFF_MAX 5, SIZE_MAX 11, pushes of at most 2 bytes |
| `documents` | `MCDocuments` | `TypeOK`, `ImplementsJsonTree`, `ImplementsTreeWalk`, `KeysAreFound`, `LookupsAreLogarithmic`, `VisitsInOrder`, `PrintsDocument`, `VisitsEnd` | 78 texts, 7 keys, 1 or 2 tables at a time |
| `unfollowed_handle` | `MCDocuments` | violates `FoundValuesHaveTypes` | as `documents`, the navigator only |
| `long_integers` | `MCDocuments` | violates `IntegersAreKept` | every integer from -99 to 99, six bits, the formatter only |

Why the bounds are enough.

- `ParserThreads`: three chunks are the least with two threads that run at the
  same time, a chunk whose thread was not created behind one that was, and a
  division with a remainder. A table needs five bytes to list two values one
  behind the other, and with two values the cursor passes one, stands on one and
  has one unread. The memory of two threads does not interact, and what holds
  for more is proved (section 5).
- `tokens`, `parsing`: five characters hold an escaped backslash before a quote,
  `-0e-0` and a word cut short. Eleven tokens hold arrays and objects nested in
  each other with two elements each.
- `speculated`: nine characters in three chunks cut strings, escapes and nested
  composites at both boundaries. The text begins as an array, as an object or
  as a value of one (`ArraysAndObjects`), as a document that has anything to
  skip does; the rest is any.
- `vector`: a capacity of 5 lets the vector grow by doubling, by what is asked
  for when that is more, and to the limit where doubling is not possible; sizes
  go up to SIZE_MAX, so that every sum that may wrap does.
- `documents`: a nested object whose values are parsed by no, one or both of two
  other threads (equal keys included), a list with composites in all positions
  where the parser takes handles, objects of one to seven keys that are empty,
  equal or prefixes of one another (every shape of a binary search down to
  halves of none, one and two), a number with a fraction, and texts that are no
  documents. Integers have 3, 4, 5 or 6 bits, and every one from -32 to 31 is a
  text, so that both ends of every width are. Longer integers are not among these
  texts: the code reads them as other numbers (`long_integers`), so that no
  property of this run says anything of them. Where equal keys and two sorted
  tables interact the client keeps two tables, else one. `MaxCalls` (20) is more
  than any visit makes.

In `tokens`, `parsing` and the `MCSpeculation` and `MCDocuments` runs deadlock is
not checked: the parse is over at the end of the text, a client may stop where
it likes, a program exits. In `ParserThreads` deadlock is checked, and the end is
a step of its own, `Terminated`; in `Vector` the owner can always go on.

Fairness. In `ParserThreads`, for `Returns`: weak fairness of the caller and of
each thread. The caller spins with `thrd_yield`, waiting for threads that never
wait for anybody; a scheduler that runs every runnable thread again and again
gives just that. That the client ever frees the document is not assumed. In
`Formatter`, for `VisitsEnd`: weak fairness of a visit and of the program, which
are sequential code. `VisitsEnd` holds although a callback may sort objects
again and again, since each object is sorted once.

## 4. What the violations show

- `refused_handle`: a valid document is rejected in parallel parsing when a
  value that the parser cannot take as a handle (the first element of an array,
  or the root) is found preparsed. `RejectsOnlyHandles` shows in turn that this
  is the only reason for which parallel parsing rejects a document that
  sequential parsing accepts, and `SameDocument` that what it accepts is right.
- `wrapped`: with 256 chunks `segment_count` is 0 in the document, and the
  contexts are freed while threads write to them.
- `out_of_memory`: allocation failures in `thsn_preparse_buffer` lose blocks.
- `unfollowed_handle`: `thsn_document_object_index` (`document.c:299`) returns
  the place behind the key without following a handle stored there: the type of
  a value that another thread has parsed cannot be read. Every other function
  that returns an element follows it.
- `long_integers`: `thsn_parser_atoll_checked` does not look at how many digits
  an integer has (`parser.h:102`). One that does not fit a long long overflows
  it, which is undefined; where that wraps the parse succeeds and the formatter
  prints another number. The text of the least integer overflows as well, before
  and when the sign is applied, and wraps back to the right value, which
  `documents` shows: undefined all the same.

A defect that needs no run of its own: after a failed parse the formatter frees
the document (`formater.c:181`), whose pointer is NULL, and
`thsn_document_free` reads its segment count (`document.c:13-14`). `Formatter`
has it as the state `crashed`, which `documents` reaches with every text that is
no document.

## 5. Proofs

The theorems about `ParserThreads` hold for every `JsonSize`, `ThreadsCount`,
`MinThreadSliceSize`, `Uint8Values` and `PreparseOutcomes`, those about `Vector`
for every set of bytes, `PtrdiffMax` and `MaxData`, those about `Tokenizer` for
texts of every length over every alphabet, those about `Parser` for every number
of tokens and those about documents for every set of texts, slots and keys and
all widths of integers, that the named assumptions of the modules allow.

| Theorem | States | Inductive invariant |
|---|---|---|
| `TypeCorrect` | `[]TypeOK` | `TypeInv` |
| `ChunksTile` | `[]ChunksTileInput` | `TypeInv`, `Layout` |
| `PublishedFrozen` | `PublishedIsFrozen` | `TypeInv`, `Stages` |
| `ScenarioStaysSettled` | `ScenarioSettled` | `TypeInv`, `Skipping` |
| `CursorPassesNothing` | `[]CursorKeepsRest` | `CursorState` |
| `ListedValuesAreFound` | `FindsListedValue` | `CursorState` |
| `NothingFreedTwice` | `[]NoDoubleFree` | `MemoryInv` |
| `NothingUsedAfterFree` | `[]NoUseAfterFree` | `MemoryInv` |
| `NothingLeaked` | `[]NoLeak` | `MemoryInv` |
| `EveryHandleResolves` | `[]HandlesResolve` | `MemoryInv` |
| `KeepsPromise` | `ImplementsParseCall` | `MemoryInv`, `ResultKnown` |
| `VectorTypeCorrect` | `[]TypeOK` of `Vector` | `Inv` |
| `SpaceIsAlwaysThere` | `[]SpaceIsThere` | `Inv` |
| `VectorHoldsWhatWasPushed` | `[]HoldsWhatWasPushed` | `Inv` |
| `PoppedDataStaysReadable` | `[]PoppedStaysReadable` | `Inv` |
| `TokensStayInside` | `[]TypeOK` of `Tokenizer` | `TypeOK` |
| `StringsAreRead` | `[]StringsEndForwards` | `TypeOK` |
| `NumbersAreRead` | `[]JsonNumbersAreRead` | `TypeOK` |
| `ParserTypeCorrect` | `[]TypeOK` of `Parser` | `ParserInv` |
| `StackIsReadAsWritten` | `[]StackFits` | `ParserInv` |
| `FinishedDocumentsAreReadable` | `[]FinishedIsReadable` | `ParserInv`, `ReadableInv` |
| `TablesAreSlices` | `[]TypeOK` of `Formatter`, with `Visitor` and `Document` | `IInv` |
| `KeysOfObjectsAreFound` | `[]KeysAreFound` | `IInv` |
| `ObjectsAreIndexedFast` | `[]LookupsAreLogarithmic` | `IInv` |
| `TreesNeverChange` | no step changes the tree that is read at any handle (`TreeAt`) | `IInv`, `TreeInv` |
| `DocumentsAreTrees` | `ImplementsJsonTree` | `IInv`, `TreeInv`, `RootInv` |
| `VisitsAreWalks` | `ImplementsTreeWalk` | `IInv`, `TreeInv`, `WalkInv` |
| `IntegersAreReadAsStored` | every integer of a `long long` is read back as it was stored | |

`TypeOK` of `ParserThreads` is not inductive: that skipping a value keeps the
read position in the input needs to know where the bracket was, that a handle
names a job needs to know that the cursor has left the first chunk. `Control`
adds that.

`Layout` says what the loop has cut so far, counting chunks from the end of the
input, where all have the same size. Its step is arithmetic with a product
of two variables, kept to the lemmas `Threads`, `ChunksLongEnough` and
`NextChunk`.

`Stages` ties the flags to the position of a thread. `PublishedFrozen` follows:
a thread only writes to the job of its own stage, whose flag is not set.

`Skipping` says that handles lie in chunks up to the cursor's, under the
scenario chosen for them; the cursor only moves forwards and chooses on
entering.

`CursorState` adds two facts. `TablesFit`: a table lists values that begin in
its chunk, so that nothing is missed when the parse has left the chunk.
`CursorRests`: the cursor stands on an entry of the table of a completed job or
on none, and what that table lists from the read position on is pending, unless
the read position is behind the chunk. The read position only grows (`Resting`),
because a skipped value is not empty; the table stays what it was when the cursor
was put on it, because its job is completed (`CompletedKept`, from `Stages`).

`MemoryInv` says of every block when it is allocated, as a function of the
caller's position and of what a job has published (`OfJob`, `OfCaller`). For the
step of `Collect` or of a cleanup one has to know that the thread is over
(`Phases`, from `Stages` and the acquire loads); that a completed job shows both
of its blocks or none (`Results`); for the cursor, that its table belongs to a
completed job whose chunk is not released yet (`CursorInv`); for
`thsn_document_free`, what is in the document (`SegmentsInv`).

`KeepsPromise` maps each step to one of `ParseCall` or to a stutter: while the
call runs any step is `Run`; the steps that return are `Succeed` and `Fail`, for
which `NoLeak` and `HandlesResolve` say what is left; and after them no thread
can take a step, because both of its jobs are completed.

The four memory theorems and `KeepsPromise` assume `FewChunks` (the number of
chunks is below the number of values of a uint8_t) and `NothingLost` (no outcome
of a preparsing loses a block). Both are necessary: `wrapped` and
`out_of_memory` violate the properties without.

`Inv` of `Vector` joins the types, the contents, and that what was popped lies in
the block, at or behind the end of the vector (`SliceInv`): no write in front of
that end reaches it, and a growth, which may write behind it, ends its life. The
growth of the block is arithmetic: neither the sum of offset and size nor that
of capacity and growth wraps.

`TokenizerProofs` is about single tokens, from any position of any text.
`EndsForwards` reads a string escape by escape with a recursive function;
`ForwardsAndBackwards` shows that it finds the closing quotes that counting
backslashes finds, since a character is escaped exactly if the one before it is
a backslash that is not (`EscapedStep`). For numbers, `PartsOfNumber` takes a
number of the grammar apart and `NumberIsReadWhole` shows that none of its
characters ends the scan and that its marks are where the tokenizer wants them.

`StackFits` of `Parser` is not inductive: a handler that closes a composite
pops the header's offset and writes there, and what it leaves must be a frame
of the composite around. `ParserInv` adds that the offsets on the stack never fall and lie in
the segment, that only the two states that are pushed lie on it, each on the frame it goes
on with (`Sound`), that each header not written yet waits at the bottom of
a frame (`UnwrittenWait`: with an empty stack none is left),
and that the value of a composite's last element has been stored when the parser is
between two elements, unless the text ended in its place
(`LastElementStored`: without it two elements could have one offset). Each
handler is shown to leave a context that is right for what follows it in
`thsn_parser_parse_next_token` (`Handled`), and that to settle it (`Settled`).

`FinishedIsReadable` needs to know what the offsets of a frame point at, for they
become a table that nobody looks at again. `ReadableInv` says that every
composite whose header is written is readable (`Composed`), and of every frame that each
of its offsets points at a value, or a key followed by its value, as far as the
elements are stored already (`FramesRead`). Only the last element may be missing,
and `Margin` says how many cells of it in each state: a key is stored before
its value. A nested composite that is stored behind the last offset
completes an element of the frame around it without that frame being touched;
`Grows` says what keeps elements valid: cells are added at the end, and a header
is only ever replaced by one of the same type.

`IInv` joins what a document is (`DocInv`), what a visit keeps (`VisitInv`) and
what the program owns and prints (`MainInv`). `DocInv` says that every cell is as
`IsDocument` has it, that every table in somebody's hands leads to elements
(`HoldsIn`), and that the second table of every object marked as sorted is in
order (`SortedObjects`). Sorting in place is the step that could disturb all of
them: `Rearranged` says what it changes (the offsets of one table cell, to an arrangement
of themselves: `ArrangementsKeep`), and `CellsKept`, `TagsKept`, `TablesKept` and `SortKeeps`
that nothing anybody holds is less valid for it. A table that is sorted
already is never sorted again, so a table held since its first sort stays in order;
therefore `SearchFinds` applies to every table that is ever searched. It needs that
`Compare` is a total preorder whose ties are equal keys (`CompareTells`,
`CompareTransitive`). `SearchIsCounted` halves the table: the midpoint
leaves at most half of it on either side.

`DocumentsAreTrees` is about all the trees that anybody reads while objects are
sorted. Handles lead from the main segment to others and offsets lead forwards,
so a tree is read behind the handle it is read at (`Behind`, `Bounds`), and
`TreeAt` is the one function that says at each handle what the cells there spell
(`TreesExist`, `TreesAreUnique`, `TreesAreRead`). `TreeInv` adds to `IInv` that
the document keeps this shape, that a second table stays a shuffle of the first
(`ShuffledIn`), and that every table in hand is a part of one of some
composite's, the second one only of an object that is marked as sorted (`Belongs`). Sorting
then changes one table that belongs to no other composite, from which no
tree is read, and which nobody holds: all trees stay what they were (`SameTrees`, whence
`TreesNeverChange`), and so do the elements of all tables. A sorted table that is read is in
order (`HeldAreOrdered`) and a shuffle of the plain one, which is what `JsonTree`
promises; a key that the search finds is the one `JsonTree` looks up. There is
one lemma for each action, and the steps of the visit and of the program
change nothing that the client sees. `RootInv` says that the root still spells
`tree`.

`VisitsAreWalks` rests on the same trees. `WalkInv` adds that the tables on the
visit's stack are parts of those of composites, which is what lets a callback sort in the
middle of a walk: their elements stay what they were, and with them all that is
due (`TodoStays`). What is due of a stack is the sequence of what is due of its
frames put one behind the other (`Joined`), which is shown to be what the recursive
function `DueIn` says (`JoinsExist`, `JoinsAgree`, `TodoIsRead`) and to grow and
shrink with the stack at its front (`InnermostFirst`). There is one lemma
for each action of the visit: a callback takes the first item off
(`CallsAreWalked`), a composite that is entered puts in its place what its table
holds (`InsideIsDue`), and a descent takes an element off the innermost table
and puts it in front, where it already was (`DescentIsNotWalked`). That the program's `offset`
is the depth of the item at hand is `MainInv`; the line that it prints follows from that
(`LinesArePrinted`).

`ReadAsSpelled`, the hypothesis of `DocumentsAreTrees` and of `VisitsAreWalks`, says this of the initial
state: what is read at the first handle of the document is the tree of the
text. It is a fact about the parser and the text, not about navigation; TLC
checks it for every text of `documents`, as the initial condition of `JsonTree`
and of `TreeWalk`, and `SegmentSaysWhatWasRead` in `parsing`. It does not hold of
a text with an integer beyond a long long, of which the two theorems therefore
say nothing.
`TreesNeverChange` does not assume it.

Recursive definitions on data are proved about by strong induction on a
set of numbers (a least counterexample, from `WellFoundedInduction`), the property
a set in place of the operator that the library's theorems want.

Only model-checked:

- `Returns` and `VisitsEnd`: liveness under fairness is out of the prover's
  reach.
- `AcceptsDocuments` and `SegmentSaysWhatWasRead`: the parser against the
  grammar and the meaning of a segment. The proofs would be inductions over the
  nesting of a document, with an invariant that describes a document half read.
- `SameDocument` and `RejectsOnlyHandles`, and the types of `Speculation`: the
  module parses to the end of a text with RECURSIVE operators (`ParseOn`,
  `PreparseBuffer`), in whose reach the prover has no SMT backend.
- `VisitsInOrder` and `PrintsDocument`: they compare all callbacks and lines
  with what a recursion over the whole tree says they should be. `VisitsAreWalks`
  proves the same step by step; that the steps add up to the recursion is an
  induction over the nesting of a document half visited.
- `ReadAsSpelled`, evaluated for the texts of the runs.
- `TextsAssumption`, evaluated for the texts of the runs. `FinishedIsReadable` proves
  of the parser what it says about headers and tables within a segment; that a
  handle leads to a value, across segments, that the cells hold only data of
  their tokens and that two composites share no table remains evaluated.

## 6. Not modelled

- Allocation failures in the visitor and in the caller's own parser as outcomes
  of their own. The latter takes the path of a rejected token.
- An allocation failure of the parser inside a preparsing takes the path of
  text that cannot be parsed: `ParserThreads` has what it leaves allocated, but
  not what a reader finds in a segment whose buffer is NULL.
- The bytes of tagged values, strings that point into the text (REF_STRING) and
  short strings as two representations: a cell stands for each.
- `strtod`, beyond the texts that it cannot read; the spelling of values by the
  formatter (`%g` keeps six digits).
- Reading of arguments and file in `main`: I/O. A negative number of threads
  passes its clamp and becomes a large `size_t`.
- A document shared between threads. Sorting in place makes reading by key a
  write; no function or program of the repository shares one.
- Reading bytes off a slice and the macros of `result.h` have no definitions of
  their own: they are guards and early returns of the others.
- Tests, benchmarks and the vendored libraries.

## 7. Plan

1. Extend `FinishedIsReadable` to handles: that the value a handle skips to
   begins at a cell of the other segment. The parser takes such handles as
   tokens; that they resolve is `HandlesResolve` of `ParserThreads`.
2. Show `IsDocument` of what `Parser` stores: `ReadableInv` has a composite's
   table behind its elements and its header before them; that each table is
   appended behind all others makes them disjoint.
