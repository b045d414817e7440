# OpenString in TLA+

OpenString is a C++17 library of UTF-16 strings whose interface counts in code
points: `ostr::string` owns its units, `ostr::string_view` looks at somebody
else's. This directory models the library's own code
(`src/ostring/include/ostring`, `src/ostring/source/ostring`); `extern/` holds
vendored copies of fmt and spdlog.

Nothing here runs in parallel and nothing is sent anywhere. What makes the code
hard is that one string has three lengths (units, code points, what the cache
says), that positions of one kind are computed from positions of another in an
unsigned type that wraps, and that loops written for well-formed UTF-16 are
given anything a `char16_t` can hold.

## 1. Inventory

| Component | Source | State | Operations | Uses |
| --- | --- | --- | --- | --- |
| Code unit scans | `helpers.h:22-54, 315-365` | loop variables | `count_surrogate_pair`, `codepoint_count_to_iterator`, `..._backward` | - |
| `string_view` | `osv.h`, `osv.cpp` | a window on units | cut (`substring`, `left`, `right`, `remove_*`), search (`index_of`, `last_index_of`), `split`, compare, `start_with`, `end_with`, `trim`, `to_int` | scans |
| its iterator | `osv.h:21-97, 179-187` | offset, decoded code point, its length | `++`, `-`, `search` | conversions |
| `string` | `ostr.h`, `ostr.cpp` | `_str`, `_surrogate_pair_count` | constructors, copy, move, `+=`, `+`, `substring`, `trim*`, `replace_origin`, `decode_from_utf8` | scans, `string_view`, coder |
| Coder | `coder.cpp` | loop variables, which outlive an iteration | UTF-8 to UTF-16 and back | conversions |
| Conversions | `helpers.h:64-207` | none | `utf8_to_utf32`, `utf32_to_utf8`, `utf16_to_utf32`, `utf32_to_utf16` | - |
| Format | `format.h`, `osf.h` | parser index, `prev_holder`, `auto_index` | `format` | numbers |
| Numbers | `helpers.h:238-312`, `osv.cpp:134-141` | loop variables | `to_uint`, `from_int`, `from_float_round`, `to_int` | - |
| Hash | `helpers.h:369-436` | none | `hash_crc32` | - |

How they interact: `string` answers searches by building a `string_view` of
itself through `_str.c_str()` (so a NUL ends it), cuts by positions through the
scans, and lets the coder append to `_str`. `string_view` computes its length on
every call; `string` keeps `_surrogate_pair_count` beside the units, and each of
its methods is responsible for keeping the two in step. All `string_view`
methods are `noexcept` and call `u16string_view::substr`, which throws: a wrong
position ends the program.

What is hard: the cached count (every method maintains it in its own way),
mixed units of measure, wrapping `size_t`, ill-formed text, exceptions in the
middle of `replace_origin`, loops that advance by a computed length, loops that
do not compare with the ends of the view they run in, and a parser that moves
one index from four nested places. What makes each component correct:

* scans: the count returns on every string, a walk on every string but those it
  steps over the end of; they agree with each other, and on well-formed text count
  code points as Unicode does, without reading outside the string;
* `string_view`: a cut, a search result or a comparison means the same in code
  points as its interface says; on well-formed text the cuts, `split`, `start_with`
  and `end_with` do not throw (`trim_start` does, see `BlankCause`); the loops over
  the view come back and stay in it;
* `string`: the cache is the number of pairs, well-formed strings stay so, a
  replacement replaces what it should and comes to an end;
* coder and conversions: the code points of a text stay the same, the loops
  return and stay in their buffers;
* format and numbers: what is written can be read back; each placeholder is
  replaced by its argument and everything else is copied once.

`PROJECT.json` lists the hazards with their lines and the properties that cover
them; the one that none covers has a note that says why.

## 2. Modules

```
CodeUnits -- Scans --------------------------- ScansProofs
   |
StringViewMethods -- StringView -------------- StringViewProofs
   |          \----- OStr -------------------- OStrProofs
   |
   \-- CodeUnitsLemmas (with CodePointCodec), which all modules of proofs extend

CodeUnits -- CodePointCodec -- Utf8Decoder --- Utf8DecoderProofs
                         |  \-- Utf8Encoder --- Utf8EncoderProofs
                         \----- ViewLoops ----- ViewLoopsProofs

Utf8Decoder, Utf8Encoder -- Transcoding

CodeUnits -- Numbers -- Format --------------- FormatProofs
                         /    \
            FormatParts ------ Formatting
```

**`CodeUnits`** has the code units (numbers below 2^16), `size_t` with its
largest value `SIZE_MAX` as a parameter and `Wrap` for its arithmetic, and the
three scans as functions of a string. A string is a sequence; offset `i` of the
code is index `i + 1`. The scans are given by closed forms, without recursion,
so that theorems can be stated about the modules that use them:

* the loop of `count_surrogate_pair` stands at an index exactly if the run of
  lead surrogates before it has even length (`AtScanHead`), and it counts the
  pairs that begin at such an index;
* `codepoint_count_to_iterator` finds the offset whose cost is the count. Where
  an unpaired lead surrogate at the last count makes the counter wrap, the walk
  goes to the end, or past it (`PastEnd`, the one offset that stands for every
  offset outside; reading there is undefined and the callers never do anything
  with it but reject it).

The rest of the module says what Unicode means: `WellFormed`, `CodePoints(s,
from, to)`, `CodePointCount`.

**`Scans`** has the two forward loops themselves, an action for each path through
the body, and justifies the closed forms. A walk that steps over the end with code
points left to count does not return there: it compares with the end for equality
(`helpers.h:337`) and goes on in what lies behind the string. The model stops at
that step, in the state `overrun`, which no property takes for a return; `WalksOff`
says of which strings and counts it happens: the string ends in an odd run of lead
surrogates (`EndsInSkip`), and the counter is used up neither in it nor just behind
it.

**`StringViewMethods`** translates the methods of `string_view` as operators.
An operator of a method that can throw returns the set of its results, empty if
it throws. **`StringView`** is a caller that makes one call on one view; its
properties compare the result with the meaning in code points. Only the split
into a vector is more than one step: `SplitAll` starts it, `SplitTurn` is a turn
of its loop, in which `rhs` is split into `lhs` and itself, and `SplitReturn`
pushes what is left. A turn in which `split` throws is no step.

**`OStr`** is a program with a set of string objects. `str` is `_str` of each,
`surrogate_pair_count` the cached counts, and `call` the call of
`replace_origin(src, dest)` that is under way: an action is one whole method
call, but an iteration of that loop is an action of its own, because the loop
can be left by an exception with the string half changed. Copies (`substring`,
`trim_copy`, `+`) assign their result to one of the objects. `ReplaceThrows`
is the failing allocation of an iteration that lengthens the string;
`Terminated` is `std::terminate`, reached when a search throws. A method that
throws before it has changed anything is no step.

**`CodePointCodec`** has the conversions of one code point (`helpers.h:64-207`)
as functions of a sequence and an offset into it, in 32 bits, and beside them
UTF-8 and UTF-16 as Unicode defines them. The masks and shifts become division
and remainder. `endian` and the null pointer, which nothing in the library
passes, are left out.

**`Utf8Decoder`** and **`Utf8Encoder`** are the two loops of
`coder::convert_append`. `source` is the memory the view lies in and the size of
the view, `it` the offset of the iterator, which may pass the view's end, `out`
what has been appended, and, in the decoder, `utf16` the pair and length that
live from one iteration to the next; at first they are what the stack holds
(`StackUnits`). `Exhausted` is an append that throws (both callers are
`noexcept`), `Overrun` a read outside the buffer. **`Transcoding`** is what both
promise: code points are handed over one by one, in order, and the converter
returns. In the refinement, `rest` is the text encoded between the iterator and
the end of the view, `done` the text that `out` encodes; a source has the text
its view shows as a field for that purpose. Of other views (`NoText`)
`Transcoding` promises nothing, and the invariants say what happens.

**`ViewLoops`** has the methods of a view that walk over memory by themselves:
`search`, `trim_start`, `trim_end` and `trim`. A view is a window on a buffer
(`begin`, `size`), and `it` an offset from its beginning that may leave it at
either end. The iterator keeps the code point it stands at; since it decodes
anew after every move, that is a function of `it`, and no variable. `Found`,
`NotFound`, `TrimStartReturn` and `TrimEndReturn` return, `TrimStartThrows` is
`substr` throwing inside a `noexcept` method, `Overrun` a read outside the
buffer. `trim` is both trims, the second on the result of the first.

**`Numbers`** has `to_uint`, `from_int` and `to_int` with the largest `int` as a
parameter, and `from_float_round` with the bits of a float's mantissa. An
operator whose arithmetic may leave `int`, which is undefined, is the set of its
results, and empty then. A float is a fraction with a power of two below it, and
its product with ten is rounded to the nearest float. Powers, and every loop over
digits, are recursive functions, which proofs can unfold.

**`Format`** is the parser of `ofmt::format`: `i`, `prev_holder`, `auto_index`
and `ans` are the function's variables, `index`, `alignment` and `sign` those of
a placeholder, and `pc` says which of the four loops runs. An action is one
iteration of a loop, or one way out of it. `NDEBUG`, chosen at first, says
whether assertions are compiled: with them an unknown character is `Aborts`,
without them `SkipUnknown`. `Undefined` is a read behind the buffer (the
character after a brace or a comma is read unasked), an alignment beyond `int`,
or `from_int` of the smallest `int`. **`Formatting`** is what `format` promises,
on formats written from parts (**`FormatParts`**): the parts are answered in
order, one by one, each placeholder by its argument, and the answer is returned.
In the refinement the parts still to be answered are those that end behind `i`,
and the answer is `ans` with the text that has been read and not yet copied. Of
other formats (`NoParts`) `Formatting` promises nothing, and the invariants of
`Format` say what happens.

**`CodeUnitsLemmas`** and the modules whose names end in `Proofs` hold the
proofs; see section 4. Definitions with
"Mutant" in their comment are plausible bugs: with one of them in place of the
definition it mutates, the run that the table `mutants` of `PROJECT.json` names
has to report a violation.

## 3. Runs

| Run | Config | Bounds | States | Shows |
| --- | --- | --- | --- | --- |
| Scans | `MCScans.cfg` | all strings up to 6 of 4 units; walks of 0..7, `SIZE_MAX`-1 and `SIZE_MAX` code points | 326 954 | both loops equal their closed forms; the count returns, and so does a walk that does not walk off the end, which others do; on well-formed text the count has every pair, and the walk is exact and in bounds |
| StringView | `MCStringView.cfg` | views up to 5 of 4 units, patterns up to 2, with a fifth unit above the surrogates in views and patterns up to 2; positions 0..6 and `SIZE_MAX` | 660 493 | each method means in code points what it says; those named in `NeverThrows` do not throw on well-formed text; a split into a vector loses no more than a code point for each splitter, and every turn makes the rest shorter |
| OStrTwo | `MCOStrTwo.cfg` | 2 objects (symmetric), 3 units, `MaxSize` 3 | 51 360 | which calls may spoil a cached count, which may spoil well-formedness |
| OStr | `MCOStr.cfg` | 1 object; NUL, a letter and surrogates; patterns up to 1, `MaxSize` 4, positions 0..2 and `SIZE_MAX` | 117 815 | the same with `replace_origin` and its exceptions; `substring` and `replace_origin(from, count)` exact |
| Replace | `MCReplace.cfg` | texts up to 3, src and dest up to 2, of 5 units with NUL, `MaxSize` 6 | 320 620 | the loop ends, cuts inside the string, replaces everything in the cases it can |
| Decode | `MCDecode.cfg` | texts up to 3 of 8 code points at the boundaries of the first plane; views of every size on all sequences up to 4 of 7 bytes; 3 contents of the stack | 149 425 | the decoder implements `Transcoding`; it returns from views of whole characters without NUL, and in buffers of whole characters from no others; causes of overrun and of stale units |
| Encode | `MCEncode.cfg` | texts up to 3 of 8 code points at the boundaries of all planes; views of every size on all sequences up to 4 of 5 units, with a NUL behind or without | 49 300 | the encoder implements `Transcoding`; it returns exactly from views without NUL and unpaired leads; it never passes a terminator |
| ViewLoops | `MCViewLoops.cfg` | every view of every buffer up to 4 of 5 units, with a NUL behind or without; predicates that hold for a letter, for a supplementary code point, for nothing | 336 484 | `search` finds the first code point, comes back, and passes the end only inside a pair; the trims are exact on views that hold more than spaces, and what becomes of the others |
| Format | `MCFormat.cfg` | formats up to 3 of 10 parts with 10 lists of arguments; one placeholder with 5 125 floats; views up to 4 of 7 units with a NUL, a brace or nothing behind | 396 169 | the parser implements `Formatting`; integers and floats written are read back; when it throws or leaves memory; no text is lost or doubled unless a brace stays open |

Two runs show a disagreement between the code and its comments, each with one
property that the comment states:

| Run | Comment | What the code does |
| --- | --- | --- |
| ReplaceEvery | "all occurrences ... are replaced" (`ostr.h:217-218`) | the loop stops at the size the string had before (`ostr.cpp:91, 95`): `aa` with `a` replaced by `aa` loses an occurrence |
| DecodeSupplementary | "hold the real value of grapheme" (`helpers.h:188`) | `utf32_to_utf16` does not take off 0x10000 (`helpers.h:175`): U+10000 becomes `D840 DC00`, which is U+20000 |

More are visible in the conditions of properties that hold:

* `CacheStaysExact` lists decoding text beyond the first plane in `StaleCause`:
  `decode_from_utf8` (`ostr.h:249-252`) leaves the cached count as it was, and
  `length()`, "the length of string" (`ostr.h:111`), counts the decoded pairs
  twice.
* `SubstringExact` has to demand that no pair follows the range (`Cuttable`): `substring`
  adds all pairs behind `from` to the size (`ostr.cpp:37-40`), and
  `"😘".substring(0, 0)` is half a pair, where `ostr.h:188` says "how many chars
  you want".
* `ReplacesAll` has to leave surrogates out: an index in code points is used as
  an offset in units (`ostr.cpp:97`), and behind a pair the wrong units go. It has
  to leave a NUL in the text or in `dest` out as well: the next search is made in
  `c_str()` (`ostr.cpp:48`, `ostr.h:106-109`), which ends there, so that no occurrence behind it
  is found. `ReplacesEveryOccurrence`, which the run ReplaceEvery refutes, leaves
  NUL out as well.
* `ComparesByCodePointBelowSurrogates` has to leave out units above the
  surrogates: code units are compared (`ostr.h:146`), where the comment says
  "Compare with unicode value." (`ostr.h:141`), and U+FF5E sorts after every
  supplementary code point. It bounds the units of both operands: a pattern is
  an operand like the view.
* `SplitExact` says that of a splitter one code point is taken off, however many
  it has (`osv.cpp:94`).
* `BlankCause`: a view of spaces is trimmed correctly only if no space follows
  it in memory, and by `trim_end` only if none precedes it (`osv.cpp:117, 127`).
* `SearchReturns` has to leave out views with a NUL, at which the iterator does
  not move (`osv.h:50`, `helpers.h:129-160`).
* `FloatReadsBack` is about absolute values: `from_float_round` takes `abs` and
  never writes a sign (`helpers.h:299`). It allows two hundredths, because digits
  are written until the rest of the last multiplication is 0.01 or less, whatever
  place that digit has.
* `TextOnce` has to leave out formats in which a brace stays open: the text
  before it is written twice (`format.h:158, 243`).

**Why the bounds are enough.** A scan distinguishes units by class only: lead
surrogate, trail surrogate, other. Six units hold every way in which two pairs,
runs of up to six leads and stray trails can follow one another. Views of five
units hold two pairs and a unit between, before or behind them, and patterns of
two a whole pair or half of one. The upper and lower case of one letter are
there for the case-insensitive search; U+FF5E, which lies above the surrogates,
for the order: in views and patterns of up to two units it meets the exception of
`ComparesByCodePointBelowSurrogates`. Positions reach one code point beyond the longest view, and `SIZE_MAX` is the default argument.
`SIZE_MAX` is small (7 to 63) so that TLC meets wrapped values; it is always
more than twice the longest string, as it is in the program, so that a wrapped
difference is never a valid position by accident. `MaxSize` caps the strings
(`std::u16string::max_size()`); a call whose result would be longer does not
happen, except in `replace_origin`, which throws.

The conversions change their form at the boundaries that the texts are made of,
and a loop knows nothing of the characters before but the units left over. The
bytes are one of each kind that the decoder can tell apart by what it does next:
NUL, ASCII, a continuation byte of value 0 and one of another, first bytes of
two and of three, and `C0`, which makes the value 0 of two bytes. `Room` is more
than a loop that advances can append, so that only one that stands still
exhausts it. The bytes `FE` and `FF` are left out: their values need more than
TLC's 32 bits. A stack whose length is 0 is among `StackUnits`: with it a
decoder at a leading NUL loops for ever without appending.

Buffers of four units hold every view of up to four with what matters around it:
a space, a unit that is none, or nothing on either side, the second surrogate of
a pair that the view cuts, and a terminator. A code point is sought that the
iterator has to decode from a pair, and one that it need not.

The parts of a format are one of each kind that the parser treats differently:
text, either brace, placeholders without a number and with one, of an argument
that exists and of one that does not, with a width on either side, with a sign
before it, with two digits, and with a parameter, empty or not. Three of them
hold any two with text between them, and manual numbers before automatic ones;
an automatic one before a manual one is an error and left out. The integers are
both ends of `int`, 0, the two sides of a power of ten, and the last number that
`to_int` can read (the larger ones are written and leave `int` when read, as
`IntReadsBack` says); `INT_MAX` is 999 so that `int` has an end that TLC reaches.
The floats have 11 bits, the fewest for which `FloatReadsBack` is proved: integral
ones on either side of `INT_MAX`, all that have three bits before the point, and all
fractions of the form m/2^11 and, below 1/4, m/2^13; a product with ten drops up to four bits,
as it does with 24.
Views of four units over braces, comma, colon, minus, a digit and a letter reach
every assertion and every way to end inside a placeholder; one view of its own
has an alignment beyond `int`.

**Deadlock** is checked in OStrTwo. Elsewhere the system stops by design: the
loop has returned, the one call was made, or `std::terminate` was called; after
an overrun anything may happen.

**Fairness.** `FairSpec` (of the scans, the coder, `ViewLoops` and `Format`), the
`Spec` of `Transcoding` and `Formatting`, and `ReplaceSpec` assume
weak fairness of the loop: it runs on the caller's thread, holds no lock and
waits for nothing, so that an enabled iteration is executed. The
`Spec` of the other modules and `CallSpec` assume none: callers need not call.
That the split into a vector ends is therefore stated as `SplitShrinks`.

**Reading `CacheStaysExact`.** It is an action property: from a state in which
all caches are right, a step leads to one in which one is wrong only if it is
one of `StaleCause`: a move from a string with pairs, decoding text beyond the
first plane, appending to a string that ends in an odd run of lead surrogates,
`substring` of a string with pairs that is not `Cuttable`, an iteration of
`replace_origin` in which surrogates take part. That list was found by TLC, not
assumed; every other step is claimed to be right: trims and fills, which do not
scan, a `substring` whose range no pair follows, and a `replace_origin` without
surrogates, also when it ends in the middle by an exception.

## 4. Proofs

All theorems are checked by TLAPS for every value of the constants that meets
the assumptions, which TLC evaluates on the constants of each run:

| Assumption | Says |
| --- | --- |
| `SizeMaxAssumption` | `SIZE_MAX` is a positive number |
| `ScansAssumption` | strings are sequences of code units; twice the length of one is below `SIZE_MAX`, up to which the counter of a walk goes; counts are of `size_t` |
| `ViewsAssumption` | views and patterns are sequences of code units, no longer than `SIZE_MAX`; positions are of `size_t` |
| `OStrAssumption` | texts, patterns and fills are of code units; positions are of `size_t`; twice `max_size()` is below `SIZE_MAX` |
| `ViewLoopsAssumption` | a view lies in its buffer, twice whose length is below `SIZE_MAX` |
| `DecoderAssumption`, `EncoderAssumption` | a view lies in its buffer, and shows its text if it has one |
| `IntMaxAssumption` | `INT_MAX` is a number of `size_t` and at least 99, so that two digits make an `int` (C++ guarantees 32 767) |
| `FltMantDigAssumption` | a float's mantissa has at least 11 bits: a fraction's product with ten, rounded, is less than ten, and the errors of two such products add up to less than a thousandth (C++ guarantees six decimal digits, which take 21 bits) |
| `FormatAssumption` | a view lies in its buffer, and the front of it that ends where a part ends is what is written from the parts up to it; parts have numbers of `size_t`, widths of `int` other than the smallest, and no number after a placeholder without one; `NoParts` is no rest of a format; arguments are of the types that `format` takes |
| `TextsAssumption` | texts are sequences of Unicode scalar values other than NUL, and `NoText` is none of them |
| `StackUnitsMarked` | a hypothesis of `StackOnlyByNul` alone: units left over on the stack can be told from those that the text is converted to; without it nothing can be said of where a unit came from |
| `FirstPlaneTexts` | a hypothesis of `ConvertsFirstPlane` and `HoldsInFirstPlane` alone: the views decoded show text of the first plane. It holds of the sources of the run Decode; that it cannot be left out is what the run DecodeSupplementary shows |

That twice a length is below `SIZE_MAX` holds of every implementation: a unit is
two bytes.

Two devices are used throughout. Induction over the natural numbers: the
library's induction theorems have an operator for a parameter, which no prover
here instantiates, so that `CodeUnitsLemmas` proves `SetInduction`, about a
*set* of numbers that has 0 and with each number the next, from the library's
theorem that every non-empty set of them has a least element. The recursive
functions of the model (`codepoint_count_to_iterator_backward`, the value that
`utf8_to_utf32` gathers, the reference `AllReplaced`) are unfolded with it, and so
is the library's function behind `FlattenSeq`. And counting: the cost of a position and
the number of a code point are cardinalities of sets that grow by none or one
element per unit (`StepCosts`, `StartsOfUnits`).

**`CodeUnitsLemmas`** has what the modules below share: at which indices the head
of the scan stands and which pairs it counts, in a string, in its prefixes, and
in two strings joined (`HeadAfterLead`, `CountedPrefix`, `CountedShift`,
`ConcatCount`); what the two walks of `helpers.h:33-54` return on well-formed
text (`WalkForward`, `WalkBackward`); and the calculus of cuts: a part of a
well-formed string between two beginnings of code points has these code points
and is well-formed (`CodePointsBetween`, `SubstringCuts`, `CodePointsInfix`,
`CutWellFormed`, `JoinWellFormed`). For the coder it has what a text and its two
encodings share: how many pieces were joined can be told from what they join to,
none being empty (`JoinsTell`), so that an offset in an encoding is that of one
code point only (`FrontTold`); the next code point is encoded at that offset
(`PieceFollows`); and what the conversions of one code point write and read
(`WritesUTF8`, `ReadsUTF16`).

**`ScansProofs`**: `ReturnsCount` and `CountsEveryPair` (`CountCorrect`,
`EveryPairCorrect`), `ReturnsPosition` and `PositionExact` (`PositionCorrect`,
`PositionOfCodePoint`), over `TypeOK` (`TypeCorrect`). The closed forms say nothing
of iterations, so that none of the four is inductive. `ScanInv` (`ScanCorrect`) is,
of the count: it adds that `from` is at most one beyond the end, that it is
an index at which `AtScanHead` holds (or past the end), and that the counter is
the number of the selected pairs up to there. In well-formed text the head stands
at every pair, which gives `CountsEveryPair`. `WalkInv` (`WalkCorrect`), of the
walk, has two cases. Inside the string the head stands at the iterator, and what
the position costs and what is left of the counter add up to the count asked for,
or to `SIZE_MAX + 1` more: then an unpaired lead surrogate has made the counter
wrap, and no position costs exactly the count. Outside, the last unit is a lead
surrogate that the head stood at. On well-formed text neither happens. The same two
cases give the part of `PositionCorrect` about returning. A walk that ends inside the
string has either used its count up there, so that the count is one of `UsedUp`, or
reached an end at which the head stands, so that the string does not end in an odd
run. Outside, no position costs the count; all of the string does exactly if nothing
is left to count.

**`StringViewProofs`**: of one call on one view, `CutExact`, `SearchExact`,
`AffixExact`, `NeverThrows`, `ComparesByCodePointBelowSurrogates`, `SplitExact` and
`SplitShrinks` (`CutsBetweenCodePoints`, `SearchesCodePoints`, `AffixesTold`,
`CutsNeverThrow`, `ComparesCodePoints`, `SplitsEverywhere`, `EveryTurnShrinks`). `CallInv` only says
that the result is one that the method returns for the arguments kept in `call`;
most of the theorems are about those methods. `RestInv` is what `CutsNeverThrow`
needs of the turns of the split into a vector: of a well-formed view the rest stays
well-formed. For
the split into a vector `SplitInv` says what a turn finds: `rhs` is what follows
the code point at the last cut, and `str` has the pieces that end at the cuts up
to there, numbered by how many cuts precede each (`OnePieceMore`); the cuts of
the rest are those of the view that lie in it (`CutsOfTail`). A search that compares units finds code
points since a match of a well-formed pattern begins and ends between code
points, and an index in units becomes one in code points by the count of pairs
before it. The order of the units is the order of the code points as long as no
unit above the surrogates takes part (`LexLessIs`, and the order of the values of
two code points by their first differing unit).

**`ViewLoopsProofs`**: `SearchStays`, `SearchFinds`, `TrimExact` and `BlankCause`
(`SearchWithin`, `SearchCorrect`, `TrimCorrect`, `BlankCorrect`). `LoopInv` says
what each loop has walked over: `trim_start` and `trim_end` spaces only, within
the view or behind it, and `search` at most one unit beyond the view's end, if
that end lies inside a pair. `FindInv` adds, for a view of well-formed text, that
the iterator stands between code points and that none of those before it was
sought.

**`Utf8DecoderProofs`**: `OverrunCause`, `ReturnsOnlyWhole` and `StackUnitsCause`
(`OverrunOnlyTorn`, `ReturnMeansWhole`, `StackOnlyByNul`). `LoopInv`: in a buffer
of whole characters the iterator stands at the first byte of one or at the end,
and has passed no NUL. `AppendInv`: what has been appended, and what the next
iteration would append once more, was written for a character. The safety of the
refinement `Converts` and the property `HoldsRealValue` of decoded text are proved
for the first plane (`ConvertsFirstPlane`, `HoldsInFirstPlane`), whatever the stack
holds: `TextInv` says that the bytes before the iterator and the units appended
encode the same number of code points of the text, so that each iteration is
`Transcoding`'s next step; `ReadsUTF8` says what `utf8_to_utf32` reads there, for
every scalar value. An iteration that appends what was left over does not occur in
a text.

**`Utf8EncoderProofs`**: `NeverOverruns` and `ReturnsOnlyWhole`
(`BufferNeverOverrun`, `ReturnMeansWhole`). Both are about where the iterator has
been: `LoopInv` says that it stays before the terminator, and has passed no NUL
and no lead surrogate but with the trail surrogate behind it. The safety of the
refinement `Converts` (`ConvertsInOrder`) is proved for every text, pairs included,
with the `TextInv` of this direction.

**`OStrProofs`**:

* `TypeOK` (`StringTypesCorrect`) is inductive as it stands; it needs that a
  string which fits has a count that fits (`CountFits`) and the types of the
  pieces that `substr` and `replace` make. All the other theorems rest on it.
* `CacheStaysExact` (`CacheMaintained`): with one lemma for each way in which a
  method gets its new count: by a scan, by taking it over, by adding, by a
  constant, by `substring` of a string that is `Cuttable` (`CutsOfStrings`), and by an
  iteration of `replace_origin` without surrogates, which has no pairs before and
  after it (`IterationExact`).
* `WellFormedKept` (`StaysWellFormed`): as long as all strings are well-formed,
  one becomes ill-formed only by a step of `IllFormedCause`: ill-formed input,
  half a pair repeated by a fill, `substring` of a string with pairs that is not
  `Cuttable`, an iteration of `replace_origin` in a string with pairs or with an
  ill-formed `dest`.
* `SubstringExact` and `ReplaceRangeExact` (`SubstringsExact`, `RangesReplaced`)
  are about what the two methods return for any string that an object can hold
  (`substring` for one that is `Cuttable`): they need `TypeOK` and the lemmas about
  cuts and walks.
* `SpliceInRange` (`IterationsCutInside`; of one call alone, `OneCallCutsInside`):
  `IndexInv` says that the index found leaves room for `src` behind it, in the
  string as it is after every earlier iteration.
* `ReplacesAll` (`ReplacesAllOccurrences`, `OneCallReplacesAll`): by `ReplaceInv`
  the string consists of `d`, what has been written for the first `i` units of
  the text, and of the rest of the text, and the index is that of the next
  occurrence in that rest. `IsReplacing` characterises the recursive function of
  `AllReplaced`, and `d` followed by what it makes of the rest stays the same. The
  loop stops at the length the text had at first; as `dest` is not longer than
  `src`, the string never gets longer than that, and no occurrence is missed.

**`FormatProofs`**, of `Format`:

* `ParserTypesCorrect`: `ParserTypes` adds to the types that the text not yet
  copied lies between `prev_holder` and `i` (`CopiedWithin`) and that an alignment
  was read behind a comma only once (`WidthOnce`).
* `OutsideCause` (`FailuresExplained`): where the parser stands when it leaves
  memory or throws, and that writing a float ends: each digit takes a power of two
  out of what is left of the fraction, so that after as many digits as the
  exponent has bits nothing is left (`FractionEnds`).
* `TextOnce` (`TextKeptOnce`): `PlainInv` counts a unit in what has been copied and
  in the text up to `i`; both sums are over the same unit of the two strings that
  a step joins (`CountJoined` and its like).
* The safety of `AnswersParts` (`AnswersInOrder`): `PartsInv` says in which part the
  parser stands and where in it: before it; behind its brace; behind the first
  digits of its number or its width (`FirstDigits`), whose value is what `index` or
  `alignment` holds; or in its parameter. It holds of every format written from parts,
  also with arguments, such as floats, that `Formatting` promises nothing about. That
  `auto_index` is -1 exactly if no placeholder without a number has been answered
  (`AutomaticSeen`) makes the assertions about it hold. A step of the parser either goes on in its part, which is
  a stutter (`Unseen`), or ends it, which is `AnswerPart` (`Answers`): then the argument
  is that of the part, and filled up as the part says. It needs what the digits of a
  written number are (`Numeral` and the lemmas on `Ten`), and that the first unit of
  what is left tells which kind of part comes next (`NextInText`, `NextInHolder`).
* `IntReadsBack` (`NumbersReadBack`): `OneInv` says that a format which is one
  placeholder is answered with one of the strings of the argument, filled up with
  spaces to the width; it needs where the parser stands in that placeholder, which
  `PartsInv` says of it as of any other format. `DigitsRead` folds the digits with
  `to_uint` and `to_int` and finds, after each, the number divided by a power of ten,
  which stays in `size_t`, and in `int` up to the last digit. That one is added after
  its character, `'0'`, has been (`osv.cpp:139`): `to_int` reads the number exactly if
  it and 48 are an `int` together, and leaves `int` otherwise.
* `FloatReadsBack` (`FloatsReadBack`): by `OneInv` as well, and an error analysis of
  `from_float_round`. Rounding to the nearest float errs by half a unit in the last
  place (`NearestNear`), so that one product of a fraction with ten errs by less than
  1/200 (`TimesTenNear`), and so does the rest behind a digit (`DigitNear`). The digits
  end early only where a rest is 0.01 or less; two digits, or one and such a rest, or
  none and a fraction such as that, leave the error that the property allows
  (`HundredthsNear`). That the point found in the text is the one written, and that
  `to_uint` reads the two digits in front of what follows, are lemmas of their own
  (`PointParts`, `TwoDigitsRead`).

Attempts to prove them have corrected three properties, each of which had held
on the small instances only because of their bounds: `ReplacesAll` did not exclude
a NUL, and `ComparesByCodePointBelowSurrogates` did not bound the pattern's units;
the exceptions of `WellFormedKept` are named in `IllFormedCause` since the proof
needs them one by one.

Only model-checked is everything under fairness: `ScansReturn` (from which strings a
walk can return is proved in `PositionCorrect`), `ReplaceEnds`,
`ReturnsWhole`, `SearchReturns`, and the part of the refinements `Converts` and
`AnswersParts` that says the converter and the parser return. Liveness is out of
this prover's reach.

## 5. Not modelled

Infinities and NaN, whose conversion to `int` in `from_float_round` is undefined,
and floats of more integral bits than the mantissa has, which have no fraction
and are written as `from_int` writes integers. What narrow characters beyond
ASCII, which `format` widens one by one, stand for. What `format` should answer
to a placeholder with a width or a parameter and no number, or to a number after
a placeholder without one, nothing in the repository says: the model has what the
code does, and no property is about it. The CRC (`hash_crc32`) is a pure function
of a table of 256 constants, in which there is no state and no order to get
wrong. `OStr` takes what the coder appends as any text without NUL. Views passed
to `string` methods do not alias the string's buffer. `get_hash`, `operator==`
and the other const methods of `string` that forward to the view change no
state, `osf.h` forwards to `format`, and the adaptors for fmt and spdlog and the
vendored libraries themselves are not the library's own logic. Exceptions of
methods that have changed nothing are no steps.

## 6. Plan

1. Done: `CodeUnits`, `Scans`, `StringViewMethods`, `StringView`, `OStr`, and the
   proofs above.
2. Done: `CodePointCodec`, `Transcoding`, `Utf8Decoder`, `Utf8Encoder`, and the
   proofs about both directions, the safety of their refinements included.
3. Done: `ViewLoops` (iterator, `search`, the trims), the split into a vector in
   `StringView`; `Numbers`, `FormatParts`, `Formatting`, `Format`.
4. Done: the proofs of section 4: every invariant and action property of the
   runs, and the safety of every refinement.
5. To do: an abstract string of code points that the methods of `OStr` implement as
   long as the steps of `StaleCause` do not happen.
