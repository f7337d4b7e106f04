------------------------------ MODULE GgufReader ------------------------------
(***************************************************************************)
(* GgufMetadataReaderImpl on the FileInputStream that MainActivity opens:  *)
(* the header, the key-value pairs, the skipped ones and the arrays that   *)
(* are summarised.                                                         *)
(*                                                                         *)
(* A file is a row of cells: a type code, a length and a narrow value take *)
(* one cell, a wide value two, a string its length.  Only the cells that   *)
(* steer the reader have a value, which is chosen when it is read: every   *)
(* file, well formed or not, is one of the choices.  Long and Int are      *)
(* scaled down to a few bits.                                              *)
(***************************************************************************)
EXTENDS Integers, Sequences

CONSTANTS
    Cells,        \* values of a cell, as a Long or as a type code
    IntBits,      \* width of an Int; a Long is wide enough for all Cells
    Threshold,    \* arraySummariseThreshold
    MaxSize       \* bound of the model: cells of a file

\* The type codes: up to four bytes, eight bytes, string and array.
Types == 0 .. 3
Narrow == 0
Wide   == 1
Str    == 2
Arr    == 3

ASSUME CellsAssumption ==
    /\ Cells \subseteq Int /\ Types \subseteq Cells
    /\ IntBits \in Nat \ {0} /\ 2 ^ (IntBits - 1) \in Nat \ {0}
    /\ Threshold \in Int /\ MaxSize \in Nat

VARIABLES
    size,      \* length of the file
    file,      \* the cells that have been read
    pos,       \* of the stream; it may be behind the end
    status,    \* "header", "reading", "done" or "failed"
    kv,        \* pairs that are left
    work,      \* values that are left, of the innermost array first
    spans,     \* history: first and last cell of each value in the map or skipped
    lost       \* history: how the reader left what the file says

readerVars == <<size, file, pos, status, kv, work, spans, lost>>

MaxInt == 2 ^ (IntBits - 1) - 1

\* Long.toInt()
ToInt(n) == ((n + MaxInt + 1) % (2 * (MaxInt + 1))) - MaxInt - 1

Times(n) == IF n > 0 THEN n ELSE 0      \* rounds of repeat(n)

ReaderInit ==
    /\ size \in 0 .. MaxSize
    /\ file = << >> /\ pos = 1
    /\ status = "header" /\ kv = 0 /\ work = <<>>
    /\ spans = <<>> /\ lost = {}

\* The file goes on as the reader finds it: with v at p.
Known(f, p, v) == [q \in DOMAIN f \cup {p} |-> IF q = p THEN v ELSE f[q]]
Learn(p, v) == file' = Known(file, p, v)
LearnBoth(p, v, q, w) == file' = Known(Known(file, p, v), q, w)

\* An IOException, or the IllegalArgumentException of ArrayList(count).
Fail(lostNow) ==
    /\ status' = "failed" /\ lost' = lost \cup lostNow
    /\ UNCHANGED <<size, pos, kv, work, spans>>

\* A count that does not survive toInt, or is negative, is not refused.
CountLost(n) == IF n < 0 \/ ToInt(n) # n THEN {"count"} ELSE {}

\* A string longer than an Int counts is refused, even one that is in the file
\* up to the cell last.
LongLost(l, last) == IF l > MaxInt /\ last <= size THEN {"long"} ELSE {}

\* readStructuredMetadata.  Cell 0 stands for magic, version and tensor count.
Header ==
    /\ status = "header"
    /\ \/ Learn(0, 0) /\ Fail({})
       \/ size < 1 /\ Learn(0, 1) /\ Fail({})
       \/ \E n \in Cells :
              /\ size >= 1
              /\ LearnBoth(0, 1, 1, n)
              /\ pos' = 2 /\ kv' = Times(ToInt(n)) /\ lost' = CountLost(n)
              /\ status' = "reading"
              /\ UNCHANGED <<size, work, spans>>

\* readMetaMap: the key with readString, the type code, and whether the key
\* is one of skipKeys.
Pair ==
    /\ status = "reading" /\ work = <<>> /\ kv > 0
    /\ \/ pos > size /\ UNCHANGED file /\ Fail({})
       \/ \E l \in Cells, t \in Cells, skip \in BOOLEAN :
              LET q == pos + 1 + l IN
              /\ pos <= size
              /\ IF l < 0 \/ l > MaxInt \/ q > size
                 THEN Learn(pos, l) /\ Fail(LongLost(l, q))
                 ELSE /\ LearnBoth(pos, l, q, t)
                      /\ IF t \notin Types THEN Fail({})
                         ELSE /\ pos' = q + 1 /\ kv' = kv - 1
                              /\ work' = <<[type |-> t, left |-> 1, skip |-> skip]>>
                              /\ spans' = Append(spans, <<q + 1, 0>>)
                              /\ UNCHANGED <<size, status, lost>>

\* Mutant: waits for the bytes that were skipped.
Finish_WaitsForEnd ==
    /\ status = "reading" /\ work = <<>> /\ kv = 0 /\ pos <= size + 1
    /\ status' = "done"
    /\ UNCHANGED <<size, file, pos, kv, work, spans, lost>>

Finish ==
    /\ status = "reading" /\ work = <<>> /\ kv = 0
    /\ status' = "done"
    /\ UNCHANGED <<size, file, pos, kv, work, spans, lost>>

\* The end of repeat(count), and of a value when it is the outermost.
EndValues ==
    /\ work # <<>> /\ status = "reading" /\ Head(work).left = 0
    /\ work' = Tail(work)
    /\ spans' = IF Len(work) = 1
                THEN [spans EXCEPT ![Len(spans)] = <<@[1], pos - 1>>] ELSE spans
    /\ UNCHANGED <<size, file, pos, status, kv, lost>>

\* One more value of the innermost array, of a given type.
Begins(types) ==
    /\ work # <<>> /\ status = "reading"
    /\ Head(work).left > 0 /\ Head(work).type \in types

Rest == [work EXCEPT ![1].left = @ - 1]

\* Go on behind n cells; FileInputStream.skip goes behind the end as well.
Advance(n, lostNow) ==
    /\ pos' = pos + n
    /\ lost' = lost \cup lostNow \cup (IF pos + n > size + 1 THEN {"past"} ELSE {})

\* Mutant: eight bytes are skipped like four.
Number_SkipsFour ==
    /\ Begins({Narrow, Wide})
    /\ UNCHANGED file
    /\ LET w == IF Head(work).type = Narrow \/ Head(work).skip THEN 1 ELSE 2 IN
       IF ~Head(work).skip /\ pos + w > size + 1 THEN Fail({})
       ELSE /\ Advance(w, {}) /\ work' = Rest
            /\ UNCHANGED <<size, status, kv, spans>>

\* A number: parseValue reads it, skipValue skips its width.  A boolean that
\* is neither 0 nor 1 is refused when it is read.
Number ==
    /\ Begins({Narrow, Wide})
    /\ UNCHANGED file
    /\ LET w == IF Head(work).type = Narrow THEN 1 ELSE 2 IN
       IF ~Head(work).skip /\ pos + w > size + 1 THEN Fail({})
       ELSE \/ /\ Advance(w, {}) /\ work' = Rest
               /\ UNCHANGED <<size, status, kv, spans>>
            \/ ~Head(work).skip /\ w = 1 /\ Fail({"bool"})

\* Mutant: a string that ends with the file is taken for a truncated one.
String_NotAtEnd ==
    /\ Begins({Str})
    /\ \/ pos > size /\ UNCHANGED file /\ Fail({})
       \/ \E l \in Cells :
              /\ pos <= size /\ Learn(pos, l)
              /\ IF ~Head(work).skip /\ (l < 0 \/ l > MaxInt \/ pos + l >= size)
                 THEN Fail(LongLost(l, pos + l))
                 ELSE /\ Advance(1 + Times(l), IF l < 0 THEN {"count"} ELSE {})
                      /\ work' = Rest
                      /\ UNCHANGED <<size, status, kv, spans>>

\* A string: readString refuses what is not a length, skipFully does nothing.
String ==
    /\ Begins({Str})
    /\ \/ pos > size /\ UNCHANGED file /\ Fail({})
       \/ \E l \in Cells :
              /\ pos <= size /\ Learn(pos, l)
              /\ IF ~Head(work).skip /\ (l < 0 \/ l > MaxInt \/ pos + l > size)
                 THEN Fail(LongLost(l, pos + l))
                 ELSE /\ Advance(1 + Times(l), IF l < 0 THEN {"count"} ELSE {})
                      /\ work' = Rest
                      /\ UNCHANGED <<size, status, kv, spans>>

\* An array: element type and count, then its elements, which are skipped
\* when they are too many to keep.
Array ==
    /\ Begins({Arr})
    /\ \/ pos > size /\ UNCHANGED file /\ Fail({})
       \/ \E t \in Cells, n \in Cells :
              LET many == Threshold >= 0 /\ ToInt(n) > Threshold
                  skip == Head(work).skip \/ many IN
              /\ pos <= size
              /\ IF t \notin Types \/ pos + 1 > size
                 THEN Learn(pos, t) /\ Fail({})
                 ELSE /\ LearnBoth(pos, t, pos + 1, n)
                      /\ IF ~skip /\ ToInt(n) < 0 THEN Fail(CountLost(n))
                         ELSE /\ Advance(2, CountLost(n))
                              /\ work' = <<[type |-> t, left |-> Times(ToInt(n)),
                                            skip |-> skip]>> \o Rest
                              /\ UNCHANGED <<size, status, kv, spans>>

ReaderNext == Header \/ Pair \/ Finish \/ EndValues \/ Number \/ String \/ Array

ReaderSpec == ReaderInit /\ [][ReaderNext]_readerVars

\* The reader runs on the thread of its caller.
LiveSpec == ReaderSpec /\ WF_readerVars(ReaderNext)

------------------------------------------------------------------------------
(***************************************************************************)
(* The format, independently of the reader: where a value that starts at p *)
(* ends, with counts that mean what they say.  Bad is no end at all, and   *)
(* Unread is the end of a value of which the reader saw too little.        *)
(***************************************************************************)
Bad    == 0
Unread == -1
Good   == 1

Within(z, p) == IF p <= z + 1 THEN p ELSE Bad

\* Of the file of z cells that begins like f: one value of type t at p, given
\* where the values behind p end.
ValueEnd(f, z, later, p, t) ==
    CASE t = Narrow -> Within(z, p + 1)
      [] t = Wide   -> Within(z, p + 2)
      [] t = Str    ->
             IF p > z THEN Bad
             ELSE IF p \notin DOMAIN f THEN Unread
             ELSE IF f[p] < 0 THEN Bad ELSE Within(z, p + 1 + f[p])
      [] t = Arr    ->
             IF p > z THEN Bad
             ELSE IF p \notin DOMAIN f THEN Unread
             ELSE IF f[p] \notin Types \/ p + 1 > z THEN Bad
             ELSE IF p + 1 \notin DOMAIN f THEN Unread
             ELSE IF f[p + 1] < 0 THEN Bad
             ELSE later[p + 2][f[p]][f[p + 1]]

\* n values of type t from p on.
ValuesEnd(f, z, later, p, t, n) ==
    LET first == ValueEnd(f, z, later, p, t) IN
    IF n = 0 THEN p ELSE IF first <= 0 THEN first ELSE later[first][t][n - 1]

Ends(f, z) ==
    LET ends[p \in 1 .. z + 1] ==
            [t \in Types |-> [n \in Nat |-> ValuesEnd(f, z, ends, p, t, n)]]
    IN ends

\* Where the pair at p has its value, and where that ends.
TypeAt(f, z, p) == Ends(f, z)[p][Str][1]
PairEnd(f, z, p) ==
    LET t == TypeAt(f, z, p) IN
    IF t <= 0 THEN t
    ELSE IF t > z THEN Bad
    ELSE IF t \notin DOMAIN f THEN Unread
    ELSE IF f[t] \notin Types THEN Bad ELSE Ends(f, z)[t + 1][f[t]][1]

\* What the format makes of n pairs from p on.
PairsFrom(f, z, later, p, n) ==
    LET e == PairEnd(f, z, p) IN
    IF n = 0 THEN [verdict |-> Good, spans |-> <<>>]
    ELSE IF e <= 0 THEN [verdict |-> e, spans |-> <<>>]
    ELSE LET rest == later[e][n - 1]
         IN [verdict |-> rest.verdict,
             spans |-> <<<<TypeAt(f, z, p) + 1, e - 1>>>> \o rest.spans]

Pairs(f, z) ==
    LET pairs[p \in 1 .. z + 1] == [n \in Nat |-> PairsFrom(f, z, pairs, p, n)]
    IN pairs

Format(f, z) ==
    IF f[0] = 0 \/ z < 1 \/ f[1] < 0 THEN [verdict |-> Bad, spans |-> <<>>]
    ELSE Pairs(f, z)[2][f[1]]

------------------------------------------------------------------------------
\* A file that follows the format is read to the end, whatever is skipped or
\* summarised in it: an exception means that the file is damaged (a boolean is,
\* if it is refused), that a count does not fit an Int, or that a string that is
\* kept, or a key, is longer than one counts.
ReadsWellFormed ==
    status = "failed" /\ lost \cap {"count", "bool", "long"} = {} =>
        Format(file, size).verdict = Bad

\* parseValue, skipValue and the summaries go over a value by the same number
\* of bytes: what is returned are the values of the file, each from where it
\* begins to where it ends, unless a count was cut to an Int or was negative,
\* or a skip went behind the end of the file.
ReturnsWhatIsThere ==
    status = "done" /\ lost = {} =>
        Format(file, size) = [verdict |-> Good, spans |-> spans]

\* The reader comes to an end on every file, damaged or not.
ReadingEnds == <>(status \in {"done", "failed"})
==============================================================================
