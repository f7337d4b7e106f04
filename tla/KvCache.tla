------------------------------- MODULE KvCache -------------------------------
(***************************************************************************)
(* The KV cache of llama.cpp below the completion loop of ContextWindow.   *)
(* There the cache is a function from positions to tokens; here it is what *)
(* llama_kv_cache and llama_kv_cells keep: an array of cells in no         *)
(* particular order, each with the position of its token and the shift     *)
(* that its key still has to be rotated by, and a head at which the search *)
(* for free cells starts.  Both move in lockstep: a step of the completion *)
(* loop is a step of ContextWindow and the calls it makes into the cache.  *)
(*                                                                         *)
(* One sequence, one stream, no sliding window, and a batch is never split *)
(* (init_context sets n_ubatch to n_batch): what the application uses.     *)
(***************************************************************************)
EXTENDS ContextWindow, FiniteSetsExt

VARIABLE
    cache    \* [cells, head, hasShift]: llama_kv_cells and its v_heads entry

cacheVars == <<vars, cache>>

Cells == 0 .. NCells - 1

\* rot is what the key tensor of the cell is rotated by: data of the tensor,
\* which the cell's pos and shift describe.
Cell == [pos : Nat \cup {-1}, shift : Int, rot : Int, token : Nat]
NoCell == [pos |-> -1, shift |-> 0, rot |-> 0, token |-> 0]
CacheType == [cells : [Cells -> Cell], head : 0 .. NCells, hasShift : BOOLEAN]

\* A new cache, or one that llama_memory_clear reset.
NewCache == [cells |-> [i \in Cells |-> NoCell], head |-> 0, hasShift |-> FALSE]

Used(c) == {i \in Cells : c.cells[i].pos # -1}
Free(c) == Cells \ Used(c)

\* The used cells with a position in p0 .. p1 - 1; p1 = -1 is no limit.
PosIn(c, p0, p1) ==
    {i \in Used(c) : p0 <= c.cells[i].pos /\ (p1 = -1 \/ c.cells[i].pos < p1)}

Without(c, gone) == [i \in Cells |-> IF i \in gone THEN NoCell ELSE c.cells[i]]

\* Mutant: the head stays where it is.
SeqRm_HeadStays(c, p0, p1) ==
    [cells |-> Without(c, PosIn(c, p0, p1)), head |-> c.head, hasShift |-> c.hasShift]

\* Frees the cells of a range of positions.
SeqRm(c, p0, p1) ==
    [cells |-> Without(c, PosIn(c, p0, p1)),
     head |-> Min(PosIn(c, p0, p1) \cup {c.head}),
     hasShift |-> c.hasShift]

\* A cell whose position is moved by d; it is freed when that is negative.
Moved(cell, d) ==
    IF cell.pos + d < 0
    THEN NoCell
    ELSE [cell EXCEPT !.pos = @ + d, !.shift = @ + d]

\* Moves the positions of a range by d; the keys follow at the next update.
SeqAdd(c, p0, p1, d) ==
    IF d = 0 \/ p0 = p1
    THEN c
    ELSE LET moved == PosIn(c, p0, p1)
             freed == {i \in moved : c.cells[i].pos + d < 0}
         IN [cells |-> [i \in Cells |->
                            IF i \in moved THEN Moved(c.cells[i], d) ELSE c.cells[i]],
             head |-> IF freed = {} THEN 0 ELSE Min(freed),
             hasShift |-> c.hasShift \/ moved # {}]

\* shift_context: the cells' side of ShiftKV.
ShiftCells(c, s, p) ==
    SeqAdd(SeqRm(c, s, s + Discard(s, p)), s + Discard(s, p), p, -Discard(s, p))

(***************************************************************************)
(* llama_context::decode                                                   *)
(***************************************************************************)
\* Mutant: the shift is applied to the keys and stays pending.
Rotated_NotReset(c) ==
    [c EXCEPT !.cells = [i \in Cells |->
        IF i \in Used(c) THEN [@[i] EXCEPT !.rot = @ + c.cells[i].shift] ELSE @[i]]]

\* A cell whose key was rotated by what is pending.
KShifted(cell) ==
    [pos |-> cell.pos, shift |-> 0, rot |-> cell.rot + cell.shift, token |-> cell.token]

\* The graph of the K-shift rotates the keys of all used cells.
Rotated(c) ==
    [cells |-> [i \in Cells |-> IF i \in Used(c) THEN KShifted(c.cells[i]) ELSE c.cells[i]],
     head |-> c.head,
     hasShift |-> FALSE]

\* memory_update, whose failure decode does not look at.
Updates(c) == IF c.hasShift THEN {Rotated(c), c} ELSE {c}

\* The batch has to continue the sequence: first is one behind its last position
\* (llama_batch_allocr::init).
Continues(c, first) ==
    Used(c) # {} =>
        /\ \E i \in Used(c) : c.cells[i].pos = first - 1
        /\ \A i \in Used(c) : c.cells[i].pos < first

(***************************************************************************)
(* find_slot goes round the cells once, from the head or, when the head is *)
(* far behind what is used, from the beginning, and takes the first n free *)
(* cells: those with fewer than n free cells before them.                  *)
(***************************************************************************)
SearchStart(c, n) == IF c.head > Cardinality(Used(c)) + 2 * n THEN 0 ELSE c.head

\* The free cells that the search passes before it comes to cell i.
FreeBefore(c, n, i) ==
    {j \in Free(c) : IF i < SearchStart(c, n)
                     THEN j < i \/ SearchStart(c, n) <= j
                     ELSE SearchStart(c, n) <= j /\ j < i}

Rank(c, n, i) == Cardinality(FreeBefore(c, n, i))

\* Mutant: the slot has to be one run of free cells (cont = true).
Slot_OneRun(c, n) ==
    LET runs == {i \in Cells : i + n <= NCells /\ i .. i + n - 1 \subseteq Free(c)}
    IN IF runs = {} THEN {} ELSE Min(runs) .. Min(runs) + n - 1

Slot(c, n) == {i \in Free(c) : Rank(c, n, i) < n}
Fits(c, n) == Cardinality(Slot(c, n)) = n

\* The cell of the k-th token of a batch, as it is when the batch was computed.
NewCell(first, k) ==
    [pos |-> first + k, shift |-> 0, rot |-> first + k, token |-> decoded + k]

\* apply_ubatch: the k-th token of the batch goes to the k-th cell of the slot,
\* and the head moves behind the last one.
Placed(c, first, n) ==
    [cells |-> [i \in Cells |->
        IF i \in Slot(c, n) THEN NewCell(first, Rank(c, n, i)) ELSE c.cells[i]],
     head |-> 1 + CHOOSE i \in Slot(c, n) : Rank(c, n, i) = n - 1,
     hasShift |-> c.hasShift]

\* The n tokens from position first on are decoded.
Decode(c, first, n) ==
    /\ Continues(c, first)
    /\ \E u \in Updates(c) : Fits(u, n) /\ cache' = Placed(u, first, n)

\* Mutant: the cells of a batch that was not computed stay.
FailDecode_KeepsCells(c, first, n) ==
    IF Continues(c, first)
    THEN \E u \in Updates(c) :
            cache' \in IF Fits(u, n) THEN {u, Placed(u, first, n)} ELSE {u}
    ELSE cache' = c

\* decode refuses the batch, finds no slot, or has no room for its outputs; or
\* the batch is placed and not computed, and its positions are removed again.
FailDecode(c, first, n) ==
    IF Continues(c, first)
    THEN \E u \in Updates(c) :
            cache' \in IF Fits(u, n) THEN {u, SeqRm(Placed(u, first, n), first, -1)}
                                     ELSE {u}
    ELSE cache' = c

------------------------------------------------------------------------------
\* The cache as the completion loop hands it to llama_decode.
BatchCache == IF BatchShifts THEN ShiftCells(cache, sysPos, curPos) ELSE cache
TokenCache == IF ContextFull THEN ShiftCells(cache, sysPos, curPos) ELSE cache

CacheInit == Init /\ cache = NewCache

Clear ==
    /\ Prepare \/ Unload \/ \E n \in SystemSizes : BeginSystemPrompt(n)
    /\ cache' = NewCache

DecodePrompt ==
    /\ DecodeBatch \/ FinishSystemPrompt \/ FinishUserPrompt
    /\ Decode(BatchCache, BatchStart, BatchLen)

FailPrompt == PromptFails /\ FailDecode(BatchCache, BatchStart, BatchLen)

DecodeToken ==
    /\ GenerateToken \/ EndOfGeneration
    /\ Decode(TokenCache, NextPos, 1)

FailToken == TokenFails /\ FailDecode(TokenCache, NextPos, 1)

Stop == StopAtLimit /\ cache' = TokenCache

\* The cache is not touched.
Aside ==
    /\ \/ \E n \in UserSizes, p \in PredictLengths : BeginUserPrompt(n, p)
       \/ CancelGeneration
       \/ Bench
       \/ ResetError
    /\ UNCHANGED cache

CacheNext ==
    \/ Clear
    \/ DecodePrompt
    \/ FailPrompt
    \/ DecodeToken
    \/ FailToken
    \/ Stop
    \/ Aside

CacheSpec == CacheInit /\ [][CacheNext]_cacheVars

------------------------------------------------------------------------------
\* Types, and a head within the array or right behind it.
CacheTypeOK == cache \in CacheType

\* The cells of c hold the tokens of k, each position in one cell.
Holds(c, k) ==
    /\ {c.cells[i].pos : i \in Used(c)} = DOMAIN k
    /\ \A i \in Used(c) : c.cells[i].token = k[c.cells[i].pos]
    /\ \A i, j \in Used(c) : c.cells[i].pos = c.cells[j].pos => i = j

(***************************************************************************)
(* The cells hold the window: whatever was shifted, removed, scattered or  *)
(* left behind by a failed batch, each position of the completion loop's   *)
(* cache is in exactly one cell, with its token.                           *)
(***************************************************************************)
CellsHoldWindow == Holds(cache, kv)

\* A key is rotated to its position once what is pending is applied.
Keyed(c) ==
    \A i \in Used(c) :
        /\ c.cells[i].rot + c.cells[i].shift = c.cells[i].pos
        /\ c.cells[i].shift # 0 => c.hasShift

(***************************************************************************)
(* Keys follow positions: the key of a token is rotated to its position,   *)
(* or what is missing is pending and flagged for the next update (the      *)
(* shift of llama_kv_cells accumulates over several shifts of the context  *)
(* and over updates that failed).                                          *)
(***************************************************************************)
KeysFollowPositions == Keyed(cache)

FrontFilled(c) == \A i \in Free(c) : c.head <= i

(***************************************************************************)
(* Cells are taken from the front: no free cell is behind the head, so the *)
(* search of find_slot never wraps round, and the part of the array that   *)
(* attention covers (up to the last used cell) does not grow while a cell  *)
(* in it is free.                                                          *)
(***************************************************************************)
NothingFreeBehindHead == FrontFilled(cache)

(***************************************************************************)
(* llama_decode takes a batch exactly if it continues the conversation and *)
(* there are as many free cells, however they are scattered and wherever   *)
(* the head is (find_slot with cont = false).                              *)
(***************************************************************************)
SlotIsFound ==
    \A n \in 1 .. BatchSize, first \in 0 .. NCells :
        Accepts(kv, first, n) <=> Continues(cache, first) /\ Fits(cache, n)
==============================================================================
