---------------------------- MODULE KvCacheProofs ----------------------------
(***************************************************************************)
(* Proofs about the completion loop and the cache under it, for every size *)
(* of the context, the cache and the batches, every prompt and n_predict.  *)
(*                                                                         *)
(* First ContextWindow: the inductive invariant IInv strengthens the       *)
(* invariants of the module with what holds while a prompt is decoded.     *)
(* Then KvCache: the cells of llama.cpp hold the window of the loop, and   *)
(* each key is rotated to its position or waits, flagged, to be.           *)
(***************************************************************************)
EXTENDS KvCache, FiniteSetTheorems, WellFoundedInduction, TLAPS

------------------------------------------------------------------------------
(* The completion loop (ContextWindow).                                    *)

\* The cache holds exactly the first n positions, the newest tokens last.
Tracked(n) ==
    /\ DOMAIN kv = 0 .. n - 1
    /\ n <= NCells
    /\ \A p \in sysPos .. n - 1 : kv[p] = decoded - n + p

\* Without a conversation the positions are zero.
InvFresh ==
    phase \in {"unloaded", "fresh", "error"} =>
        /\ curPos = 0 /\ sysPos = 0 /\ overrun = {}
        /\ phase = "fresh" => Tracked(0)

\* The system prompt is decoded from position zero on.
InvSystem ==
    phase = "system" =>
        /\ curPos = 0 /\ sysPos = 0 /\ overrun = {}
        /\ call.start = 0 /\ call.len = call.size
        /\ decoded = call.done
        /\ Tracked(call.done)

\* Until a prompt overruns the context, its batches append to the cache.
InvUser ==
    phase = "user" /\ overrun = {} =>
        call.start = curPos /\ Tracked(call.start + call.done)

InvRest == AtRest /\ overrun = {} => Tracked(curPos)

\* The stop position follows from what was generated and discarded.
InvReply ==
    phase = "generating" =>
        curPos + reply.predict + reply.dropped = stopPos + reply.gen

InvUserReply == phase = "user" => reply.gen = 0 /\ reply.dropped = 0

IInv ==
    /\ TypeOK
    /\ sysPos <= MaxPrompt
    /\ SystemPromptKept
    /\ InvFresh /\ InvSystem /\ InvUser /\ InvRest
    /\ InvUserReply /\ InvReply /\ ReplyBudget

------------------------------------------------------------------------------
(***************************************************************************)
(* The arithmetic of the shift: it keeps at least half of the history.     *)
(***************************************************************************)
LEMMA DiscardHalf ==
    ASSUME NEW s \in Nat, NEW c \in Nat, s <= c
    PROVE  /\ Discard(s, c) \in Nat
           /\ c - Discard(s, c) \in Nat
           /\ s <= c - Discard(s, c) /\ c - Discard(s, c) <= c
           /\ c - s >= 2 => c - Discard(s, c) < c
  BY DEF Discard

(***************************************************************************)
(* shift_context keeps the system prompt and every position it leaves is   *)
(* a natural number; discarding nothing leaves the cache as it is.         *)
(***************************************************************************)
LEMMA ShiftKeeps ==
    ASSUME NEW s \in Nat, NEW c \in Nat, s <= c,
           NEW k, DOMAIN k \subseteq Nat, k = [p \in DOMAIN k |-> k[p]]
    PROVE  /\ DOMAIN ShiftKV(k, s, c) = ShiftedPositions(k, s, c)
           /\ DOMAIN ShiftKV(k, s, c) \subseteq Nat
           /\ ShiftKV(k, s, c) = [p \in DOMAIN ShiftKV(k, s, c) |-> ShiftKV(k, s, c)[p]]
           /\ \A p \in 0 .. s - 1 : p \in DOMAIN k =>
                p \in DOMAIN ShiftKV(k, s, c) /\ ShiftKV(k, s, c)[p] = k[p]
           /\ Discard(s, c) = 0 => ShiftKV(k, s, c) = k
<1> DEFINE d == Discard(s, c)
<1>1. d \in Nat /\ s <= c - d /\ c - d \in Nat
  BY DiscardHalf
<1>2. DOMAIN ShiftKV(k, s, c) = ShiftedPositions(k, s, c)
  BY DEF ShiftKV
<1>3. ShiftedPositions(k, s, c) \subseteq Nat
  BY <1>1 DEF ShiftedPositions
<1>4. ShiftKV(k, s, c) = [p \in DOMAIN ShiftKV(k, s, c) |-> ShiftKV(k, s, c)[p]]
  BY DEF ShiftKV
<1>5. ASSUME NEW p \in 0 .. s - 1, p \in DOMAIN k
      PROVE  p \in DOMAIN ShiftKV(k, s, c) /\ ShiftKV(k, s, c)[p] = k[p]
  <2>1. p < s
    OBVIOUS
  <2>2. p \in ShiftedPositions(k, s, c)
    BY <1>5, <2>1 DEF ShiftedPositions
  <2>3. QED
    BY <2>1, <2>2 DEF ShiftKV
<1>6. ASSUME d = 0 PROVE ShiftKV(k, s, c) = k
  <2>1. \A p \in Int : p + Discard(s, c) = p
    BY <1>6
  <2>2. c - Discard(s, c) - 1 = c - 1
    BY <1>6
  <2>3. ASSUME NEW p PROVE p \in ShiftedPositions(k, s, c) <=> p \in DOMAIN k
    <3>1. p \in {q \in s .. c - Discard(s, c) - 1 : q + Discard(s, c) \in DOMAIN k}
             <=> p \in s .. c - 1 /\ p \in DOMAIN k
      BY <2>1, <2>2
    <3>2. p \in DOMAIN k => p < s \/ p >= c \/ p \in s .. c - 1
      OBVIOUS
    <3>3. QED
      BY <3>1, <3>2 DEF ShiftedPositions
  <2>4. ShiftedPositions(k, s, c) = DOMAIN k
    BY <2>3
  <2>5. ShiftKV(k, s, c) = [p \in DOMAIN k |-> k[p]]
    BY <2>1, <2>4 DEF ShiftKV
  <2>6. QED
    BY <2>5
<1>7. QED
  BY <1>2, <1>3, <1>4, <1>5, <1>6

(***************************************************************************)
(* Shifting a cache without gaps leaves one without gaps: the system       *)
(* prompt, then the newest tokens.                                         *)
(***************************************************************************)
LEMMA ShiftTracked ==
    ASSUME NEW s \in Nat, NEW c \in Nat, s <= c,
           NEW k, DOMAIN k = 0 .. c - 1
    PROVE  /\ DOMAIN ShiftKV(k, s, c) = 0 .. (c - Discard(s, c) - 1)
           /\ \A p \in s .. (c - Discard(s, c) - 1) :
                  ShiftKV(k, s, c)[p] = k[p + Discard(s, c)]
<1> DEFINE d == Discard(s, c)
<1>1. d \in Nat /\ s <= c - d /\ c - d \in Nat /\ c - d <= c
  BY DiscardHalf
<1> HIDE DEF d
<1>2. ShiftedPositions(k, s, c) =
          {p \in DOMAIN k : p < s \/ p >= c} \cup {p \in s .. (c - d - 1) : p + d \in DOMAIN k}
  BY DEF ShiftedPositions, d
<1>3. ShiftedPositions(k, s, c) = 0 .. (c - d - 1)
  BY <1>1, <1>2
<1>4. DOMAIN ShiftKV(k, s, c) = 0 .. (c - d - 1)
  BY <1>3 DEF ShiftKV
<1>5. ASSUME NEW p \in s .. (c - d - 1) PROVE ShiftKV(k, s, c)[p] = k[p + d]
  <2>1. p \in ShiftedPositions(k, s, c) /\ ~(p < s \/ p >= c)
    BY <1>1, <1>3
  <2>2. QED
    BY <2>1 DEF ShiftKV, d
<1>6. QED
  BY <1>4, <1>5 DEF d

\* A cache without gaps has as many cells in use as its length.
LEMMA CellsInUse ==
    ASSUME NEW n \in Nat PROVE Cardinality(0 .. n - 1) = n
<1>1. Cardinality(0 .. n - 1) = IF 0 > n - 1 THEN 0 ELSE n - 1 - 0 + 1
  BY FS_Interval
<1>2. QED
  BY <1>1

------------------------------------------------------------------------------
(***************************************************************************)
(* A turn of decode_tokens_in_batches: its batch is not empty, and the     *)
(* shift it may make keeps the system prompt; when the shift discards      *)
(* nothing the cache stays as it is.                                       *)
(***************************************************************************)
LEMMA BatchFacts ==
    ASSUME TypeOK, phase \in {"system", "user"}
    PROVE  /\ BatchLen \in Nat /\ BatchLen >= 1 /\ call.done + BatchLen <= call.len
           /\ BatchStart \in Nat
           /\ BatchPos \in Nat /\ sysPos <= BatchPos /\ BatchPos <= curPos
           /\ DOMAIN BatchKV \subseteq Nat
           /\ BatchKV = [p \in DOMAIN BatchKV |-> BatchKV[p]]
           /\ \A p \in 0 .. sysPos - 1 : p \in DOMAIN kv =>
                p \in DOMAIN BatchKV /\ BatchKV[p] = kv[p]
           /\ BatchPos = curPos => BatchKV = kv
<1> USE SizesAssumption
<1>1. call.done \in Nat /\ call.len \in Nat /\ call.start \in Nat /\ call.done < call.len
  BY DEF TypeOK, CallType
<1>2. BatchLen \in Nat /\ BatchLen >= 1 /\ call.done + BatchLen <= call.len /\ BatchStart \in Nat
  BY <1>1 DEF BatchLen, MinOf, BatchStart
<1>3. /\ sysPos \in Nat /\ curPos \in Nat /\ sysPos <= curPos
      /\ DOMAIN kv \subseteq Nat /\ kv = [p \in DOMAIN kv |-> kv[p]]
  BY DEF TypeOK
<1>4. CASE BatchShifts
  <2>1. BatchPos = curPos - Discard(sysPos, curPos) /\ BatchKV = ShiftKV(kv, sysPos, curPos)
    BY <1>4 DEF BatchPos, BatchKV
  <2>2. Discard(sysPos, curPos) \in Nat /\ BatchPos \in Nat
           /\ sysPos <= BatchPos /\ BatchPos <= curPos
    BY <1>3, <2>1, DiscardHalf
  <2>3. BatchPos = curPos => Discard(sysPos, curPos) = 0
    BY <1>3, <2>1, <2>2
  <2>4. /\ DOMAIN BatchKV \subseteq Nat
        /\ BatchKV = [p \in DOMAIN BatchKV |-> BatchKV[p]]
        /\ \A p \in 0 .. sysPos - 1 : p \in DOMAIN kv =>
              p \in DOMAIN BatchKV /\ BatchKV[p] = kv[p]
        /\ Discard(sysPos, curPos) = 0 => BatchKV = kv
    BY <1>3, <2>1, ShiftKeeps
  <2>5. QED
    BY <1>2, <2>2, <2>3, <2>4
<1>5. CASE ~BatchShifts
  BY <1>2, <1>3, <1>5 DEF BatchPos, BatchKV
<1>6. QED
  BY <1>4, <1>5

(***************************************************************************)
(* The shift at the start of generateNextToken keeps the system prompt,    *)
(* and turns a cache without gaps into one without gaps.                   *)
(***************************************************************************)
LEMMA NextFacts ==
    ASSUME TypeOK
    PROVE  /\ NextPos \in Nat /\ sysPos <= NextPos /\ NextPos <= curPos
           /\ DOMAIN NextKV \subseteq Nat
           /\ NextKV = [p \in DOMAIN NextKV |-> NextKV[p]]
           /\ \A p \in 0 .. sysPos - 1 : p \in DOMAIN kv =>
                p \in DOMAIN NextKV /\ NextKV[p] = kv[p]
           /\ DOMAIN kv = 0 .. curPos - 1 =>
                /\ DOMAIN NextKV = 0 .. NextPos - 1
                /\ \A p \in sysPos .. NextPos - 1 : NextKV[p] = kv[p + (curPos - NextPos)]
<1>1. /\ sysPos \in Nat /\ curPos \in Nat /\ sysPos <= curPos
      /\ DOMAIN kv \subseteq Nat /\ kv = [p \in DOMAIN kv |-> kv[p]]
  BY DEF TypeOK
<1>2. CASE ContextFull
  <2>1. NextPos = curPos - Discard(sysPos, curPos) /\ NextKV = ShiftKV(kv, sysPos, curPos)
    BY <1>2 DEF NextPos, NextKV
  <2>2. Discard(sysPos, curPos) \in Nat /\ NextPos \in Nat
           /\ sysPos <= NextPos /\ NextPos <= curPos
    BY <1>1, <2>1, DiscardHalf
  <2>3. /\ DOMAIN NextKV \subseteq Nat
        /\ NextKV = [p \in DOMAIN NextKV |-> NextKV[p]]
        /\ \A p \in 0 .. sysPos - 1 : p \in DOMAIN kv =>
              p \in DOMAIN NextKV /\ NextKV[p] = kv[p]
    BY <1>1, <2>1, ShiftKeeps
  <2>4. curPos - NextPos = Discard(sysPos, curPos)
    BY <1>1, <2>1, <2>2
  <2>5. ASSUME DOMAIN kv = 0 .. curPos - 1
        PROVE  /\ DOMAIN NextKV = 0 .. NextPos - 1
               /\ \A p \in sysPos .. NextPos - 1 : NextKV[p] = kv[p + (curPos - NextPos)]
    BY <1>1, <2>1, <2>4, <2>5, ShiftTracked
  <2>6. QED
    BY <2>2, <2>3, <2>5
<1>3. CASE ~ContextFull
  BY <1>1, <1>3 DEF NextPos, NextKV
<1>4. QED
  BY <1>2, <1>3

(***************************************************************************)
(* Every token finds room: the shift frees a cell whenever the cache could *)
(* be full, because the headroom keeps two positions away from the system  *)
(* prompt.                                                                 *)
(***************************************************************************)
LEMMA GenerationFitsInd == IInv => GenerationFits
<1> SUFFICES ASSUME IInv, phase = "generating", overrun = {}
             PROVE  Accepts(NextKV, NextPos, 1)
  BY DEF GenerationFits
<1> USE SizesAssumption
<1>1. TypeOK /\ sysPos <= MaxPrompt /\ Tracked(curPos)
  BY DEF IInv, InvRest, AtRest
<1>2. /\ NextPos \in Nat /\ NextPos <= curPos
      /\ DOMAIN NextKV = 0 .. NextPos - 1
  BY <1>1, NextFacts DEF Tracked
<1>3. NextPos < NCells
  <2>1. sysPos \in Nat /\ curPos \in Nat /\ sysPos <= curPos /\ curPos <= NCells
    BY <1>1 DEF TypeOK, Tracked
  <2>2. CASE ContextFull
    <3>1. NextPos = curPos - Discard(sysPos, curPos)
      BY <2>2 DEF NextPos
    <3>2. curPos - sysPos >= 2 => NextPos < curPos
      BY <2>1, <3>1, DiscardHalf
    <3>3. QED
      BY <1>1, <1>2, <2>1, <3>2 DEF MaxPrompt
  <2>3. CASE ~ContextFull
    BY <2>1, <2>3 DEF NextPos, ContextFull
  <2>4. QED
    BY <2>2, <2>3
<1>4. Consecutive(NextKV, NextPos)
  BY <1>2 DEF Consecutive
<1>5. HasRoom(NextKV, 1)
  BY <1>2, <1>3, CellsInUse DEF HasRoom
<1>6. QED
  BY <1>4, <1>5 DEF Accepts

------------------------------------------------------------------------------
LEMMA InitInv == Init => IInv
<1> SUFFICES ASSUME Init PROVE IInv
  OBVIOUS
<1> USE SizesAssumption
<1>1. TypeOK
  BY DEF Init, TypeOK, Phases, Roles, EmptyKV, NoCall, CallType, NoReply, ReplyType
<1>2. sysPos <= MaxPrompt
  BY DEF Init, MaxPrompt
<1>3. SystemPromptKept /\ InvFresh /\ InvSystem /\ InvUser /\ InvUserReply /\ InvRest /\ InvReply
  BY DEF Init, SystemPromptKept, InvFresh, InvSystem, InvUser, InvUserReply, InvRest, AtRest, InvReply
<1>4. ReplyBudget
  BY DEF Init, ReplyBudget, NoReply
<1>5. QED
  BY <1>1, <1>2, <1>3, <1>4 DEF IInv

(***************************************************************************)
(* The steps that leave the cache and the positions alone, or clear both.  *)
(***************************************************************************)
LEMMA PrepareInv == IInv /\ Prepare => IInv'
<1> SUFFICES ASSUME IInv, Prepare PROVE IInv'
  OBVIOUS
<1> USE SizesAssumption DEF IInv, Prepare
<1>1. curPos = 0 /\ sysPos = 0 /\ overrun = {}
  BY DEF InvFresh
<1>2. DOMAIN kv' = {} /\ 0 .. -1 = {}
  BY DEF EmptyKV
<1>3. TypeOK'
  BY <1>2 DEF TypeOK, Phases, EmptyKV
<1>4. (sysPos <= MaxPrompt)' /\ SystemPromptKept' /\ Tracked(0)'
  BY <1>1, <1>2 DEF MaxPrompt, SystemPromptKept, Tracked
<1>5. InvFresh' /\ InvSystem' /\ InvUser' /\ InvUserReply' /\ InvRest' /\ InvReply' /\ ReplyBudget'
  BY <1>1, <1>4 DEF InvFresh, InvSystem, InvUser, InvUserReply, InvRest, AtRest, InvReply, ReplyBudget
<1>6. QED
  BY <1>3, <1>4, <1>5

LEMMA BeginSystemPromptInv ==
    ASSUME NEW n \in SystemSizes, IInv, BeginSystemPrompt(n)
    PROVE  IInv'
<1> USE SizesAssumption, InputsAssumption DEF BeginSystemPrompt, ResetStates
<1>1. DOMAIN kv' = {} /\ 0 .. -1 = {} /\ kv' = EmptyKV
  BY DEF EmptyKV
<1>2. n \in Nat /\ n > 0 /\ TypeOK
  BY DEF IInv
<1>3. chat' \in Seq(Roles)
  <2>1. <<"system">> \in Seq(Roles) /\ <<>> \in Seq(Roles)
    BY DEF Roles
  <2>2. chat' = <<"system">> \/ chat' = <<>>
    OBVIOUS
  <2>3. QED
    BY <2>1, <2>2
<1>4. call' = NoCall \/ (call' = [size |-> n, len |-> n, start |-> 0, done |-> 0] /\ n <= MaxPrompt)
  BY <1>2 DEF MaxPrompt
<1>5. TypeOK'
  <2>1. call' \in CallType /\ reply' \in ReplyType
    BY <1>2, <1>4 DEF NoCall, CallType, NoReply, ReplyType
  <2>2. phase' \in Phases /\ (phase' \in {"system", "user"} =>
            call'.done < call'.len /\ call'.len <= call'.size /\ call'.len <= MaxPrompt)
    BY <1>2 DEF MaxPrompt, Phases
  <2>3. kv' = [p \in DOMAIN kv' |-> kv'[p]]
    BY <1>1 DEF EmptyKV
  <2>4. QED
    BY <1>1, <1>3, <2>1, <2>2, <2>3 DEF TypeOK
<1>6. (sysPos <= MaxPrompt)' /\ SystemPromptKept' /\ Tracked(0)'
  BY <1>1 DEF MaxPrompt, SystemPromptKept, Tracked
<1>7. InvFresh' /\ InvSystem' /\ InvUser' /\ InvUserReply' /\ InvRest' /\ InvReply'
  BY <1>6, <1>4 DEF InvFresh, InvSystem, InvUser, InvUserReply, InvRest, AtRest, InvReply
<1>8. ReplyBudget'
  BY DEF ReplyBudget, NoReply
<1>9. QED
  BY <1>5, <1>6, <1>7, <1>8 DEF IInv

LEMMA BeginUserPromptInv ==
    ASSUME NEW n \in UserSizes, NEW predict \in PredictLengths,
           IInv, BeginUserPrompt(n, predict)
    PROVE  IInv'
<1> USE SizesAssumption, InputsAssumption DEF BeginUserPrompt
<1>1. /\ n \in Nat /\ n > 0 /\ predict \in Nat
      /\ call' = [size |-> n, len |-> MinOf(n, MaxPrompt), start |-> curPos, done |-> 0]
      /\ MinOf(n, MaxPrompt) \in Nat /\ 0 < MinOf(n, MaxPrompt)
      /\ MinOf(n, MaxPrompt) <= n /\ MinOf(n, MaxPrompt) <= MaxPrompt
  BY DEF MinOf, MaxPrompt
<1>2. chat' \in Seq(Roles)
  BY DEF IInv, TypeOK, Roles
<1>3. TypeOK'
  <2>1. call' \in CallType /\ reply' \in ReplyType
    BY <1>1 DEF IInv, TypeOK, CallType, ReplyType
  <2>2. call'.done < call'.len /\ call'.len <= call'.size /\ call'.len <= MaxPrompt
    BY <1>1
  <2>3. QED
    BY <1>2, <2>1, <2>2 DEF IInv, TypeOK, Phases
<1>4. (sysPos <= MaxPrompt)' /\ SystemPromptKept'
  BY DEF IInv, MaxPrompt, SystemPromptKept
<1>5. InvUser'
  <2>1. overrun = {} => Tracked(curPos) /\ curPos + 0 = curPos
    BY DEF IInv, InvRest, AtRest, TypeOK
  <2>2. QED
    BY <1>1, <2>1 DEF InvUser, Tracked
<1>6. InvFresh' /\ InvSystem' /\ InvUserReply' /\ InvRest' /\ InvReply'
  BY DEF InvFresh, InvSystem, InvUserReply, InvRest, AtRest, InvReply
<1>7. ReplyBudget'
  BY <1>1 DEF ReplyBudget
<1>8. QED
  BY <1>3, <1>4, <1>5, <1>6, <1>7 DEF IInv

\* CancelGeneration and Bench return to "ready" with everything else unchanged.
LEMMA ReturnInv ==
    ASSUME IInv, phase \in {"fresh", "ready", "generating"}, phase' = "ready",
           UNCHANGED <<sysPos, curPos, stopPos, kv, decoded, chat, call, reply, overrun>>
    PROVE  IInv'
<1>1. TypeOK'
  BY DEF IInv, TypeOK, Phases
<1>2. (sysPos <= MaxPrompt)' /\ SystemPromptKept' /\ ReplyBudget'
  BY DEF IInv, MaxPrompt, SystemPromptKept, ReplyBudget
<1>3. InvRest'
  BY DEF IInv, InvRest, AtRest, Tracked
<1>4. InvFresh' /\ InvSystem' /\ InvUser' /\ InvUserReply' /\ InvReply'
  BY DEF InvFresh, InvSystem, InvUser, InvUserReply, InvReply
<1>5. QED
  BY <1>1, <1>2, <1>3, <1>4 DEF IInv

LEMMA UnloadInv == IInv /\ Unload => IInv'
<1> SUFFICES ASSUME IInv, Unload PROVE IInv'
  OBVIOUS
<1> USE SizesAssumption DEF Unload, ResetStates
<1>1. TypeOK'
  <2>1. chat' \in Seq(Roles) /\ reply' \in ReplyType /\ kv' = [p \in DOMAIN kv' |-> kv'[p]]
           /\ DOMAIN kv' = {}
    BY DEF EmptyKV, NoReply, ReplyType
  <2>2. QED
    BY <2>1 DEF IInv, TypeOK, Phases
<1>2. (sysPos <= MaxPrompt)' /\ SystemPromptKept'
  BY DEF MaxPrompt, SystemPromptKept
<1>3. InvFresh' /\ InvSystem' /\ InvUser' /\ InvUserReply' /\ InvRest' /\ InvReply'
  BY DEF InvFresh, InvSystem, InvUser, InvUserReply, InvRest, AtRest, InvReply
<1>4. ReplyBudget'
  BY DEF ReplyBudget, NoReply
<1>5. QED
  BY <1>1, <1>2, <1>3, <1>4 DEF IInv

LEMMA ResetErrorInv == IInv /\ ResetError => IInv'
<1> SUFFICES ASSUME IInv, ResetError PROVE IInv'
  OBVIOUS
<1> USE DEF ResetError
<1>1. TypeOK'
  BY DEF IInv, TypeOK, Phases
<1>2. (sysPos <= MaxPrompt)' /\ SystemPromptKept' /\ ReplyBudget'
  BY DEF IInv, MaxPrompt, SystemPromptKept, ReplyBudget
<1>3. InvFresh' /\ InvSystem' /\ InvUser' /\ InvUserReply' /\ InvRest' /\ InvReply'
  BY DEF IInv, InvFresh, InvSystem, InvUser, InvUserReply, InvRest, AtRest, InvReply
<1>4. QED
  BY <1>1, <1>2, <1>3 DEF IInv

------------------------------------------------------------------------------
(***************************************************************************)
(* A batch that llama_decode takes keeps the system prompt, and appends to *)
(* a cache without gaps as long as nothing was discarded for it.           *)
(***************************************************************************)
LEMMA BatchDecodedFacts ==
    ASSUME IInv, phase \in {"system", "user"}, BatchDecoded
    PROVE  /\ DOMAIN kv' \subseteq Nat /\ kv' = [p \in DOMAIN kv' |-> kv'[p]]
           /\ decoded' \in Nat
           /\ phase = "user" => \A p \in 0 .. sysPos - 1 : p \in DOMAIN kv' /\ kv'[p] = p
           /\ BatchPos = curPos /\ overrun = {} =>
                /\ DOMAIN kv' = 0 .. (BatchStart + BatchLen) - 1
                /\ BatchStart + BatchLen <= NCells
                /\ \A p \in sysPos .. (BatchStart + BatchLen) - 1 :
                       kv'[p] = decoded' - (BatchStart + BatchLen) + p
<1> USE SizesAssumption
<1>1. TypeOK /\ decoded \in Nat /\ sysPos \in Nat /\ curPos \in Nat
         /\ call.start \in Nat /\ call.done \in Nat
  BY DEF IInv, TypeOK, CallType
<1>2. BatchLen \in Nat /\ BatchLen >= 1 /\ BatchStart \in Nat /\ DOMAIN BatchKV \subseteq Nat
  BY <1>1, BatchFacts
<1>3. kv' = Extend(BatchKV, BatchStart, BatchLen) /\ decoded' = decoded + BatchLen
  BY DEF BatchDecoded
<1>4. /\ DOMAIN kv' = DOMAIN BatchKV \cup (BatchStart .. BatchStart + BatchLen - 1)
      /\ DOMAIN kv' \subseteq Nat /\ kv' = [p \in DOMAIN kv' |-> kv'[p]]
      /\ \A p \in DOMAIN BatchKV : p < BatchStart => kv'[p] = BatchKV[p]
      /\ \A p \in BatchStart .. BatchStart + BatchLen - 1 : kv'[p] = decoded + (p - BatchStart)
  BY <1>2, <1>3 DEF Extend
<1>5. ASSUME phase = "user", NEW p \in 0 .. sysPos - 1 PROVE p \in DOMAIN kv' /\ kv'[p] = p
  <2>1. p \in DOMAIN kv /\ kv[p] = p
    BY <1>5 DEF IInv, SystemPromptKept
  <2>2. p \in DOMAIN BatchKV /\ BatchKV[p] = p
    BY <1>1, <2>1, BatchFacts
  <2>3. p < BatchStart
    BY <2>2 DEF BatchDecoded, Accepts, Consecutive
  <2>4. QED
    BY <1>4, <2>2, <2>3
<1>6. ASSUME BatchPos = curPos, overrun = {}
      PROVE  /\ DOMAIN kv' = 0 .. (BatchStart + BatchLen) - 1
             /\ BatchStart + BatchLen <= NCells
             /\ \A p \in sysPos .. (BatchStart + BatchLen) - 1 :
                    kv'[p] = decoded' - (BatchStart + BatchLen) + p
  <2>1. BatchKV = kv
    BY <1>1, <1>6, BatchFacts
  <2>2. Tracked(BatchStart)
    <3>1. CASE phase = "user"
      BY <1>6, <3>1 DEF IInv, InvUser, BatchStart
    <3>2. CASE phase = "system"
      <4>1. call.start + call.done = call.done
        BY <1>1, <3>2 DEF IInv, InvSystem
      <4>2. QED
        BY <3>2, <4>1 DEF IInv, InvSystem, BatchStart
    <3>3. QED
      BY <3>1, <3>2
  <2>3. DOMAIN kv' = 0 .. (BatchStart + BatchLen) - 1
    BY <1>2, <1>4, <2>1, <2>2 DEF Tracked
  <2>4. BatchStart + BatchLen <= NCells
    BY <1>2, <2>1, <2>2, CellsInUse DEF BatchDecoded, Accepts, HasRoom, Tracked
  <2>5. ASSUME NEW p \in sysPos .. (BatchStart + BatchLen) - 1
        PROVE  kv'[p] = decoded' - (BatchStart + BatchLen) + p
    <3>1. CASE p < BatchStart
      <4>1. p \in DOMAIN BatchKV /\ kv[p] = decoded - BatchStart + p
        BY <1>1, <1>2, <2>1, <2>2, <3>1 DEF Tracked
      <4>2. kv'[p] = decoded - BatchStart + p
        BY <1>4, <2>1, <3>1, <4>1
      <4>3. QED
        BY <1>1, <1>2, <1>3, <4>2
    <3>2. CASE p >= BatchStart
      <4>1. kv'[p] = decoded + (p - BatchStart)
        BY <1>2, <1>1, <1>4, <3>2
      <4>2. QED
        BY <1>1, <1>2, <1>3, <4>1
    <3>3. QED
      BY <1>1, <1>2, <3>1, <3>2
  <2>6. QED
    BY <2>3, <2>4, <2>5
<1>7. QED
  BY <1>1, <1>2, <1>3, <1>4, <1>5, <1>6

\* During the system prompt both positions are zero: its batches discard nothing.
LEMMA SystemDiscardsNothing ==
    ASSUME IInv, phase = "system" PROVE BatchPos = 0 /\ curPos = 0
<1>1. curPos = 0 /\ sysPos = 0
  BY DEF IInv, InvSystem
<1>2. Discard(0, 0) = 0
  BY DEF Discard
<1>3. QED
  BY <1>1, <1>2 DEF BatchPos

LEMMA DecodeBatchInv == IInv /\ DecodeBatch => IInv'
<1> SUFFICES ASSUME IInv, DecodeBatch PROVE IInv'
  OBVIOUS
<1> USE SizesAssumption DEF DecodeBatch
<1>1. TypeOK /\ phase \in {"system", "user"} /\ call \in CallType
         /\ call.start \in Nat /\ call.done \in Nat /\ call.len \in Nat /\ call.size \in Nat
  BY DEF IInv, TypeOK, CallType
<1>2. /\ BatchLen \in Nat /\ call.done + BatchLen < call.len
      /\ BatchPos \in Nat /\ sysPos <= BatchPos /\ BatchPos <= curPos
      /\ sysPos \in Nat /\ curPos \in Nat
  <2>1. /\ BatchLen \in Nat /\ call.done + BatchLen <= call.len
        /\ BatchPos \in Nat /\ sysPos <= BatchPos /\ BatchPos <= curPos
    BY <1>1, BatchFacts
  <2>2. call.done + BatchLen # call.len
    BY DEF LastBatch
  <2>3. sysPos \in Nat /\ curPos \in Nat
    BY <1>1 DEF TypeOK
  <2>4. QED
    BY <1>1, <2>1, <2>2, <2>3
<1>3. /\ call' \in CallType
      /\ call'.done = call.done + BatchLen /\ call'.start = call.start
      /\ call'.len = call.len /\ call'.size = call.size
  BY <1>1, <1>2 DEF CallType
<1>4. TypeOK'
  <2>1. overrun' \subseteq {"cut", "discard"}
    BY <1>1 DEF TypeOK, Discarded
  <2>2. QED
    BY <1>1, <1>2, <1>3, <2>1, BatchDecodedFacts DEF TypeOK
<1>5. SystemPromptKept' /\ (sysPos <= MaxPrompt)'
  BY <1>1, BatchDecodedFacts DEF IInv, SystemPromptKept, MaxPrompt
<1>6. overrun' = {} => overrun = {} /\ BatchPos = curPos
  BY <1>2 DEF Discarded
<1>7. overrun' = {} => Tracked(call.start + call.done)'
  <2>1. BatchStart + BatchLen = call'.start + call'.done
    BY <1>1, <1>2, <1>3 DEF BatchStart
  <2>2. QED
    BY <1>1, <1>6, <2>1, BatchDecodedFacts DEF Tracked
<1>8. InvSystem'
  <2>1. SUFFICES ASSUME phase = "system" PROVE InvSystem'
    BY DEF InvSystem
  <2>2. BatchPos = 0 /\ curPos = 0
    BY <2>1, SystemDiscardsNothing
  <2>3. overrun' = {} /\ call.start = 0 /\ call.len = call.size /\ decoded = call.done /\ sysPos = 0
    BY <2>1, <2>2 DEF IInv, InvSystem, Discarded
  <2>4. call'.start + call'.done = call'.done
    BY <1>1, <1>2, <1>3, <2>3
  <2>5. QED
    BY <1>3, <1>7, <2>2, <2>3, <2>4 DEF InvSystem, BatchDecoded
<1>9. InvUser'
  <2>1. phase = "user" /\ overrun = {} => call.start = curPos
    BY DEF IInv, InvUser
  <2>2. QED
    BY <1>3, <1>6, <1>7, <2>1 DEF InvUser
<1>10. InvFresh' /\ InvUserReply' /\ InvRest' /\ InvReply' /\ ReplyBudget'
  BY <1>1 DEF IInv, InvFresh, InvUserReply, InvRest, AtRest, InvReply, ReplyBudget
<1>11. QED
  BY <1>4, <1>5, <1>8, <1>9, <1>10 DEF IInv

LEMMA FinishSystemPromptInv == IInv /\ FinishSystemPrompt => IInv'
<1> SUFFICES ASSUME IInv, FinishSystemPrompt PROVE IInv'
  OBVIOUS
<1> USE SizesAssumption DEF FinishSystemPrompt
<1>1. TypeOK /\ phase = "system" /\ call.start \in Nat /\ call.done \in Nat
         /\ call.len \in Nat /\ call.size \in Nat /\ call.len <= MaxPrompt
  BY DEF IInv, TypeOK, CallType
<1>2. BatchPos = 0 /\ curPos = 0
  BY <1>1, SystemDiscardsNothing
<1>3. /\ call.start = 0 /\ call.len = call.size /\ decoded = call.done
      /\ overrun = {} /\ sysPos = 0
  BY <1>1 DEF IInv, InvSystem
<1>4. BatchLen \in Nat /\ BatchStart + BatchLen = call.size
  BY <1>1, <1>3, BatchFacts DEF LastBatch, BatchStart
<1>5. decoded' = call.size
  BY <1>1, <1>3, <1>4 DEF BatchDecoded, LastBatch
<1>6. /\ DOMAIN kv' = 0 .. call.size - 1 /\ call.size <= NCells
      /\ \A p \in 0 .. call.size - 1 : kv'[p] = p
  <2>1. /\ DOMAIN kv' = 0 .. call.size - 1 /\ call.size <= NCells
        /\ \A p \in sysPos .. call.size - 1 : kv'[p] = decoded' - call.size + p
    BY <1>1, <1>2, <1>3, <1>4, BatchDecodedFacts
  <2>2. QED
    BY <1>1, <1>3, <1>5, <2>1
<1>7. TypeOK'
  <2>1. call' \in CallType
    BY DEF NoCall, CallType
  <2>2. QED
    BY <1>1, <2>1, BatchDecodedFacts DEF TypeOK, Phases
<1>8. (sysPos <= MaxPrompt)' /\ SystemPromptKept' /\ InvRest'
  BY <1>1, <1>3, <1>6 DEF MaxPrompt, SystemPromptKept, InvRest, AtRest, Tracked
<1>9. InvFresh' /\ InvSystem' /\ InvUser' /\ InvUserReply' /\ InvReply' /\ ReplyBudget'
  BY DEF IInv, InvFresh, InvSystem, InvUser, InvUserReply, InvReply, ReplyBudget
<1>10. QED
  BY <1>7, <1>8, <1>9 DEF IInv

LEMMA FinishUserPromptInv == IInv /\ FinishUserPrompt => IInv'
<1> SUFFICES ASSUME IInv, FinishUserPrompt PROVE IInv'
  OBVIOUS
<1> USE SizesAssumption DEF FinishUserPrompt
<1>1. TypeOK /\ phase = "user" /\ call.start \in Nat /\ call.done \in Nat
         /\ call.len \in Nat /\ call.size \in Nat /\ call.len <= call.size
         /\ reply \in ReplyType /\ reply.predict \in Nat /\ reply.gen \in Nat /\ reply.dropped \in Nat
  BY DEF IInv, TypeOK, CallType, ReplyType
<1>2. /\ BatchLen \in Nat /\ call.done + BatchLen = call.len
      /\ BatchPos \in Nat /\ sysPos <= BatchPos /\ BatchPos <= curPos
      /\ sysPos \in Nat /\ curPos \in Nat
  BY <1>1, BatchFacts DEF LastBatch, TypeOK
<1>3. TypeOK'
  <2>1. call' \in CallType
    BY DEF NoCall, CallType
  <2>2. overrun' \subseteq {"cut", "discard"}
    BY <1>1 DEF TypeOK, Discarded
  <2>3. curPos' \in Nat /\ stopPos' \in Nat /\ sysPos <= curPos'
    BY <1>1, <1>2
  <2>4. DOMAIN kv' \subseteq Nat /\ kv' = [p \in DOMAIN kv' |-> kv'[p]] /\ decoded' \in Nat
    BY <1>1, BatchDecodedFacts
  <2>5. phase' \in Phases /\ chat' \in Seq(Roles)
    BY <1>1 DEF TypeOK, Phases
  <2>6. QED
    BY <1>1, <1>2, <2>1, <2>2, <2>3, <2>4, <2>5 DEF TypeOK
<1>4. (sysPos <= MaxPrompt)' /\ SystemPromptKept'
  BY <1>1, BatchDecodedFacts DEF IInv, MaxPrompt, SystemPromptKept
<1>5. InvRest'
  <2>1. SUFFICES ASSUME overrun' = {} PROVE Tracked(curPos)'
    BY DEF InvRest
  <2>2. BatchPos = curPos /\ overrun = {} /\ call.len = call.size
    <3>1. overrun = {} /\ Discarded = {} /\ ~(call.len < call.size)
      BY <2>1
    <3>2. QED
      BY <1>1, <1>2, <3>1 DEF Discarded
  <2>3. BatchStart + BatchLen = curPos'
    BY <1>1, <1>2, <2>2 DEF BatchStart, IInv, InvUser
  <2>4. QED
    BY <1>1, <2>2, <2>3, BatchDecodedFacts DEF Tracked
<1>6. InvReply'
  <2>1. reply.gen = 0 /\ reply.dropped = 0
    BY <1>1 DEF IInv, InvUserReply
  <2>2. QED
    BY <1>1, <1>2, <2>1 DEF InvReply
<1>7. InvFresh' /\ InvSystem' /\ InvUser' /\ InvUserReply' /\ ReplyBudget'
  BY DEF IInv, InvFresh, InvSystem, InvUser, InvUserReply, ReplyBudget
<1>8. QED
  BY <1>3, <1>4, <1>5, <1>6, <1>7 DEF IInv

LEMMA PromptFailsInv == IInv /\ PromptFails => IInv'
<1> SUFFICES ASSUME IInv, PromptFails PROVE IInv'
  OBVIOUS
<1> USE SizesAssumption DEF PromptFails
<1>1. TypeOK /\ phase \in {"system", "user"}
  BY DEF IInv
<1>2. TypeOK'
  <2>1. call' \in CallType
    BY DEF NoCall, CallType
  <2>2. QED
    BY <1>1, <2>1, BatchFacts DEF TypeOK, Phases
<1>3. (sysPos <= MaxPrompt)' /\ SystemPromptKept'
  BY <1>1, BatchFacts DEF IInv, MaxPrompt, SystemPromptKept
<1>4. InvFresh'
  <2>1. phase = "system" => curPos' = 0 /\ sysPos' = 0 /\ overrun' = {}
    BY SystemDiscardsNothing DEF IInv, InvSystem
  <2>2. QED
    BY <1>1, <2>1 DEF InvFresh
<1>5. InvSystem' /\ InvUser' /\ InvUserReply' /\ InvRest' /\ InvReply' /\ ReplyBudget'
  BY DEF IInv, InvSystem, InvUser, InvUserReply, InvRest, AtRest, InvReply, ReplyBudget
<1>6. QED
  BY <1>2, <1>3, <1>4, <1>5 DEF IInv

------------------------------------------------------------------------------
\* What the shift adds to the count of discarded tokens.
LEMMA DroppedFacts ==
    ASSUME TypeOK
    PROVE  /\ Dropped \in ReplyType /\ Dropped.gen = reply.gen /\ Dropped.predict = reply.predict
           /\ Dropped.dropped = reply.dropped + (curPos - NextPos)
<1>1. /\ curPos \in Nat /\ reply \in ReplyType
      /\ reply.predict \in Nat /\ reply.gen \in Nat /\ reply.dropped \in Nat
  BY DEF TypeOK, ReplyType
<1>2. NextPos \in Nat /\ curPos - NextPos \in Nat
  BY <1>1, NextFacts
<1>3. QED
  BY <1>1, <1>2 DEF Dropped, ReplyType

\* The two ways in which generateNextToken gives up: only the shift happened.
LEMMA NoTokenInv ==
    ASSUME IInv, phase = "generating", phase' = "ready",
           kv' = NextKV, curPos' = NextPos, reply' = Dropped,
           UNCHANGED <<sysPos, stopPos, decoded, chat, call, overrun>>
    PROVE  IInv'
<1> USE SizesAssumption
<1>1. /\ TypeOK /\ sysPos \in Nat /\ curPos \in Nat /\ decoded \in Nat
      /\ reply \in ReplyType /\ reply.predict \in Nat /\ reply.gen \in Nat /\ reply.dropped \in Nat
  BY DEF IInv, TypeOK, ReplyType
<1>2. NextPos \in Nat /\ sysPos <= NextPos /\ NextPos <= curPos /\ curPos - NextPos \in Nat
  BY <1>1, NextFacts
<1>3. /\ reply' \in ReplyType /\ reply'.gen = reply.gen /\ reply'.predict = reply.predict
      /\ reply'.dropped = reply.dropped + (curPos - NextPos)
  BY <1>1, DroppedFacts
<1>4. TypeOK'
  <2>1. DOMAIN kv' \subseteq Nat /\ kv' = [p \in DOMAIN kv' |-> kv'[p]]
    BY <1>1, NextFacts
  <2>2. QED
    BY <1>1, <1>2, <1>3, <2>1 DEF TypeOK, Phases
<1>5. (sysPos <= MaxPrompt)' /\ SystemPromptKept'
  BY <1>1, NextFacts DEF IInv, MaxPrompt, SystemPromptKept
<1>6. InvRest'
  <2>1. SUFFICES ASSUME overrun = {} PROVE Tracked(curPos)'
    BY DEF InvRest
  <2>2. Tracked(curPos)
    BY <2>1 DEF IInv, InvRest, AtRest
  <2>3. /\ DOMAIN kv' = 0 .. NextPos - 1
        /\ \A p \in sysPos .. NextPos - 1 : kv'[p] = kv[p + (curPos - NextPos)]
    BY <1>1, <2>2, NextFacts DEF Tracked
  <2>4. ASSUME NEW p \in sysPos .. NextPos - 1 PROVE kv'[p] = decoded - NextPos + p
    <3>1. p + (curPos - NextPos) \in sysPos .. curPos - 1
      BY <1>1, <1>2
    <3>2. kv'[p] = decoded - curPos + (p + (curPos - NextPos))
      BY <2>2, <2>3, <3>1 DEF Tracked
    <3>3. QED
      BY <1>1, <1>2, <3>2
  <2>5. NextPos <= NCells
    BY <1>1, <1>2, <2>2 DEF Tracked
  <2>6. QED
    BY <2>3, <2>4, <2>5 DEF Tracked
<1>7. ReplyBudget'
  BY <1>1, <1>2, <1>3 DEF IInv, ReplyBudget
<1>8. InvFresh' /\ InvSystem' /\ InvUser' /\ InvUserReply' /\ InvReply'
  BY DEF InvFresh, InvSystem, InvUser, InvUserReply, InvReply
<1>9. QED
  BY <1>4, <1>5, <1>6, <1>7, <1>8 DEF IInv

(***************************************************************************)
(* A token that llama_decode takes keeps the system prompt and appends to  *)
(* a cache without gaps.                                                   *)
(***************************************************************************)
LEMMA TokenDecodedFacts ==
    ASSUME IInv, TokenDecoded
    PROVE  /\ DOMAIN kv' \subseteq Nat /\ kv' = [p \in DOMAIN kv' |-> kv'[p]]
           /\ decoded' \in Nat /\ curPos' \in Nat /\ sysPos <= curPos'
           /\ \A p \in 0 .. sysPos - 1 : p \in DOMAIN kv' /\ kv'[p] = p
           /\ overrun = {} =>
                /\ DOMAIN kv' = 0 .. curPos' - 1
                /\ curPos' <= NCells
                /\ \A p \in sysPos .. curPos' - 1 : kv'[p] = decoded' - curPos' + p
<1> USE SizesAssumption
<1>1. TypeOK /\ decoded \in Nat /\ sysPos \in Nat /\ curPos \in Nat
  BY DEF IInv, TypeOK
<1>2. /\ NextPos \in Nat /\ sysPos <= NextPos /\ NextPos <= curPos
      /\ DOMAIN NextKV \subseteq Nat /\ curPos - NextPos \in Nat
  BY <1>1, NextFacts
<1>3. /\ kv' = Extend(NextKV, NextPos, 1) /\ decoded' = decoded + 1 /\ curPos' = NextPos + 1
      /\ Consecutive(NextKV, NextPos) /\ HasRoom(NextKV, 1) /\ phase = "generating"
  BY DEF TokenDecoded, Accepts
<1>4. /\ DOMAIN kv' = DOMAIN NextKV \cup {NextPos}
      /\ DOMAIN kv' \subseteq Nat /\ kv' = [p \in DOMAIN kv' |-> kv'[p]]
      /\ \A p \in DOMAIN NextKV : p < NextPos => kv'[p] = NextKV[p]
      /\ kv'[NextPos] = decoded
  <2>1. NextPos .. NextPos + 1 - 1 = {NextPos}
    BY <1>2
  <2>2. QED
    BY <1>1, <1>2, <1>3, <2>1 DEF Extend
<1>5. ASSUME NEW p \in 0 .. sysPos - 1 PROVE p \in DOMAIN kv' /\ kv'[p] = p
  <2>1. p \in DOMAIN kv /\ kv[p] = p
    BY <1>3 DEF IInv, SystemPromptKept
  <2>2. p \in DOMAIN NextKV /\ NextKV[p] = p
    BY <1>1, <2>1, NextFacts
  <2>3. QED
    BY <1>1, <1>2, <1>4, <2>2
<1>6. ASSUME overrun = {}
      PROVE  /\ DOMAIN kv' = 0 .. curPos' - 1
             /\ curPos' <= NCells
             /\ \A p \in sysPos .. curPos' - 1 : kv'[p] = decoded' - curPos' + p
  <2>1. Tracked(curPos)
    BY <1>3, <1>6 DEF IInv, InvRest, AtRest
  <2>2. /\ DOMAIN NextKV = 0 .. NextPos - 1
        /\ \A p \in sysPos .. NextPos - 1 : NextKV[p] = kv[p + (curPos - NextPos)]
    BY <1>1, <2>1, NextFacts DEF Tracked
  <2>3. DOMAIN kv' = 0 .. curPos' - 1
    <3>1. 0 .. NextPos = (0 .. NextPos - 1) \cup {NextPos}
      BY <1>2
    <3>2. curPos' - 1 = NextPos
      BY <1>2, <1>3
    <3>3. DOMAIN kv' = (0 .. NextPos - 1) \cup {NextPos}
      BY <1>4, <2>2
    <3>4. QED
      BY <3>1, <3>2, <3>3
  <2>4. curPos' <= NCells
    BY <1>2, <1>3, <2>2, CellsInUse DEF HasRoom
  <2>5. ASSUME NEW p \in sysPos .. curPos' - 1 PROVE kv'[p] = decoded' - curPos' + p
    <3>1. CASE p = NextPos
      BY <1>1, <1>2, <1>3, <1>4, <3>1
    <3>2. CASE p # NextPos
      <4>1. p \in sysPos .. NextPos - 1 /\ p \in DOMAIN NextKV /\ p < NextPos
        BY <1>1, <1>2, <1>3, <2>2, <3>2
      <4>2. p + (curPos - NextPos) \in sysPos .. curPos - 1
        BY <1>1, <1>2, <4>1
      <4>3. kv'[p] = decoded - curPos + (p + (curPos - NextPos))
        BY <1>4, <2>1, <2>2, <4>1, <4>2 DEF Tracked
      <4>4. QED
        BY <1>1, <1>2, <1>3, <4>3
    <3>3. QED
      BY <3>1, <3>2
  <2>6. QED
    BY <2>3, <2>4, <2>5
<1>7. decoded' \in Nat /\ curPos' \in Nat /\ sysPos <= curPos'
  BY <1>1, <1>2, <1>3
<1>8. QED
  BY <1>4, <1>5, <1>6, <1>7

LEMMA GenerateTokenInv == IInv /\ GenerateToken => IInv'
<1> SUFFICES ASSUME IInv, GenerateToken PROVE IInv'
  OBVIOUS
<1> USE SizesAssumption DEF GenerateToken
<1>1. /\ TypeOK /\ sysPos \in Nat /\ curPos \in Nat /\ stopPos \in Nat /\ phase = "generating"
      /\ reply \in ReplyType /\ reply.predict \in Nat /\ reply.gen \in Nat /\ reply.dropped \in Nat
  BY DEF IInv, TypeOK, ReplyType, TokenDecoded
<1>2. /\ NextPos \in Nat /\ curPos - NextPos \in Nat
      /\ NextPos < stopPos /\ curPos' = NextPos + 1
  BY <1>1, NextFacts DEF TokenDecoded
<1>3. /\ reply' \in ReplyType /\ reply'.gen = reply.gen + 1 /\ reply'.predict = reply.predict
      /\ reply'.dropped = reply.dropped + (curPos - NextPos)
  <2>1. reply' = [Dropped EXCEPT !.gen = @ + 1]
    OBVIOUS
  <2>2. QED
    BY <1>1, <2>1, DroppedFacts DEF ReplyType
<1>4. TypeOK'
  BY <1>1, <1>3, TokenDecodedFacts DEF TypeOK
<1>5. (sysPos <= MaxPrompt)' /\ SystemPromptKept'
  BY TokenDecodedFacts DEF IInv, MaxPrompt, SystemPromptKept
<1>6. InvRest'
  BY TokenDecodedFacts DEF InvRest, Tracked
<1>7. InvReply' /\ ReplyBudget'
  BY <1>1, <1>2, <1>3 DEF IInv, InvReply, ReplyBudget
<1>8. InvFresh' /\ InvSystem' /\ InvUser' /\ InvUserReply'
  BY <1>1 DEF InvFresh, InvSystem, InvUser, InvUserReply
<1>9. QED
  BY <1>4, <1>5, <1>6, <1>7, <1>8 DEF IInv

LEMMA EndOfGenerationInv == IInv /\ EndOfGeneration => IInv'
<1> SUFFICES ASSUME IInv, EndOfGeneration PROVE IInv'
  OBVIOUS
<1> USE SizesAssumption DEF EndOfGeneration
<1>1. /\ TypeOK /\ sysPos \in Nat /\ curPos \in Nat /\ chat \in Seq(Roles)
      /\ reply \in ReplyType /\ reply.predict \in Nat /\ reply.gen \in Nat /\ reply.dropped \in Nat
  BY DEF IInv, TypeOK, ReplyType
<1>2. NextPos \in Nat /\ curPos - NextPos \in Nat
  BY <1>1, NextFacts
<1>3. /\ reply' \in ReplyType /\ reply'.gen = reply.gen /\ reply'.predict = reply.predict
      /\ reply'.dropped = reply.dropped + (curPos - NextPos)
  BY <1>1, DroppedFacts
<1>4. TypeOK'
  <2>1. chat' \in Seq(Roles)
    BY <1>1 DEF Roles
  <2>2. QED
    BY <1>1, <1>3, <2>1, TokenDecodedFacts DEF TypeOK, Phases
<1>5. (sysPos <= MaxPrompt)' /\ SystemPromptKept'
  BY TokenDecodedFacts DEF IInv, MaxPrompt, SystemPromptKept
<1>6. InvRest'
  BY TokenDecodedFacts DEF InvRest, Tracked
<1>7. ReplyBudget'
  BY <1>1, <1>2, <1>3 DEF IInv, ReplyBudget
<1>8. InvFresh' /\ InvSystem' /\ InvUser' /\ InvUserReply' /\ InvReply'
  BY DEF InvFresh, InvSystem, InvUser, InvUserReply, InvReply
<1>9. QED
  BY <1>4, <1>5, <1>6, <1>7, <1>8 DEF IInv

------------------------------------------------------------------------------
LEMMA StepInv == IInv /\ [Next]_vars => IInv'
<1> SUFFICES ASSUME IInv, [Next]_vars PROVE IInv'
  OBVIOUS
<1>1. CASE Prepare
  BY <1>1, PrepareInv
<1>2. ASSUME NEW n \in SystemSizes, BeginSystemPrompt(n) PROVE IInv'
  BY <1>2, BeginSystemPromptInv
<1>3. ASSUME NEW n \in UserSizes, NEW p \in PredictLengths, BeginUserPrompt(n, p) PROVE IInv'
  BY <1>3, BeginUserPromptInv
<1>4. CASE DecodeBatch
  BY <1>4, DecodeBatchInv
<1>5. CASE FinishSystemPrompt
  BY <1>5, FinishSystemPromptInv
<1>6. CASE FinishUserPrompt
  BY <1>6, FinishUserPromptInv
<1>7. CASE PromptFails
  BY <1>7, PromptFailsInv
<1>8. CASE StopAtLimit
  BY <1>8, NoTokenInv DEF StopAtLimit
<1>9. CASE GenerateToken
  BY <1>9, GenerateTokenInv
<1>10. CASE EndOfGeneration
  BY <1>10, EndOfGenerationInv
<1>11. CASE TokenFails
  BY <1>11, NoTokenInv DEF TokenFails
<1>12. CASE CancelGeneration
  BY <1>12, ReturnInv DEF CancelGeneration
<1>13. CASE Bench
  BY <1>13, ReturnInv DEF Bench
<1>14. CASE Unload
  BY <1>14, UnloadInv
<1>15. CASE ResetError
  BY <1>15, ResetErrorInv
<1>16. CASE UNCHANGED vars
  BY <1>16 DEF vars, IInv, TypeOK, SystemPromptKept, InvFresh, InvSystem, InvUser,
     InvUserReply, InvRest, AtRest, Tracked, InvReply, ReplyBudget
<1>17. QED
  BY <1>1, <1>2, <1>3, <1>4, <1>5, <1>6, <1>7, <1>8, <1>9, <1>10, <1>11, <1>12,
     <1>13, <1>14, <1>15, <1>16 DEF Next

LEMMA AlwaysIInv == Spec => []IInv
  BY InitInv, StepInv, PTL DEF Spec

(***************************************************************************)
(* Every state of the native session is well typed, and a prompt that is   *)
(* being decoded has batches left (processSystemPrompt, processUserPrompt, *)
(* decode_tokens_in_batches).                                              *)
(***************************************************************************)
THEOREM TypeCorrect == Spec => []TypeOK
<1>1. IInv => TypeOK
  BY DEF IInv
<1>2. QED
  BY <1>1, AlwaysIInv, PTL

(***************************************************************************)
(* No shift, truncation or failed decode ever touches the system prompt.   *)
(***************************************************************************)
THEOREM SystemPromptSurvives == Spec => []SystemPromptKept
<1>1. IInv => SystemPromptKept
  BY DEF IInv
<1>2. QED
  BY <1>1, AlwaysIInv, PTL

(***************************************************************************)
(* Unless a prompt overran the context, current_position is the number of  *)
(* positions in the cache, which holds the system prompt and the newest    *)
(* tokens without a gap.                                                   *)
(***************************************************************************)
THEOREM HistoryIsRecent == Spec => []RecentHistory
<1>1. IInv => RecentHistory
  BY DEF IInv, InvRest, RecentHistory, Tracked
<1>2. QED
  BY <1>1, AlwaysIInv, PTL

(***************************************************************************)
(* Unless a prompt overran the context, llama_decode always has a cell for *)
(* the next token: this is where OVERFLOW_HEADROOM >= 2 is needed.         *)
(***************************************************************************)
THEOREM GenerationNeverBlocks == Spec => []GenerationFits
  BY GenerationFitsInd, AlwaysIInv, PTL

(***************************************************************************)
(* A reply has at most n_predict tokens more than were discarded by the    *)
(* shifts made while it was generated.                                     *)
(***************************************************************************)
THEOREM ReplyIsBounded == Spec => []ReplyBudget
<1>1. IInv => ReplyBudget
  BY DEF IInv
<1>2. QED
  BY <1>1, AlwaysIInv, PTL

\* A model that was just loaded starts from position zero.
THEOREM FreshContextAtZero == Spec => []FreshContext
<1>1. IInv => FreshContext
  BY DEF IInv, InvFresh, FreshContext
<1>2. QED
  BY <1>1, AlwaysIInv, PTL

------------------------------------------------------------------------------
\* While a prompt is processed or answered, the last message is the user's.
Asked == phase \in {"user", "generating"} /\ HasTemplate =>
             chat # <<>> /\ chat[Len(chat)] = "user"

ChatInv == chat \in Seq(Roles) /\ Asked /\ ChatWellFormed

LEMMA AppendUser == ChatInv /\ chat' = Append(chat, "user") => ChatInv'
<1> SUFFICES ASSUME ChatInv, chat' = Append(chat, "user") PROVE ChatInv'
  OBVIOUS
<1>1. /\ chat' \in Seq(Roles) /\ Len(chat') = Len(chat) + 1 /\ chat'[Len(chat')] = "user"
      /\ \A i \in DOMAIN chat : chat'[i] = chat[i]
  BY DEF ChatInv, Roles
<1>2. ASSUME NEW i \in DOMAIN chat'
      PROVE  i \in DOMAIN chat \/ i = Len(chat')
  BY <1>1 DEF ChatInv
<1>3. \A i \in DOMAIN chat : i > 1 => i - 1 \in DOMAIN chat
  BY DEF ChatInv
<1>4. ChatWellFormed'
  BY <1>1, <1>2, <1>3 DEF ChatInv, ChatWellFormed
<1> QED  BY <1>1, <1>4 DEF ChatInv, Asked

\* The reply joins the history behind the message it answers.
LEMMA AppendAssistant ==
    ASSUME ChatInv, phase = "generating", chat' = Append(chat, "assistant"), phase' = "ready"
    PROVE  ChatInv'
<1>1. /\ chat' \in Seq(Roles) /\ Len(chat') = Len(chat) + 1 /\ chat'[Len(chat')] = "assistant"
      /\ \A i \in DOMAIN chat : chat'[i] = chat[i]
  BY DEF ChatInv, Roles
<1>2. ASSUME NEW i \in DOMAIN chat'
      PROVE  i \in DOMAIN chat \/ i = Len(chat')
  BY <1>1 DEF ChatInv
<1>3. \A i \in DOMAIN chat : i > 1 => i - 1 \in DOMAIN chat
  BY DEF ChatInv
<1>4. HasTemplate => Len(chat) \in DOMAIN chat /\ chat[Len(chat)] = "user"
  BY DEF ChatInv, Asked
<1>5. ASSUME NEW i \in DOMAIN chat'
      PROVE  /\ chat'[i] = "system" => i = 1
             /\ chat'[i] = "assistant" /\ HasTemplate => i > 1 /\ chat'[i - 1] = "user"
  <2>1. CASE i \in DOMAIN chat
    BY <1>1, <1>3, <2>1 DEF ChatInv, ChatWellFormed
  <2>2. CASE i = Len(chat')
    <3>1. chat'[i] = "assistant"
      BY <1>1, <2>2
    <3>2. HasTemplate => Len(chat) \in Nat \ {0} /\ i = Len(chat) + 1 /\ chat'[i - 1] = "user"
      BY <1>1, <1>4, <2>2 DEF ChatInv
    <3> QED  BY <3>1, <3>2
  <2> QED  BY <1>2, <2>1, <2>2
<1>6. ChatWellFormed'
  BY <1>5 DEF ChatWellFormed
<1> QED  BY <1>1, <1>6 DEF ChatInv, Asked

LEMMA ChatInvStep == ChatInv /\ [Next]_vars => ChatInv'
<1> SUFFICES ASSUME ChatInv, [Next]_vars PROVE ChatInv'
  OBVIOUS
<1>1. CASE UNCHANGED chat /\ (phase' \in {"user", "generating"} => phase \in {"user", "generating"})
  BY <1>1 DEF ChatInv, Asked, ChatWellFormed
<1>2. ASSUME NEW n \in SystemSizes, BeginSystemPrompt(n) PROVE ChatInv'
  <2>1. chat' = <<"system">> \/ chat' = <<>>
    BY <1>2 DEF BeginSystemPrompt
  <2>2. phase' \notin {"user", "generating"}
    BY <1>2 DEF BeginSystemPrompt
  <2>3. chat' \in Seq(Roles) /\ \A i \in DOMAIN chat' : i = 1 /\ chat'[i] = "system"
    <3>1. CASE chat' = <<"system">>
      <4>1. chat' \in Seq(Roles) /\ Len(chat') = 1 /\ chat'[1] = "system"
        BY <3>1 DEF Roles
      <4> QED  BY <4>1
    <3>2. CASE chat' = <<>>
      BY <3>2
    <3> QED  BY <2>1, <3>1, <3>2
  <2> QED  BY <2>2, <2>3 DEF ChatInv, Asked, ChatWellFormed
<1>3. ASSUME NEW n \in UserSizes, NEW p \in PredictLengths, BeginUserPrompt(n, p) PROVE ChatInv'
  <2>1. CASE HasTemplate
    BY <1>3, <2>1, AppendUser DEF BeginUserPrompt
  <2>2. CASE ~HasTemplate
    BY <1>3, <2>2 DEF BeginUserPrompt, ChatInv, Asked, ChatWellFormed
  <2> QED  BY <2>1, <2>2
<1>4. CASE EndOfGeneration
  BY <1>4, AppendAssistant DEF EndOfGeneration, TokenDecoded
<1>5. CASE Unload
  BY <1>5 DEF Unload, ChatInv, Asked, ChatWellFormed
<1>6. CASE DecodeBatch \/ FinishSystemPrompt \/ FinishUserPrompt \/ PromptFails
  BY <1>1, <1>6 DEF DecodeBatch, FinishSystemPrompt, FinishUserPrompt, PromptFails
<1>7. CASE StopAtLimit \/ GenerateToken \/ TokenFails \/ CancelGeneration
  BY <1>1, <1>7 DEF StopAtLimit, GenerateToken, TokenFails, CancelGeneration
<1>8. CASE Prepare \/ Bench \/ ResetError \/ UNCHANGED vars
  BY <1>1, <1>8 DEF Prepare, Bench, ResetError, vars
<1> QED  BY <1>2, <1>3, <1>4, <1>5, <1>6, <1>7, <1>8 DEF Next

(***************************************************************************)
(* chat_msgs, from which the next prompt is formatted, reads as a          *)
(* conversation after any number of prompts, failures and cancellations.   *)
(***************************************************************************)
THEOREM HistoryReadsAsChat == Spec => []ChatWellFormed
<1>1. Init => ChatInv
  BY DEF Init, ChatInv, Asked, ChatWellFormed
<1>2. ChatInv => ChatWellFormed
  BY DEF ChatInv
<1>3. QED
  BY <1>1, <1>2, ChatInvStep, PTL DEF Spec

------------------------------------------------------------------------------
(* The cells of the cache (KvCache).                                       *)

(***************************************************************************)
(* The smallest of a set of natural numbers.                               *)
(***************************************************************************)
LEMMA MinIsSmallest ==
    ASSUME NEW S \in SUBSET Nat, S # {}
    PROVE  Min(S) \in S /\ \A y \in S : Min(S) <= y
<1> DEFINE R == {ss \in Nat \X Nat : ss[1] < ss[2]}
<1>1. IsWellFoundedOn(R, Nat)
  BY NatLessThanWellFounded DEF OpToRel
<1> HIDE DEF R
<1>2. PICK x \in S : \A y \in S : ~ (<<y, x>> \in R)
  BY <1>1, WFMin
<1>3. ASSUME NEW y \in S PROVE x <= y
  <2>1. x \in Nat /\ y \in Nat /\ ~ (<<y, x>> \in R)
    BY <1>2
  <2>2. ~ (y < x)
    BY <2>1 DEF R
  <2>3. QED
    BY <2>1, <2>2
<1>4. QED
  BY <1>2, <1>3 DEF Min

------------------------------------------------------------------------------
(***************************************************************************)
(* The order in which find_slot passes the free cells.                     *)
(***************************************************************************)
LEMMA CellsFinite ==
    ASSUME NEW c \in CacheType
    PROVE  /\ Free(c) \subseteq Cells /\ Used(c) \subseteq Cells
           /\ IsFiniteSet(Free(c)) /\ IsFiniteSet(Used(c))
           /\ Cardinality(Free(c)) \in Nat /\ Cardinality(Used(c)) \in Nat
           /\ Cardinality(Used(c)) + Cardinality(Free(c)) = NCells
<1> USE SizesAssumption
<1>1. IsFiniteSet(Cells) /\ Cardinality(Cells) = NCells
  <2>1. Cardinality(0 .. NCells - 1) = IF 0 > NCells - 1 THEN 0 ELSE NCells - 1 - 0 + 1
    BY FS_Interval
  <2>2. QED
    BY <2>1, FS_Interval DEF Cells
<1>2. Free(c) \subseteq Cells /\ Used(c) \subseteq Cells /\ Cells \cap Used(c) = Used(c)
  BY DEF Free, Used
<1>3. IsFiniteSet(Used(c)) /\ IsFiniteSet(Free(c))
  BY <1>1, <1>2, FS_Subset
<1>4. Cardinality(Free(c)) = NCells - Cardinality(Used(c))
  BY <1>1, <1>2, FS_Difference DEF Free
<1>5. QED
  BY <1>2, <1>3, <1>4, FS_CardinalityType

LEMMA RankFacts ==
    ASSUME NEW c \in CacheType, NEW n \in Nat
    PROVE  /\ \A i \in Cells : Rank(c, n, i) \in Nat
           /\ \A i, j \in Free(c) : j \in FreeBefore(c, n, i) => Rank(c, n, j) < Rank(c, n, i)
           /\ \A i, j \in Free(c) : Rank(c, n, i) = Rank(c, n, j) => i = j
           /\ \A i \in Free(c) : Rank(c, n, i) < Cardinality(Free(c))
<1> DEFINE start == SearchStart(c, n)
<1> USE SizesAssumption
<1>1. Free(c) \subseteq Nat /\ IsFiniteSet(Free(c)) /\ Cardinality(Free(c)) \in Nat
  BY CellsFinite DEF Cells
<1>2. start \in Nat
  BY DEF SearchStart, CacheType
<1>3. \A i : FreeBefore(c, n, i) = {j \in Free(c) : IF i < start THEN j < i \/ start <= j
                                                              ELSE start <= j /\ j < i}
  BY DEF FreeBefore
<1> HIDE DEF start
<1>4. \A i : FreeBefore(c, n, i) \subseteq Free(c)
  BY <1>3
<1>5. \A i : IsFiniteSet(FreeBefore(c, n, i)) /\ Rank(c, n, i) \in Nat
  BY <1>1, <1>4, FS_Subset, FS_CardinalityType DEF Rank
<1>6. ASSUME NEW i \in Free(c), NEW j \in FreeBefore(c, n, i) PROVE Rank(c, n, j) < Rank(c, n, i)
  <2>1. j \in Free(c) /\ i \in Nat /\ j \in Nat
    BY <1>1, <1>4
  <2>2. j \notin FreeBefore(c, n, j)
    BY <1>2, <1>3, <2>1
  <2>3. FreeBefore(c, n, j) \cup {j} \subseteq FreeBefore(c, n, i)
    BY <1>1, <1>2, <1>3, <2>1
  <2>4. Cardinality(FreeBefore(c, n, j) \cup {j}) = Rank(c, n, j) + 1
    BY <1>5, <2>2, FS_AddElement DEF Rank
  <2>5. Cardinality(FreeBefore(c, n, j) \cup {j}) <= Rank(c, n, i)
    BY <1>5, <2>3, FS_Subset DEF Rank
  <2>6. QED
    BY <1>5, <2>4, <2>5
<1>7. ASSUME NEW i \in Free(c), NEW j \in Free(c), Rank(c, n, i) = Rank(c, n, j) PROVE i = j
  <2>1. i \notin FreeBefore(c, n, j) /\ j \notin FreeBefore(c, n, i)
    BY <1>5, <1>6, <1>7
  <2>2. QED
    BY <1>1, <1>2, <1>3, <2>1
<1>8. ASSUME NEW i \in Free(c) PROVE Rank(c, n, i) < Cardinality(Free(c))
  <2>1. i \notin FreeBefore(c, n, i)
    BY <1>1, <1>2, <1>3
  <2>2. Cardinality(FreeBefore(c, n, i)) <= Cardinality(Free(c))
    BY <1>1, <1>4, FS_Subset
  <2>3. Cardinality(Free(c)) # Cardinality(FreeBefore(c, n, i))
    BY <1>1, <1>4, <2>1, FS_Subset
  <2>4. QED
    BY <1>1, <1>5, <2>2, <2>3 DEF Rank
<1>9. QED
  BY <1>5, <1>6, <1>7, <1>8

(***************************************************************************)
(* find_slot finds n cells exactly if n are free, and the cells it finds   *)
(* are numbered from 0 to n - 1.                                           *)
(***************************************************************************)
LEMMA SlotFacts ==
    ASSUME NEW c \in CacheType, NEW n \in Nat
    PROVE  /\ Fits(c, n) <=> n <= Cardinality(Free(c))
           /\ Fits(c, n) => \A k \in 0 .. n - 1 : \E i \in Slot(c, n) : Rank(c, n, i) = k
<1> DEFINE F == Cardinality(Free(c))
           f == [i \in Free(c) |-> Rank(c, n, i)]
           g == [i \in Slot(c, n) |-> Rank(c, n, i)]
<1>1. F \in Nat /\ IsFiniteSet(Free(c)) /\ Free(c) \subseteq Cells
  BY CellsFinite
<1>2. /\ Cardinality(0 .. F - 1) = F /\ IsFiniteSet(0 .. F - 1)
      /\ Cardinality(0 .. n - 1) = n /\ IsFiniteSet(0 .. n - 1)
  <2>1. Cardinality(0 .. F - 1) = F /\ Cardinality(0 .. n - 1) = n
    BY <1>1, CellsInUse
  <2>2. F - 1 \in Int /\ n - 1 \in Int
    BY <1>1
  <2>3. QED
    BY <2>1, <2>2, FS_Interval
<1>3. f \in Injection(Free(c), 0 .. F - 1)
  <2>1. \A i \in Free(c) : Rank(c, n, i) \in 0 .. F - 1
    BY <1>1, RankFacts
  <2>2. \A i, j \in Free(c) : Rank(c, n, i) = Rank(c, n, j) => i = j
    BY RankFacts
  <2>3. QED
    BY <2>1, <2>2 DEF Injection, IsInjective
<1>4. f \in Surjection(Free(c), 0 .. F - 1)
  BY <1>1, <1>2, <1>3, FS_Injection
<1>5. \A k \in 0 .. F - 1 : \E i \in Free(c) : Rank(c, n, i) = k
  BY <1>4 DEF Surjection
<1>6. Slot(c, n) \subseteq Free(c) /\ IsFiniteSet(Slot(c, n))
  BY <1>1, FS_Subset DEF Slot
<1> HIDE DEF F
<1>7. CASE n <= F
  <2>1. \A k \in 0 .. n - 1 : \E i \in Slot(c, n) : Rank(c, n, i) = k
    <3> SUFFICES ASSUME NEW k \in 0 .. n - 1 PROVE \E i \in Slot(c, n) : Rank(c, n, i) = k
      OBVIOUS
    <3>1. k \in 0 .. F - 1 /\ k < n
      BY <1>1, <1>7
    <3>2. QED
      BY <1>5, <3>1 DEF Slot
  <2>2. g \in Injection(Slot(c, n), 0 .. n - 1)
    <3>1. \A i \in Slot(c, n) : Rank(c, n, i) \in 0 .. n - 1
      BY <1>1, <1>6, RankFacts DEF Slot
    <3>2. \A i, j \in Slot(c, n) : Rank(c, n, i) = Rank(c, n, j) => i = j
      BY <1>6, RankFacts
    <3>3. QED
      BY <3>1, <3>2 DEF Injection, IsInjective
  <2>3. g \in Surjection(Slot(c, n), 0 .. n - 1)
    BY <2>1, <2>2 DEF Surjection, Injection
  <2>4. Cardinality(Slot(c, n)) = n
    BY <1>2, <2>2, <2>3, FS_Injection
  <2>5. QED
    BY <1>7, <2>1, <2>4 DEF Fits, F
<1>8. CASE ~(n <= F)
  <2>1. Slot(c, n) = Free(c)
    <3>1. \A i \in Free(c) : Rank(c, n, i) < n
      BY <1>1, <1>8, RankFacts DEF F
    <3>2. QED
      BY <3>1 DEF Slot
  <2>2. QED
    BY <1>1, <1>8, <2>1 DEF Fits, F
<1>9. QED
  BY <1>7, <1>8

------------------------------------------------------------------------------
(***************************************************************************)
(* The operations of llama_kv_cache, on a sound cache.                     *)
(***************************************************************************)
\* c is a cache that holds k, with keys that follow and no free cell behind.
Sound(c, k) == c \in CacheType /\ Holds(c, k) /\ Keyed(c) /\ FrontFilled(c)

LEMMA CacheFields ==
    ASSUME NEW c \in CacheType
    PROVE  /\ c.cells \in [Cells -> Cell] /\ c.head \in 0 .. NCells /\ c.hasShift \in BOOLEAN
           /\ \A i \in Cells : /\ c.cells[i] \in Cell
                              /\ c.cells[i].shift \in Int /\ c.cells[i].rot \in Int
                              /\ c.cells[i].token \in Nat /\ c.cells[i].pos \in Nat \cup {-1}
           /\ \A i \in Used(c) : i \in Cells /\ c.cells[i].pos \in Nat
           /\ \A i \in Free(c) : i \in Cells /\ c.cells[i].pos = -1
<1>1. c.cells \in [Cells -> Cell] /\ c.head \in 0 .. NCells /\ c.hasShift \in BOOLEAN
  BY DEF CacheType
<1>2. \A i \in Cells : c.cells[i] \in Cell
  BY <1>1
<1>3. \A i \in Cells : /\ c.cells[i].shift \in Int /\ c.cells[i].rot \in Int
                       /\ c.cells[i].token \in Nat /\ c.cells[i].pos \in Nat \cup {-1}
  BY <1>2 DEF Cell
<1>4. QED
  BY <1>1, <1>2, <1>3 DEF Used, Free

LEMMA NewCacheSound == Sound(NewCache, EmptyKV)
<1> USE SizesAssumption
<1>1. NoCell \in Cell
  BY DEF NoCell, Cell
<1>2. NewCache \in CacheType
  BY <1>1 DEF NewCache, CacheType
<1>3. Used(NewCache) = {}
  BY DEF Used, NewCache, NoCell
<1>4. Holds(NewCache, EmptyKV) /\ Keyed(NewCache)
  BY <1>3 DEF Holds, Keyed, EmptyKV
<1>5. FrontFilled(NewCache)
  BY DEF FrontFilled, Free, Cells, NewCache
<1>6. QED
  BY <1>2, <1>4, <1>5 DEF Sound

LEMMA SeqRmFacts ==
    ASSUME NEW c \in CacheType, Keyed(c), FrontFilled(c), NEW p0, NEW p1
    PROVE  /\ SeqRm(c, p0, p1) \in CacheType
           /\ Keyed(SeqRm(c, p0, p1)) /\ FrontFilled(SeqRm(c, p0, p1))
           /\ Used(SeqRm(c, p0, p1)) = Used(c) \ PosIn(c, p0, p1)
           /\ \A i \in Used(SeqRm(c, p0, p1)) : SeqRm(c, p0, p1).cells[i] = c.cells[i]
<1> DEFINE gone == PosIn(c, p0, p1)
           r == SeqRm(c, p0, p1)
           h == Min(gone \cup {c.head})
<1> USE SizesAssumption
<1>1. gone \subseteq Used(c) /\ gone \subseteq Cells
  BY DEF PosIn, Used
<1>2. c.head \in Nat /\ c.head <= NCells /\ Cells \subseteq Nat /\ \A i \in Cells : i <= NCells
  BY CacheFields DEF Cells
<1>3. h \in gone \cup {c.head} /\ \A y \in gone \cup {c.head} : h <= y
  BY <1>1, <1>2, MinIsSmallest
<1>4. r = [cells |-> Without(c, gone), head |-> h, hasShift |-> c.hasShift]
  BY DEF SeqRm
<1> HIDE DEF gone, r, h
<1>5. NoCell \in Cell
  BY DEF NoCell, Cell
<1>6. Without(c, gone) \in [Cells -> Cell]
  BY <1>5, CacheFields DEF Without
<1>7. r \in CacheType
  BY <1>1, <1>2, <1>3, <1>4, <1>6, CacheFields DEF CacheType
<1>8. \A i \in Cells : r.cells[i] = IF i \in gone THEN NoCell ELSE c.cells[i]
  BY <1>4 DEF Without
<1>9. Used(r) = Used(c) \ gone
  BY <1>8 DEF Used, NoCell
<1>10. \A i \in Used(r) : r.cells[i] = c.cells[i]
  BY <1>8, <1>9 DEF Used
<1>11. Keyed(r)
  BY <1>4, <1>9, <1>10 DEF Keyed
<1>12. FrontFilled(r)
  <2> SUFFICES ASSUME NEW i \in Free(r) PROVE r.head <= i
    BY DEF FrontFilled
  <2>1. i \in Free(c) \/ i \in gone
    BY <1>9 DEF Free
  <2>2. CASE i \in gone
    BY <1>3, <1>4, <2>2
  <2>3. CASE i \in Free(c)
    <3>1. h <= c.head /\ c.head <= i
      BY <1>3, <2>3 DEF FrontFilled
    <3>2. h \in Nat /\ i \in Nat
      BY <1>1, <1>2, <1>3 DEF Free
    <3>3. QED
      BY <1>2, <1>4, <3>1, <3>2
  <2>4. QED
    BY <2>1, <2>2, <2>3
<1>13. QED
  BY <1>7, <1>9, <1>10, <1>11, <1>12 DEF r, gone

\* A range is moved to where no position is negative: nothing is freed.
LEMMA SeqAddFacts ==
    ASSUME NEW c \in CacheType, Keyed(c), FrontFilled(c),
           NEW p0 \in Nat, NEW p1 \in Nat, NEW d \in Int, p0 + d >= 0
    PROVE  /\ SeqAdd(c, p0, p1, d) \in CacheType
           /\ Keyed(SeqAdd(c, p0, p1, d)) /\ FrontFilled(SeqAdd(c, p0, p1, d))
           /\ Used(SeqAdd(c, p0, p1, d)) = Used(c)
           /\ \A i \in Used(c) :
                /\ SeqAdd(c, p0, p1, d).cells[i].token = c.cells[i].token
                /\ SeqAdd(c, p0, p1, d).cells[i].pos =
                       IF p0 <= c.cells[i].pos /\ c.cells[i].pos < p1
                       THEN c.cells[i].pos + d ELSE c.cells[i].pos
<1> DEFINE moved == PosIn(c, p0, p1)
           r == SeqAdd(c, p0, p1, d)
<1> USE SizesAssumption
<1>1. moved = {i \in Used(c) : p0 <= c.cells[i].pos /\ c.cells[i].pos < p1}
  BY DEF PosIn
<1>2. CASE d = 0 \/ p0 = p1
  <2>1. r = c
    BY <1>2 DEF SeqAdd
  <2>2. \A i \in Used(c) : c.cells[i].pos \in Nat
    BY CacheFields
  <2>3. QED
    BY <1>2, <2>1, <2>2
<1>3. CASE ~(d = 0 \/ p0 = p1)
  <2> DEFINE freed == {i \in moved : c.cells[i].pos + d < 0}
  <2>1. freed = {}
    <3> SUFFICES ASSUME NEW i \in moved PROVE ~ (c.cells[i].pos + d < 0)
      OBVIOUS
    <3>1. c.cells[i].pos \in Nat /\ p0 <= c.cells[i].pos
      BY <1>1, CacheFields
    <3>2. QED
      BY <3>1
  <2>2. r = [cells |-> [i \in Cells |-> IF i \in moved THEN Moved(c.cells[i], d) ELSE c.cells[i]],
             head |-> 0, hasShift |-> c.hasShift \/ moved # {}]
    BY <1>3, <2>1 DEF SeqAdd
  <2> HIDE DEF r, moved, freed
  <2>3. ASSUME NEW i \in moved
        PROVE  /\ i \in Cells /\ c.cells[i] \in Cell /\ c.cells[i].pos \in Nat
               /\ Moved(c.cells[i], d) \in Cell
               /\ Moved(c.cells[i], d).pos = c.cells[i].pos + d
               /\ Moved(c.cells[i], d).pos \in Nat
               /\ Moved(c.cells[i], d).shift = c.cells[i].shift + d
               /\ Moved(c.cells[i], d).rot = c.cells[i].rot
               /\ Moved(c.cells[i], d).token = c.cells[i].token
    <3> DEFINE cell == c.cells[i]
    <3>1. /\ i \in Cells /\ cell \in Cell /\ cell.pos \in Nat
          /\ p0 <= cell.pos /\ cell.shift \in Int
      BY <1>1, CacheFields
    <3> HIDE DEF cell
    <3>2. cell.pos + d \in Nat
      BY <3>1
    <3>3. Moved(cell, d) = [cell EXCEPT !.pos = cell.pos + d, !.shift = cell.shift + d]
      BY <3>1, <3>2 DEF Moved
    <3>4. /\ Moved(cell, d) \in Cell
          /\ Moved(cell, d).pos = cell.pos + d /\ Moved(cell, d).shift = cell.shift + d
          /\ Moved(cell, d).rot = cell.rot /\ Moved(cell, d).token = cell.token
      <4>1. cell.shift + d \in Int
        BY <3>1
      <4>2. QED
        BY <3>1, <3>2, <3>3, <4>1 DEF Cell
    <3>5. QED
      BY <3>1, <3>2, <3>4 DEF cell
  <2>4. \A i \in Cells \ moved : c.cells[i] \in Cell
    BY CacheFields
  <2>5. [i \in Cells |-> IF i \in moved THEN Moved(c.cells[i], d) ELSE c.cells[i]] \in [Cells -> Cell]
    BY <2>3, <2>4
  <2>6. r \in CacheType
    BY <2>2, <2>5, CacheFields DEF CacheType
  <2>7. \A i \in Cells : r.cells[i] = IF i \in moved THEN Moved(c.cells[i], d) ELSE c.cells[i]
    BY <2>2
  <2>8. Used(r) = Used(c)
    <3>1. \A i \in Cells : r.cells[i].pos # -1 <=> c.cells[i].pos # -1
      <4> SUFFICES ASSUME NEW i \in Cells PROVE r.cells[i].pos # -1 <=> c.cells[i].pos # -1
        OBVIOUS
      <4>1. CASE i \in moved
        BY <2>3, <2>7, <4>1
      <4>2. CASE i \notin moved
        BY <2>7, <4>2
      <4>3. QED
        BY <4>1, <4>2
    <3>2. QED
      BY <3>1 DEF Used
  <2>9. ASSUME NEW i \in Used(c)
        PROVE  /\ r.cells[i].token = c.cells[i].token
               /\ r.cells[i].pos = IF p0 <= c.cells[i].pos /\ c.cells[i].pos < p1
                                   THEN c.cells[i].pos + d ELSE c.cells[i].pos
               /\ r.cells[i].rot + r.cells[i].shift = r.cells[i].pos
               /\ r.cells[i].shift # 0 => r.hasShift
    <3>1. /\ i \in Cells /\ c.cells[i].rot \in Int /\ c.cells[i].shift \in Int
          /\ c.cells[i].pos \in Nat /\ c.cells[i].rot + c.cells[i].shift = c.cells[i].pos
          /\ c.cells[i].shift # 0 => c.hasShift
      BY CacheFields DEF Keyed
    <3>2. CASE i \in moved
      <4>1. r.cells[i] = Moved(c.cells[i], d) /\ r.hasShift
        BY <2>2, <2>7, <3>1, <3>2
      <4>2. p0 <= c.cells[i].pos /\ c.cells[i].pos < p1
        BY <1>1, <3>2
      <4>3. QED
        BY <2>3, <3>1, <3>2, <4>1, <4>2
    <3>3. CASE i \notin moved
      <4>1. r.cells[i] = c.cells[i] /\ (c.hasShift => r.hasShift)
        BY <2>2, <2>7, <3>1, <3>3
      <4>2. ~ (p0 <= c.cells[i].pos /\ c.cells[i].pos < p1)
        BY <1>1, <3>3
      <4>3. QED
        BY <3>1, <4>1, <4>2
    <3>4. QED
      BY <3>2, <3>3
  <2>10. Keyed(r)
    BY <2>8, <2>9 DEF Keyed
  <2>11. FrontFilled(r)
    BY <2>2 DEF FrontFilled, Free, Cells
  <2>12. QED
    BY <2>6, <2>8, <2>9, <2>10, <2>11 DEF r
<1>4. QED
  BY <1>2, <1>3

(***************************************************************************)
(* shift_context does to the cells what ShiftKV does to the window.        *)
(***************************************************************************)
LEMMA ShiftCellsSound ==
    ASSUME NEW c, NEW k, Sound(c, k), NEW s \in Nat, NEW p \in Nat, s <= p
    PROVE  Sound(ShiftCells(c, s, p), ShiftKV(k, s, p))
<1> DEFINE d == Discard(s, p)
           m == SeqRm(c, s, s + d)
           r == ShiftCells(c, s, p)
           q(i) == c.cells[i].pos
<1>1. d \in Nat /\ s <= p - d /\ p - d \in Nat /\ s + d \in Nat
  BY DiscardHalf
<1>2. c \in CacheType /\ Keyed(c) /\ FrontFilled(c) /\ Holds(c, k)
  BY DEF Sound
<1>3. r = SeqAdd(m, s + d, p, -d)
  BY DEF ShiftCells
<1> HIDE DEF d
<1>4. /\ m \in CacheType /\ Keyed(m) /\ FrontFilled(m)
      /\ Used(m) = Used(c) \ PosIn(c, s, s + d)
      /\ \A i \in Used(m) : m.cells[i] = c.cells[i]
  BY <1>2, SeqRmFacts
<1> HIDE DEF m, r
<1>5. /\ r \in CacheType /\ Keyed(r) /\ FrontFilled(r) /\ Used(r) = Used(m)
      /\ \A i \in Used(m) :
            /\ r.cells[i].token = m.cells[i].token
            /\ r.cells[i].pos = IF s + d <= m.cells[i].pos /\ m.cells[i].pos < p
                                THEN m.cells[i].pos + (-d) ELSE m.cells[i].pos
  <2>1. PICK e \in Int : e = -d /\ (s + d) + e >= 0
    BY <1>1
  <2>2. r = SeqAdd(m, s + d, p, e)
    BY <1>3, <2>1
  <2>3. /\ r \in CacheType /\ Keyed(r) /\ FrontFilled(r) /\ Used(r) = Used(m)
        /\ \A i \in Used(m) :
              /\ r.cells[i].token = m.cells[i].token
              /\ r.cells[i].pos = IF s + d <= m.cells[i].pos /\ m.cells[i].pos < p
                                  THEN m.cells[i].pos + e ELSE m.cells[i].pos
    <3>1. s + d \in Nat /\ p \in Nat /\ (s + d) + e >= 0
      BY <1>1, <2>1
    <3> DEFINE a == s + d
    <3> HIDE DEF a
    <3>2. a \in Nat /\ a + e >= 0 /\ r = SeqAdd(m, a, p, e)
      BY <2>2, <3>1 DEF a
    <3>3. /\ r \in CacheType /\ Keyed(r) /\ FrontFilled(r) /\ Used(r) = Used(m)
          /\ \A i \in Used(m) :
                /\ r.cells[i].token = m.cells[i].token
                /\ r.cells[i].pos = IF a <= m.cells[i].pos /\ m.cells[i].pos < p
                                    THEN m.cells[i].pos + e ELSE m.cells[i].pos
      <4>1. /\ SeqAdd(m, a, p, e) \in CacheType
            /\ Keyed(SeqAdd(m, a, p, e)) /\ FrontFilled(SeqAdd(m, a, p, e))
            /\ Used(SeqAdd(m, a, p, e)) = Used(m)
            /\ \A i \in Used(m) :
                 /\ SeqAdd(m, a, p, e).cells[i].token = m.cells[i].token
                 /\ SeqAdd(m, a, p, e).cells[i].pos =
                        IF a <= m.cells[i].pos /\ m.cells[i].pos < p
                        THEN m.cells[i].pos + e ELSE m.cells[i].pos
        <5>1. /\ m \in CacheType /\ Keyed(m) /\ FrontFilled(m)
              /\ a \in Nat /\ p \in Nat /\ e \in Int /\ a + e >= 0
          BY <1>4, <2>1, <3>2
        <5>2. QED
          BY <5>1, SeqAddFacts
      <4>2. QED
        BY <3>2, <4>1
    <3>4. QED
      BY <3>3 DEF a
  <2>4. QED
    BY <2>1, <2>3
<1>6. \A i \in Used(c) : q(i) \in Nat /\ q(i) \in DOMAIN k /\ c.cells[i].token = k[q(i)]
  BY <1>2, CacheFields DEF Holds
<1>7. Used(r) = {i \in Used(c) : q(i) < s \/ s + d <= q(i)}
  <2>1. PosIn(c, s, s + d) = {i \in Used(c) : s <= q(i) /\ q(i) < s + d}
    BY <1>1 DEF PosIn
  <2>2. QED
    BY <1>1, <1>4, <1>5, <1>6, <2>1
<1>8. ASSUME NEW i \in Used(r)
      PROVE  /\ i \in Used(c) /\ q(i) \in Nat /\ r.cells[i].token = k[q(i)] /\ q(i) \in DOMAIN k
             /\ \/ (q(i) < s \/ p <= q(i)) /\ r.cells[i].pos = q(i)
                \/ s + d <= q(i) /\ q(i) < p /\ r.cells[i].pos = q(i) - d
  <2>1. i \in Used(c) /\ q(i) \in Nat /\ (q(i) < s \/ s + d <= q(i))
    BY <1>6, <1>7
  <2>2. m.cells[i] = c.cells[i]
    BY <1>4, <1>5
  <2>3. r.cells[i].pos = IF s + d <= q(i) /\ q(i) < p THEN q(i) + (-d) ELSE q(i)
    BY <1>5, <2>2
  <2>4. r.cells[i].token = k[q(i)] /\ q(i) \in DOMAIN k
    BY <1>5, <1>6, <2>1, <2>2
  <2>5. QED
    BY <1>1, <2>1, <2>3, <2>4
<1> DEFINE kk == ShiftKV(k, s, p)
<1>9. /\ DOMAIN kk = {x \in DOMAIN k : x < s \/ x >= p} \cup {x \in s .. (p - d - 1) : x + d \in DOMAIN k}
      /\ \A x \in DOMAIN kk : kk[x] = IF x < s \/ x >= p THEN k[x] ELSE k[x + d]
  BY DEF ShiftKV, ShiftedPositions, d
<1> HIDE DEF kk
<1>10. DOMAIN k = {q(i) : i \in Used(c)}
  BY <1>2 DEF Holds
<1>11. Holds(r, kk)
  <2>1. ASSUME NEW i \in Used(r)
        PROVE  r.cells[i].pos \in DOMAIN kk /\ r.cells[i].token = kk[r.cells[i].pos]
    <3>1. CASE (q(i) < s \/ p <= q(i)) /\ r.cells[i].pos = q(i)
      BY <1>8, <1>9, <3>1
    <3>2. CASE s + d <= q(i) /\ q(i) < p /\ r.cells[i].pos = q(i) - d
      <4>1. q(i) - d \in s .. (p - d - 1) /\ (q(i) - d) + d = q(i) /\ ~(q(i) - d < s) /\ ~(q(i) - d >= p)
        BY <1>1, <1>8, <3>2
      <4>2. QED
        BY <1>8, <1>9, <3>2, <4>1
    <3>3. QED
      BY <1>8, <3>1, <3>2
  <2>2. ASSUME NEW x \in DOMAIN kk PROVE \E i \in Used(r) : r.cells[i].pos = x
    <3>1. CASE x \in DOMAIN k /\ (x < s \/ x >= p)
      <4>1. PICK i \in Used(c) : q(i) = x
        BY <1>10, <3>1
      <4>2. i \in Used(r) /\ x \in Nat
        BY <1>1, <1>6, <1>7, <3>1, <4>1
      <4>3. r.cells[i].pos = x
        BY <1>1, <1>8, <3>1, <4>1, <4>2
      <4>4. QED
        BY <4>2, <4>3
    <3>2. CASE x \in s .. (p - d - 1) /\ x + d \in DOMAIN k
      <4>1. PICK i \in Used(c) : q(i) = x + d
        BY <1>10, <3>2
      <4>2. x \in Nat /\ s + d <= q(i) /\ q(i) < p
        BY <1>1, <3>2, <4>1
      <4>3. i \in Used(r)
        BY <1>7, <4>1, <4>2
      <4>4. r.cells[i].pos = x
        BY <1>1, <1>8, <4>1, <4>2, <4>3
      <4>5. QED
        BY <4>3, <4>4
    <3>3. QED
      BY <1>9, <3>1, <3>2
  <2>3. ASSUME NEW i \in Used(r), NEW j \in Used(r), r.cells[i].pos = r.cells[j].pos PROVE i = j
    <3>1. q(i) = q(j)
      BY <1>1, <1>8, <2>3
    <3>2. QED
      BY <1>2, <1>8, <3>1 DEF Holds
  <2>4. {r.cells[i].pos : i \in Used(r)} = DOMAIN kk
    BY <2>1, <2>2
  <2>5. QED
    BY <2>1, <2>3, <2>4 DEF Holds
<1>12. QED
  BY <1>5, <1>11 DEF Sound, r, kk

\* The K-shift changes no position; afterwards nothing is pending.
LEMMA RotatedSound ==
    ASSUME NEW c, NEW k, Sound(c, k)
    PROVE  Sound(Rotated(c), k)
<1> DEFINE r == Rotated(c)
<1>1. c \in CacheType /\ Keyed(c) /\ FrontFilled(c) /\ Holds(c, k)
  BY DEF Sound
<1>2. r = [cells |-> [i \in Cells |-> IF i \in Used(c) THEN KShifted(c.cells[i]) ELSE c.cells[i]],
           head |-> c.head, hasShift |-> FALSE]
  BY DEF Rotated
<1> HIDE DEF r
<1>3. ASSUME NEW i \in Cells
      PROVE  /\ r.cells[i] \in Cell
             /\ r.cells[i].pos = c.cells[i].pos /\ r.cells[i].token = c.cells[i].token
             /\ i \in Used(c) => /\ r.cells[i].rot = c.cells[i].rot + c.cells[i].shift
                                /\ r.cells[i].shift = 0
  <2> DEFINE cell == c.cells[i]
  <2>1. /\ cell \in Cell /\ cell.rot + cell.shift \in Int
        /\ cell.token \in Nat /\ cell.pos \in Nat \cup {-1}
    BY <1>1, CacheFields
  <2>2. r.cells[i] = IF i \in Used(c) THEN KShifted(cell) ELSE cell
    BY <1>2
  <2> HIDE DEF cell
  <2>3. /\ KShifted(cell) \in Cell /\ KShifted(cell).pos = cell.pos
        /\ KShifted(cell).token = cell.token /\ KShifted(cell).shift = 0
        /\ KShifted(cell).rot = cell.rot + cell.shift
    BY <2>1 DEF KShifted, Cell
  <2>4. QED
    BY <2>1, <2>2, <2>3 DEF cell
<1>4. r.cells \in [Cells -> Cell]
  BY <1>2, <1>3
<1>5. r \in CacheType
  BY <1>1, <1>2, <1>4, CacheFields DEF CacheType
<1>6. Used(r) = Used(c) /\ Free(r) = Free(c)
  BY <1>3 DEF Used, Free
<1>7. Used(c) \subseteq Cells
  BY DEF Used
<1>8. Holds(r, k)
  <2>1. {r.cells[i].pos : i \in Used(r)} = {c.cells[i].pos : i \in Used(c)}
    BY <1>3, <1>6, <1>7
  <2>2. QED
    BY <1>1, <1>3, <1>6, <1>7, <2>1 DEF Holds
<1>9. Keyed(r)
  <2> SUFFICES ASSUME NEW i \in Used(r)
               PROVE  r.cells[i].rot + r.cells[i].shift = r.cells[i].pos /\ r.cells[i].shift = 0
    BY DEF Keyed
  <2>1. /\ r.cells[i].rot = c.cells[i].rot + c.cells[i].shift /\ r.cells[i].shift = 0
        /\ r.cells[i].pos = c.cells[i].pos
        /\ c.cells[i].rot + c.cells[i].shift = c.cells[i].pos
        /\ c.cells[i].rot \in Int /\ c.cells[i].shift \in Int
    BY <1>1, <1>3, <1>6, <1>7, CacheFields DEF Keyed
  <2>2. QED
    BY <2>1
<1>10. FrontFilled(r)
  BY <1>1, <1>2, <1>6 DEF FrontFilled
<1>11. QED
  BY <1>5, <1>8, <1>9, <1>10 DEF Sound, r

LEMMA UpdatesSound ==
    ASSUME NEW c, NEW k, Sound(c, k), NEW u \in Updates(c)
    PROVE  Sound(u, k)
  BY RotatedSound DEF Updates

(***************************************************************************)
(* apply_ubatch fills the slot that find_slot found, and nothing else.     *)
(***************************************************************************)
LEMMA PlacedFacts ==
    ASSUME NEW c \in CacheType, Keyed(c), FrontFilled(c),
           NEW n \in Nat, n >= 1, Fits(c, n), NEW first \in Nat, decoded \in Nat
    PROVE  /\ Placed(c, first, n) \in CacheType
           /\ Keyed(Placed(c, first, n)) /\ FrontFilled(Placed(c, first, n))
           /\ Used(Placed(c, first, n)) = Used(c) \cup Slot(c, n)
           /\ \A i \in Slot(c, n) :
                /\ i \notin Used(c) /\ Rank(c, n, i) \in 0 .. n - 1
                /\ Placed(c, first, n).cells[i] = NewCell(first, Rank(c, n, i))
           /\ \A i \in Used(c) : Placed(c, first, n).cells[i] = c.cells[i]
<1> DEFINE r == Placed(c, first, n)
           last == CHOOSE i \in Slot(c, n) : Rank(c, n, i) = n - 1
<1> USE SizesAssumption
<1>1. r = [cells |-> [i \in Cells |->
                        IF i \in Slot(c, n) THEN NewCell(first, Rank(c, n, i)) ELSE c.cells[i]],
           head |-> 1 + last, hasShift |-> c.hasShift]
  BY DEF Placed
<1>2. last \in Slot(c, n) /\ Rank(c, n, last) = n - 1
  <2>1. n - 1 \in 0 .. n - 1
    OBVIOUS
  <2>2. QED
    BY <2>1, SlotFacts
<1> HIDE DEF r, last
<1>3. \A i \in Slot(c, n) : /\ i \in Free(c) /\ i \in Cells /\ i \notin Used(c)
                            /\ Rank(c, n, i) \in Nat /\ Rank(c, n, i) \in 0 .. n - 1
  <2> SUFFICES ASSUME NEW i \in Slot(c, n)
               PROVE  /\ i \in Free(c) /\ i \in Cells /\ i \notin Used(c)
                      /\ Rank(c, n, i) \in Nat /\ Rank(c, n, i) \in 0 .. n - 1
    OBVIOUS
  <2>1. i \in Free(c) /\ i \in Cells /\ i \notin Used(c) /\ Rank(c, n, i) < n
    BY DEF Slot, Free
  <2>2. Rank(c, n, i) \in Nat
    BY <2>1, RankFacts
  <2>3. QED
    BY <2>1, <2>2
<1>4. ASSUME NEW i \in Slot(c, n)
      PROVE  /\ NewCell(first, Rank(c, n, i)) \in Cell
             /\ NewCell(first, Rank(c, n, i)).pos = first + Rank(c, n, i)
             /\ NewCell(first, Rank(c, n, i)).pos # -1
             /\ NewCell(first, Rank(c, n, i)).rot = first + Rank(c, n, i)
             /\ NewCell(first, Rank(c, n, i)).shift = 0
  <2> DEFINE m == Rank(c, n, i)
  <2>1. m \in Nat
    BY <1>3
  <2> HIDE DEF m
  <2>2. first + m \in Nat /\ decoded + m \in Nat
    BY <2>1
  <2>3. /\ NewCell(first, m) \in Cell /\ NewCell(first, m).pos = first + m
        /\ NewCell(first, m).pos # -1 /\ NewCell(first, m).rot = first + m
        /\ NewCell(first, m).shift = 0
    BY <2>2 DEF NewCell, Cell
  <2>4. QED
    BY <2>3 DEF m
<1>5. \A i \in Cells : r.cells[i] = IF i \in Slot(c, n) THEN NewCell(first, Rank(c, n, i)) ELSE c.cells[i]
  BY <1>1
<1>6. r.cells \in [Cells -> Cell]
  BY <1>1, <1>4, CacheFields
<1>7. r.head \in 0 .. NCells /\ r.head = 1 + last /\ last \in Nat
  BY <1>1, <1>2, <1>3 DEF Cells
<1>8. r \in CacheType
  BY <1>1, <1>6, <1>7, CacheFields DEF CacheType
<1>9. Used(r) = Used(c) \cup Slot(c, n)
  BY <1>3, <1>4, <1>5 DEF Used
<1>10. \A i \in Used(c) : i \in Cells /\ r.cells[i] = c.cells[i]
  BY <1>3, <1>5 DEF Used
<1>11. Keyed(r)
  <2> SUFFICES ASSUME NEW i \in Used(r)
               PROVE  /\ r.cells[i].rot + r.cells[i].shift = r.cells[i].pos
                      /\ r.cells[i].shift # 0 => r.hasShift
    BY DEF Keyed
  <2>1. CASE i \in Used(c)
    BY <1>1, <1>10, <2>1 DEF Keyed
  <2>2. CASE i \in Slot(c, n)
    <3>1. r.cells[i] = NewCell(first, Rank(c, n, i)) /\ first + Rank(c, n, i) \in Nat
      BY <1>3, <1>5, <2>2
    <3>2. QED
      BY <1>4, <2>2, <3>1
  <2>3. QED
    BY <1>9, <2>1, <2>2
<1>12. FrontFilled(r)
  <2> SUFFICES ASSUME NEW i \in Free(r) PROVE r.head <= i
    BY DEF FrontFilled
  <2>1. i \in Free(c) /\ i \notin Slot(c, n) /\ i \in Nat /\ c.head <= i
    BY <1>9 DEF Free, FrontFilled, Cells
  <2>2. last \in Free(c) /\ last # i /\ last \in Nat /\ c.head <= last
    BY <1>2, <1>3, <2>1 DEF FrontFilled, Cells
  <2>3. ASSUME i < last PROVE FALSE
    <3>1. SearchStart(c, n) \in Nat /\ SearchStart(c, n) <= i /\ SearchStart(c, n) <= last
      BY <2>1, <2>2, CacheFields DEF SearchStart
    <3>2. i \in FreeBefore(c, n, last)
      BY <2>1, <2>2, <2>3, <3>1 DEF FreeBefore
    <3>3. Rank(c, n, i) < Rank(c, n, last)
      BY <2>1, <2>2, <3>2, RankFacts
    <3>4. Rank(c, n, i) \in Nat
      BY <2>1, RankFacts DEF Free
    <3>5. Rank(c, n, i) < n
      BY <1>2, <3>3, <3>4
    <3>6. QED
      BY <2>1, <3>5 DEF Slot
  <2>4. QED
    BY <1>7, <2>1, <2>2, <2>3
<1>13. QED
  BY <1>3, <1>5, <1>8, <1>9, <1>10, <1>11, <1>12 DEF r

\* A batch that continues the window extends it ...
LEMMA PlacedSound ==
    ASSUME NEW c, NEW k, Sound(c, k), NEW n \in Nat, n >= 1, Fits(c, n),
           NEW first \in Nat, decoded \in Nat, \A p \in DOMAIN k : p < first
    PROVE  Sound(Placed(c, first, n), Extend(k, first, n))
<1> DEFINE r == Placed(c, first, n)
           kk == Extend(k, first, n)
           m(i) == Rank(c, n, i)
<1>1. c \in CacheType /\ Keyed(c) /\ FrontFilled(c) /\ Holds(c, k)
  BY DEF Sound
<1>2. /\ r \in CacheType /\ Keyed(r) /\ FrontFilled(r)
      /\ Used(r) = Used(c) \cup Slot(c, n)
      /\ \A i \in Slot(c, n) :
           i \notin Used(c) /\ m(i) \in 0 .. n - 1 /\ r.cells[i] = NewCell(first, m(i))
      /\ \A i \in Used(c) : r.cells[i] = c.cells[i]
  BY <1>1, PlacedFacts
<1>3. /\ DOMAIN kk = DOMAIN k \cup (first .. first + n - 1)
      /\ \A p \in DOMAIN kk : kk[p] = IF p >= first THEN decoded + (p - first) ELSE k[p]
  BY DEF Extend
<1> HIDE DEF r, kk
<1>4. ASSUME NEW i \in Slot(c, n)
      PROVE  /\ m(i) \in 0 .. n - 1
             /\ r.cells[i].pos = first + m(i) /\ r.cells[i].token = decoded + m(i)
  <2>1. r.cells[i] = NewCell(first, m(i)) /\ m(i) \in 0 .. n - 1
    BY <1>2
  <2>2. \A x : NewCell(first, x).pos = first + x /\ NewCell(first, x).token = decoded + x
    BY DEF NewCell
  <2>3. QED
    BY <2>1, <2>2
<1>5. ASSUME NEW i \in Used(c)
      PROVE  /\ r.cells[i].pos \in Nat /\ r.cells[i].pos \in DOMAIN k /\ r.cells[i].pos < first
             /\ r.cells[i].token = k[r.cells[i].pos]
  <2>1. r.cells[i] = c.cells[i] /\ c.cells[i].pos \in Nat
    BY <1>1, <1>2, CacheFields
  <2>2. c.cells[i].pos \in DOMAIN k /\ c.cells[i].token = k[c.cells[i].pos]
    BY <1>1 DEF Holds
  <2>3. QED
    BY <2>1, <2>2
<1>6. ASSUME NEW i \in Used(r)
      PROVE  r.cells[i].pos \in DOMAIN kk /\ r.cells[i].token = kk[r.cells[i].pos]
  <2>1. CASE i \in Used(c)
    BY <1>3, <1>5, <2>1
  <2>2. CASE i \in Slot(c, n)
    <3>1. /\ first + m(i) \in first .. first + n - 1 /\ first + m(i) >= first
          /\ decoded + ((first + m(i)) - first) = decoded + m(i)
      BY <1>4, <2>2
    <3>2. QED
      BY <1>3, <1>4, <2>2, <3>1
  <2>3. QED
    BY <1>2, <2>1, <2>2
<1>7. ASSUME NEW p \in DOMAIN kk PROVE \E i \in Used(r) : r.cells[i].pos = p
  <2>1. CASE p \in DOMAIN k
    <3>1. PICK i \in Used(c) : c.cells[i].pos = p
      BY <1>1, <2>1 DEF Holds
    <3>2. QED
      BY <1>2, <3>1
  <2>2. CASE p \in first .. first + n - 1
    <3>1. p - first \in 0 .. n - 1 /\ first + (p - first) = p
      BY <2>2
    <3>2. PICK i \in Slot(c, n) : m(i) = p - first
      BY <1>1, <3>1, SlotFacts
    <3>3. QED
      BY <1>2, <1>4, <3>1, <3>2
  <2>3. QED
    BY <1>3, <2>1, <2>2
<1>8. ASSUME NEW i \in Used(r), NEW j \in Used(r), r.cells[i].pos = r.cells[j].pos PROVE i = j
  <2>1. CASE i \in Used(c) /\ j \in Used(c)
    BY <1>1, <1>2, <1>8, <2>1 DEF Holds
  <2>2. CASE i \in Slot(c, n) /\ j \in Slot(c, n)
    <3>1. m(i) = m(j)
      BY <1>4, <1>8, <2>2
    <3>2. QED
      BY <1>1, <2>2, <3>1, RankFacts DEF Slot
  <2>3. ASSUME NEW x \in Used(c), NEW y \in Slot(c, n) PROVE r.cells[x].pos # r.cells[y].pos
    BY <1>4, <1>5
  <2>4. QED
    BY <1>2, <1>8, <2>1, <2>2, <2>3
<1>9. {r.cells[i].pos : i \in Used(r)} = DOMAIN kk
  BY <1>6, <1>7
<1>10. Holds(r, kk)
  BY <1>6, <1>8, <1>9 DEF Holds
<1>11. QED
  BY <1>2, <1>10 DEF Sound, r, kk

\* ... and when it is removed again the window is what it was.
LEMMA RemovedSound ==
    ASSUME NEW c, NEW k, Sound(c, k), NEW n \in Nat, n >= 1, Fits(c, n),
           NEW first \in Nat, decoded \in Nat, \A i \in Used(c) : c.cells[i].pos < first
    PROVE  Sound(SeqRm(Placed(c, first, n), first, -1), k)
<1> DEFINE b == Placed(c, first, n)
           r == SeqRm(b, first, -1)
<1>1. c \in CacheType /\ Keyed(c) /\ FrontFilled(c) /\ Holds(c, k)
  BY DEF Sound
<1>2. /\ b \in CacheType /\ Keyed(b) /\ FrontFilled(b)
      /\ Used(b) = Used(c) \cup Slot(c, n)
      /\ \A i \in Slot(c, n) :
           /\ i \notin Used(c) /\ Rank(c, n, i) \in 0 .. n - 1
           /\ b.cells[i] = NewCell(first, Rank(c, n, i))
      /\ \A i \in Used(c) : b.cells[i] = c.cells[i]
  BY <1>1, PlacedFacts
<1> HIDE DEF b
<1>3. /\ r \in CacheType /\ Keyed(r) /\ FrontFilled(r)
      /\ Used(r) = Used(b) \ PosIn(b, first, -1)
      /\ \A i \in Used(r) : r.cells[i] = b.cells[i]
  BY <1>2, SeqRmFacts
<1> HIDE DEF r
<1>4. \A i \in Slot(c, n) : b.cells[i].pos = first + Rank(c, n, i) /\ first <= b.cells[i].pos
  <2>1. \A x : NewCell(first, x).pos = first + x
    BY DEF NewCell
  <2>2. QED
    BY <1>2, <2>1
<1>5. \A i \in Used(c) : ~ (first <= b.cells[i].pos)
  BY <1>1, <1>2, CacheFields
<1>6. Used(r) = Used(c)
  <2>1. PosIn(b, first, -1) = {i \in Used(b) : first <= b.cells[i].pos}
    BY DEF PosIn
  <2>2. PosIn(b, first, -1) = Slot(c, n)
    BY <1>2, <1>4, <1>5, <2>1
  <2>3. QED
    BY <1>2, <1>3, <2>2
<1>7. \A i \in Used(c) : r.cells[i] = c.cells[i]
  BY <1>2, <1>3, <1>6
<1>8. Holds(r, k)
  <2>1. {r.cells[i].pos : i \in Used(r)} = {c.cells[i].pos : i \in Used(c)}
    BY <1>6, <1>7
  <2>2. QED
    BY <1>1, <1>6, <1>7, <2>1 DEF Holds
<1>9. QED
  BY <1>3, <1>8 DEF Sound, r, b

------------------------------------------------------------------------------
(***************************************************************************)
(* A call of llama_decode, successful or not, on a sound cache.            *)
(***************************************************************************)
LEMMA DecodeSound ==
    ASSUME NEW c, NEW k, Sound(c, k), NEW n \in Nat, n >= 1, NEW first \in Nat,
           decoded \in Nat, Consecutive(k, first), Decode(c, first, n)
    PROVE  Sound(cache', Extend(k, first, n))
<1>1. PICK u \in Updates(c) : Fits(u, n) /\ cache' = Placed(u, first, n)
  BY DEF Decode
<1>2. Sound(u, k)
  BY UpdatesSound
<1>3. \A p \in DOMAIN k : p < first
  BY DEF Consecutive
<1>4. QED
  BY <1>1, <1>2, <1>3, PlacedSound

LEMMA FailDecodeSound ==
    ASSUME NEW c, NEW k, Sound(c, k), NEW n \in Nat, n >= 1, NEW first \in Nat,
           decoded \in Nat, FailDecode(c, first, n)
    PROVE  Sound(cache', k)
<1>1. CASE ~ Continues(c, first)
  BY <1>1 DEF FailDecode
<1>2. CASE Continues(c, first)
  <2>1. PICK u \in Updates(c) :
            cache' \in IF Fits(u, n) THEN {u, SeqRm(Placed(u, first, n), first, -1)} ELSE {u}
    BY <1>2 DEF FailDecode
  <2>2. Sound(u, k)
    BY UpdatesSound
  <2>3. CASE cache' = u
    BY <2>2, <2>3
  <2>4. CASE Fits(u, n) /\ cache' = SeqRm(Placed(u, first, n), first, -1)
    <3>1. \A i \in Used(u) : u.cells[i].pos < first
      <4>1. \A i \in Used(c) : c.cells[i].pos < first
        BY <1>2 DEF Continues
      <4>2. {u.cells[i].pos : i \in Used(u)} = {c.cells[i].pos : i \in Used(c)}
        BY <2>2 DEF Sound, Holds
      <4>3. QED
        BY <4>1, <4>2
    <3>2. QED
      BY <2>2, <2>4, <3>1, RemovedSound
  <2>5. QED
    BY <2>1, <2>3, <2>4
<1>3. QED
  BY <1>1, <1>2

\* What the completion loop hands to llama_decode is sound.
LEMMA ShiftedSound ==
    ASSUME TypeOK, Sound(cache, kv)
    PROVE  Sound(BatchCache, BatchKV) /\ Sound(TokenCache, NextKV)
<1>1. sysPos \in Nat /\ curPos \in Nat /\ sysPos <= curPos
  BY DEF TypeOK
<1>2. Sound(ShiftCells(cache, sysPos, curPos), ShiftKV(kv, sysPos, curPos))
  BY <1>1, ShiftCellsSound
<1>3. QED
  BY <1>2 DEF BatchCache, BatchKV, TokenCache, NextKV

LEMMA StepSound ==
    ASSUME IInv, Sound(cache, kv), CacheNext
    PROVE  Sound(cache', kv')
<1>1. TypeOK /\ decoded \in Nat
  BY DEF IInv, TypeOK
<1>2. Sound(BatchCache, BatchKV) /\ Sound(TokenCache, NextKV)
  BY <1>1, ShiftedSound
<1>3. CASE Clear
  <2>1. kv' = EmptyKV /\ cache' = NewCache
    BY <1>3 DEF Clear, Prepare, Unload, BeginSystemPrompt, ResetStates
  <2>2. QED
    BY <2>1, NewCacheSound
<1>4. CASE DecodePrompt
  <2>1. /\ phase \in {"system", "user"} /\ BatchDecoded
        /\ Decode(BatchCache, BatchStart, BatchLen)
    BY <1>4 DEF DecodePrompt, DecodeBatch, FinishSystemPrompt, FinishUserPrompt
  <2>2. BatchLen \in Nat /\ BatchLen >= 1 /\ BatchStart \in Nat
    BY <1>1, <2>1, BatchFacts
  <2>3. Consecutive(BatchKV, BatchStart) /\ kv' = Extend(BatchKV, BatchStart, BatchLen)
    BY <2>1 DEF BatchDecoded, Accepts
  <2>4. QED
    BY <1>1, <1>2, <2>1, <2>2, <2>3, DecodeSound
<1>5. CASE FailPrompt
  <2>1. /\ phase \in {"system", "user"} /\ kv' = BatchKV
        /\ FailDecode(BatchCache, BatchStart, BatchLen)
    BY <1>5 DEF FailPrompt, PromptFails
  <2>2. BatchLen \in Nat /\ BatchLen >= 1 /\ BatchStart \in Nat
    BY <1>1, <2>1, BatchFacts
  <2>3. QED
    BY <1>1, <1>2, <2>1, <2>2, FailDecodeSound
<1>6. CASE DecodeToken
  <2>1. TokenDecoded /\ Decode(TokenCache, NextPos, 1) /\ NextPos \in Nat
    BY <1>1, <1>6, NextFacts DEF DecodeToken, GenerateToken, EndOfGeneration
  <2>2. Consecutive(NextKV, NextPos) /\ kv' = Extend(NextKV, NextPos, 1)
    BY <2>1 DEF TokenDecoded, Accepts
  <2>3. QED
    BY <1>1, <1>2, <2>1, <2>2, DecodeSound
<1>7. CASE FailToken
  <2>1. kv' = NextKV /\ FailDecode(TokenCache, NextPos, 1) /\ NextPos \in Nat
    BY <1>1, <1>7, NextFacts DEF FailToken, TokenFails
  <2>2. QED
    BY <1>1, <1>2, <2>1, FailDecodeSound
<1>8. CASE Stop
  BY <1>2, <1>8 DEF Stop, StopAtLimit
<1>9. CASE Aside
  <2>1. kv' = kv /\ cache' = cache
    BY <1>9 DEF Aside, BeginUserPrompt, CancelGeneration, Bench, ResetError
  <2>2. QED
    BY <2>1
<1>10. QED
  BY <1>3, <1>4, <1>5, <1>6, <1>7, <1>8, <1>9 DEF CacheNext

(***************************************************************************)
(* The cells decide like the window: a slot is found exactly if there is   *)
(* room.                                                                   *)
(***************************************************************************)
LEMMA SoundSlots == Sound(cache, kv) => SlotIsFound
<1> SUFFICES ASSUME Sound(cache, kv), NEW n \in 1 .. BatchSize, NEW first \in 0 .. NCells
             PROVE  Accepts(kv, first, n) <=> Continues(cache, first) /\ Fits(cache, n)
  BY DEF SlotIsFound
<1> USE SizesAssumption
<1> DEFINE f == [i \in Used(cache) |-> cache.cells[i].pos]
<1>1. cache \in CacheType /\ Holds(cache, kv) /\ n \in Nat
  BY DEF Sound
<1>2. DOMAIN kv = {cache.cells[i].pos : i \in Used(cache)}
  BY <1>1 DEF Holds
<1>3. f \in Bijection(Used(cache), DOMAIN kv)
  <2>1. f \in Injection(Used(cache), DOMAIN kv)
    BY <1>1, <1>2 DEF Holds, Injection, IsInjective
  <2>2. f \in Surjection(Used(cache), DOMAIN kv)
    BY <1>2 DEF Surjection
  <2>3. QED
    BY <2>1, <2>2 DEF Bijection
<1>4. /\ IsFiniteSet(Used(cache)) /\ Cardinality(Used(cache)) \in Nat
      /\ Cardinality(Free(cache)) \in Nat
      /\ Cardinality(Used(cache)) + Cardinality(Free(cache)) = NCells
  BY <1>1, CellsFinite
<1>5. Cardinality(DOMAIN kv) = Cardinality(Used(cache))
  BY <1>3, <1>4, FS_Bijection DEF ExistsBijection
<1>6. HasRoom(kv, n) <=> Fits(cache, n)
  <2>1. Fits(cache, n) <=> n <= Cardinality(Free(cache))
    BY <1>1, SlotFacts
  <2>2. QED
    BY <1>4, <1>5, <2>1 DEF HasRoom
<1>7. Consecutive(kv, first) <=> Continues(cache, first)
  BY <1>2 DEF Consecutive, Continues
<1>8. QED
  BY <1>6, <1>7 DEF Accepts

------------------------------------------------------------------------------
(***************************************************************************)
(* What the application does with the cells is a behaviour of the          *)
(* completion loop of ContextWindow, so all that is proved there holds     *)
(* here.                                                                   *)
(***************************************************************************)
THEOREM CacheImplementsWindow == CacheSpec => Spec
<1>1. CacheInit => Init
  BY DEF CacheInit
<1>2. CacheNext => Next
  BY DEF CacheNext, Next, Clear, DecodePrompt, FailPrompt, DecodeToken, FailToken, Stop, Aside
<1>3. UNCHANGED cacheVars => UNCHANGED vars
  BY DEF cacheVars
<1>4. [CacheNext]_cacheVars => [Next]_vars
  BY <1>2, <1>3
<1>5. QED
  BY <1>1, <1>4, PTL DEF CacheSpec, Spec

LEMMA AlwaysSound == CacheSpec => []Sound(cache, kv)
<1>1. CacheInit => Sound(cache, kv)
  BY NewCacheSound DEF CacheInit, Init
<1>2. IInv /\ Sound(cache, kv) /\ [CacheNext]_cacheVars => Sound(cache, kv)'
  <2> SUFFICES ASSUME IInv, Sound(cache, kv), [CacheNext]_cacheVars PROVE Sound(cache', kv')
    OBVIOUS
  <2>1. CASE CacheNext
    BY <2>1, StepSound
  <2>2. CASE UNCHANGED cacheVars
    <3>1. cache' = cache /\ kv' = kv
      BY <2>2 DEF cacheVars, vars
    <3>2. QED
      BY <3>1
  <2>3. QED
    BY <2>1, <2>2
<1>3. CacheSpec => []IInv
  BY CacheImplementsWindow, AlwaysIInv, PTL
<1>4. QED
  BY <1>1, <1>2, <1>3, PTL DEF CacheSpec

\* The cells, the head and the flag are well typed.
THEOREM CacheTypeCorrect == CacheSpec => []CacheTypeOK
<1>1. Sound(cache, kv) => CacheTypeOK
  BY DEF Sound, CacheTypeOK
<1>2. QED
  BY <1>1, AlwaysSound, PTL

(***************************************************************************)
(* Each position of the window is in exactly one cell, with its token.     *)
(***************************************************************************)
THEOREM CellsAreTheWindow == CacheSpec => []CellsHoldWindow
<1>1. Sound(cache, kv) => CellsHoldWindow
  BY DEF Sound, CellsHoldWindow
<1>2. QED
  BY <1>1, AlwaysSound, PTL

(***************************************************************************)
(* Each key is rotated to its position, or waits for it and is flagged.    *)
(***************************************************************************)
THEOREM KeysAreFollowing == CacheSpec => []KeysFollowPositions
<1>1. Sound(cache, kv) => KeysFollowPositions
  BY DEF Sound, KeysFollowPositions
<1>2. QED
  BY <1>1, AlwaysSound, PTL

\* The search for free cells starts in front of all of them.
THEOREM HeadLeads == CacheSpec => []NothingFreeBehindHead
<1>1. Sound(cache, kv) => NothingFreeBehindHead
  BY DEF Sound, NothingFreeBehindHead
<1>2. QED
  BY <1>1, AlwaysSound, PTL

(***************************************************************************)
(* A batch that continues the conversation is placed exactly if there are  *)
(* as many free cells, wherever they are.                                  *)
(***************************************************************************)
THEOREM SlotsAreFound == CacheSpec => []SlotIsFound
  BY SoundSlots, AlwaysSound, PTL
==============================================================================
