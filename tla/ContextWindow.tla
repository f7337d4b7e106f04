---------------------------- MODULE ContextWindow ----------------------------
(***************************************************************************)
(* One conversation of the native completion loop of ai_chat.cpp: the long *)
(* and short term positions, the chat history and the KV cache behind      *)
(* them.  The Kotlin engine calls the native functions one at a time       *)
(* (its dispatcher is single threaded), so a step is one llama_decode of a *)
(* prompt, or one call of generateNextToken.                               *)
(*                                                                         *)
(* The KV cache is a function from positions to tokens.  A token is named  *)
(* by its rank among the tokens decoded since the cache was last cleared.  *)
(***************************************************************************)
EXTENDS Integers, Sequences, FiniteSets

CONSTANTS
    NCtx,            \* g_context_size
    NCells,          \* cells of the KV cache: NCtx padded by llama.cpp
    BatchSize,       \* BATCH_SIZE
    Headroom,        \* OVERFLOW_HEADROOM
    HasTemplate,     \* does the model come with an explicit chat template?
    SystemSizes,     \* token counts of the system prompts
    UserSizes,       \* token counts of the user prompts
    PredictLengths,  \* values of n_predict
    MaxDecoded       \* bound of the model: tokens decoded between two resets

\* The engine refuses contexts below 512 tokens, the size of one batch.
ASSUME SizesAssumption ==
    /\ NCtx \in Nat /\ NCells \in Nat /\ BatchSize \in Nat /\ Headroom \in Nat
    /\ 0 < BatchSize /\ BatchSize <= NCtx /\ NCtx <= NCells
    /\ 2 <= Headroom /\ Headroom < NCtx
    /\ HasTemplate \in BOOLEAN

\* Prompts are not empty: the engine requires it of its callers.
ASSUME InputsAssumption ==
    /\ SystemSizes \subseteq Nat \ {0}
    /\ UserSizes \subseteq Nat \ {0}
    /\ PredictLengths \subseteq Nat
    /\ MaxDecoded \in Nat

VARIABLES
    phase,     \* what the engine lets happen next
    sysPos,    \* system_prompt_position
    curPos,    \* current_position
    stopPos,   \* stop_generation_position
    kv,        \* the KV cache: position -> token
    decoded,   \* tokens decoded since the cache was last cleared
    chat,      \* the roles of chat_msgs
    call,      \* arguments and progress of the prompt being processed
    reply,     \* history: n_predict, tokens generated and tokens discarded since
    overrun    \* history: how prompts overran the context since the last reset

vars == <<phase, sysPos, curPos, stopPos, kv, decoded, chat, call, reply, overrun>>

Phases == {"unloaded", "fresh", "ready", "system", "user", "generating",
           "stuck", "error"}
Roles  == {"system", "user", "assistant"}

MaxPrompt == NCtx - Headroom           \* max_batch_size
EmptyKV   == [p \in {} |-> 0]
NoCall    == [size |-> 0, len |-> 0, start |-> 0, done |-> 0]
NoReply   == [predict |-> 0, gen |-> 0, dropped |-> 0]

MinOf(a, b) == IF a <= b THEN a ELSE b

(***************************************************************************)
(* The KV cache                                                            *)
(***************************************************************************)
\* The tokens that shift_context throws away.
Discard(s, c) == (c - s) \div 2

\* Positions of the cache after the shift: the d oldest after the system
\* prompt are removed, those up to the current position slide down by d.
ShiftedPositions(k, s, c) ==
    {p \in DOMAIN k : p < s \/ p >= c}
        \cup {p \in s .. (c - Discard(s, c) - 1) : p + Discard(s, c) \in DOMAIN k}

\* Mutant: the oldest tokens go, the system prompt with them.
ShiftKV_FromZero(k, s, c) ==
    [p \in {q \in 0 .. c : q + Discard(s, c) \in DOMAIN k} |-> k[p + Discard(s, c)]]

\* The cache after the shift.
ShiftKV(k, s, c) ==
    [p \in ShiftedPositions(k, s, c) |->
        IF p < s \/ p >= c THEN k[p] ELSE k[p + Discard(s, c)]]

\* llama_decode refuses a batch that does not continue the sequence ...
Consecutive(k, first) ==
    DOMAIN k = {} \/ (first - 1 \in DOMAIN k /\ \A p \in DOMAIN k : p < first)

\* ... and one for which the cache has no free cells.
HasRoom(k, n) == Cardinality(DOMAIN k) + n <= NCells

Accepts(k, first, n) == Consecutive(k, first) /\ HasRoom(k, n)

\* The cache once n tokens are decoded from position first on.
Extend(k, first, n) ==
    [p \in DOMAIN k \cup (first .. first + n - 1) |->
        IF p >= first THEN decoded + (p - first) ELSE k[p]]

------------------------------------------------------------------------------
Init ==
    /\ phase = "unloaded"
    /\ sysPos = 0 /\ curPos = 0 /\ stopPos = 0
    /\ kv = EmptyKV /\ decoded = 0
    /\ chat = <<>>
    /\ call = NoCall
    /\ reply = NoReply
    /\ overrun = {}

\* load and prepare: a new context with an empty cache.  The long term states
\* are left as they are.
Prepare ==
    /\ phase = "unloaded"
    /\ phase' = "fresh"
    /\ kv' = EmptyKV /\ decoded' = 0
    /\ UNCHANGED <<sysPos, curPos, stopPos, chat, call, reply, overrun>>

\* reset_long_term_states and reset_short_term_states.
ResetStates ==
    /\ sysPos' = 0 /\ curPos' = 0 /\ stopPos' = 0
    /\ kv' = EmptyKV /\ decoded' = 0
    /\ reply' = NoReply /\ overrun' = {}

\* processSystemPrompt up to the decoding of its n tokens.
BeginSystemPrompt(n) ==
    /\ phase = "fresh"
    /\ n <= MaxDecoded
    /\ ResetStates
    /\ chat' = IF HasTemplate THEN <<"system">> ELSE <<>>
    /\ IF n > MaxPrompt
       THEN phase' = "error" /\ call' = NoCall
       ELSE /\ phase' = "system"
            /\ call' = [size |-> n, len |-> n, start |-> 0, done |-> 0]

\* processUserPrompt up to the decoding of its n tokens, cut to MaxPrompt.
BeginUserPrompt(n, predict) ==
    /\ phase \in {"fresh", "ready"}
    /\ decoded + n <= MaxDecoded
    /\ phase' = "user"
    /\ stopPos' = 0
    /\ chat' = IF HasTemplate THEN Append(chat, "user") ELSE chat
    /\ call' = [size |-> n, len |-> MinOf(n, MaxPrompt), start |-> curPos, done |-> 0]
    /\ reply' = [predict |-> predict, gen |-> 0, dropped |-> 0]
    /\ UNCHANGED <<sysPos, curPos, kv, decoded, overrun>>

(***************************************************************************)
(* One turn of the loop of decode_tokens_in_batches.  The positions of the *)
(* batch come from the start position the caller passed, whatever the      *)
(* shift just did to the current position.                                 *)
(***************************************************************************)
BatchStart == call.start + call.done
BatchLen   == MinOf(call.len - call.done, BatchSize)
LastBatch  == call.done + BatchLen = call.len
BatchShifts == BatchStart + BatchLen >= NCtx - Headroom
BatchKV  == IF BatchShifts THEN ShiftKV(kv, sysPos, curPos) ELSE kv
BatchPos == IF BatchShifts THEN curPos - Discard(sysPos, curPos) ELSE curPos

\* History was discarded to make room for the batch.
Discarded == IF BatchPos < curPos THEN {"discard"} ELSE {}

\* llama_decode takes the batch.
BatchDecoded ==
    /\ Accepts(BatchKV, BatchStart, BatchLen)
    /\ kv' = Extend(BatchKV, BatchStart, BatchLen)
    /\ decoded' = decoded + BatchLen

DecodeBatch ==
    /\ phase \in {"system", "user"}
    /\ ~LastBatch
    /\ BatchDecoded
    /\ curPos' = BatchPos
    /\ call' = [call EXCEPT !.done = @ + BatchLen]
    /\ overrun' = overrun \cup Discarded
    /\ UNCHANGED <<phase, sysPos, stopPos, chat, reply>>

FinishSystemPrompt ==
    /\ phase = "system"
    /\ LastBatch
    /\ BatchDecoded
    /\ phase' = "ready"
    /\ sysPos' = call.size /\ curPos' = call.size
    /\ call' = NoCall
    /\ UNCHANGED <<stopPos, chat, reply, overrun>>

\* The position advances by the size of the prompt before it was cut.
FinishUserPrompt ==
    /\ phase = "user"
    /\ LastBatch
    /\ BatchDecoded
    /\ phase' = "generating"
    /\ curPos' = BatchPos + call.size
    /\ stopPos' = BatchPos + call.size + reply.predict
    /\ call' = NoCall
    /\ overrun' = overrun \cup Discarded \cup (IF call.len < call.size THEN {"cut"} ELSE {})
    /\ UNCHANGED <<sysPos, chat, reply>>

\* llama_decode refuses the batch or fails to compute it.  A failed system
\* prompt is an Error of the engine, a failed user prompt leaves the engine
\* in ProcessingUserPrompt for good.
PromptFails ==
    /\ phase \in {"system", "user"}
    /\ phase' = IF phase = "system" THEN "error" ELSE "stuck"
    /\ kv' = BatchKV /\ curPos' = BatchPos
    /\ call' = NoCall
    /\ UNCHANGED <<sysPos, stopPos, decoded, chat, reply, overrun>>

(***************************************************************************)
(* generateNextToken: shift when the context is full, then stop, or sample *)
(* and decode one token.                                                   *)
(***************************************************************************)
\* Mutant: the shift waits until the last cell is taken.
ContextFull_NoHeadroom == curPos > NCells
ContextFull == curPos >= NCtx - Headroom
NextKV  == IF ContextFull THEN ShiftKV(kv, sysPos, curPos) ELSE kv
\* Mutant: the shift forgets to move the current position.
NextPos_Unmoved == curPos
NextPos == IF ContextFull THEN curPos - Discard(sysPos, curPos) ELSE curPos

Dropped == [reply EXCEPT !.dropped = @ + (curPos - NextPos)]

StopAtLimit ==
    /\ phase = "generating"
    /\ NextPos >= stopPos
    /\ phase' = "ready"
    /\ kv' = NextKV /\ curPos' = NextPos /\ reply' = Dropped
    /\ UNCHANGED <<sysPos, stopPos, decoded, chat, call, overrun>>

\* Mutant: the check of the stop position is off by one.
TokenDecoded_OffByOne ==
    /\ phase = "generating"
    /\ NextPos <= stopPos
    /\ Accepts(NextKV, NextPos, 1)
    /\ decoded < MaxDecoded
    /\ kv' = Extend(NextKV, NextPos, 1)
    /\ decoded' = decoded + 1
    /\ curPos' = NextPos + 1

TokenDecoded ==
    /\ phase = "generating"
    /\ NextPos < stopPos
    /\ Accepts(NextKV, NextPos, 1)
    /\ decoded < MaxDecoded
    /\ kv' = Extend(NextKV, NextPos, 1)
    /\ decoded' = decoded + 1
    /\ curPos' = NextPos + 1

GenerateToken ==
    /\ TokenDecoded
    /\ reply' = [Dropped EXCEPT !.gen = @ + 1]
    /\ UNCHANGED <<phase, sysPos, stopPos, chat, call, overrun>>

\* Mutant: the end of generation is not reported to the engine's loop.
EndOfGeneration_GoesOn ==
    /\ TokenDecoded
    /\ chat' = Append(chat, "assistant")
    /\ reply' = Dropped
    /\ UNCHANGED <<phase, sysPos, stopPos, call, overrun>>

\* The sampled token ends the generation: the reply joins the chat history.
EndOfGeneration ==
    /\ TokenDecoded
    /\ phase' = "ready"
    /\ chat' = Append(chat, "assistant")
    /\ reply' = Dropped
    /\ UNCHANGED <<sysPos, stopPos, call, overrun>>

\* llama_decode refuses the token or fails to compute it: the reply ends.
TokenFails ==
    /\ phase = "generating"
    /\ NextPos < stopPos
    /\ phase' = "ready"
    /\ kv' = NextKV /\ curPos' = NextPos /\ reply' = Dropped
    /\ UNCHANGED <<sysPos, stopPos, decoded, chat, call, overrun>>

\* The engine's loop sees the cancel flag, or its collector was cancelled.
CancelGeneration ==
    /\ phase = "generating"
    /\ phase' = "ready"
    /\ UNCHANGED <<sysPos, curPos, stopPos, kv, decoded, chat, call, reply, overrun>>

\* The benchmark runs in a context of its own; a system prompt comes too late.
Bench ==
    /\ phase \in {"fresh", "ready"}
    /\ phase' = "ready"
    /\ UNCHANGED <<sysPos, curPos, stopPos, kv, decoded, chat, call, reply, overrun>>

\* Mutant: the long term states are not reset.
Unload_KeepsPositions ==
    /\ phase \in {"fresh", "ready"}
    /\ phase' = "unloaded"
    /\ UNCHANGED <<sysPos, curPos, stopPos, kv, decoded, chat, call, reply, overrun>>

\* cleanUp of a loaded model.
Unload ==
    /\ phase \in {"fresh", "ready"}
    /\ phase' = "unloaded"
    /\ ResetStates
    /\ chat' = <<>>
    /\ UNCHANGED call

\* cleanUp of an Error: only the state of the engine is reset.
ResetError ==
    /\ phase = "error"
    /\ phase' = "unloaded"
    /\ UNCHANGED <<sysPos, curPos, stopPos, kv, decoded, chat, call, reply, overrun>>

Next ==
    \/ Prepare
    \/ \E n \in SystemSizes : BeginSystemPrompt(n)
    \/ \E n \in UserSizes, p \in PredictLengths : BeginUserPrompt(n, p)
    \/ DecodeBatch
    \/ FinishSystemPrompt
    \/ FinishUserPrompt
    \/ PromptFails
    \/ StopAtLimit
    \/ GenerateToken
    \/ EndOfGeneration
    \/ TokenFails
    \/ CancelGeneration
    \/ Bench
    \/ Unload
    \/ ResetError

Spec == Init /\ [][Next]_vars

------------------------------------------------------------------------------
CallType  == [size : Nat, len : Nat, start : Nat, done : Nat]
ReplyType == [predict : Nat, gen : Nat, dropped : Nat]

\* Types, and the progress of a prompt that is being decoded.
TypeOK ==
    /\ phase \in Phases
    /\ sysPos \in Nat /\ curPos \in Nat /\ stopPos \in Nat /\ decoded \in Nat
    /\ DOMAIN kv \subseteq Nat
    /\ kv = [p \in DOMAIN kv |-> kv[p]]
    /\ chat \in Seq(Roles)
    /\ call \in CallType /\ reply \in ReplyType
    /\ overrun \subseteq {"cut", "discard"}
    /\ sysPos <= curPos
    /\ phase \in {"system", "user"} =>
           call.done < call.len /\ call.len <= call.size /\ call.len <= MaxPrompt

\* Phases in which no native call is running and a context is loaded.
AtRest == phase \in {"fresh", "ready", "generating"}

(***************************************************************************)
(* The system prompt survives: whatever was shifted, truncated or refused, *)
(* the first sysPos positions of the cache still hold the first sysPos     *)
(* tokens decoded (shift_context discards after the system prompt).        *)
(***************************************************************************)
SystemPromptKept ==
    phase \in {"fresh", "ready", "user", "generating", "stuck"} =>
        \A p \in 0 .. sysPos - 1 : p \in DOMAIN kv /\ kv[p] = p

(***************************************************************************)
(* current_position tracks the cache: as long as no prompt overran the     *)
(* context, the cache holds exactly the positions below curPos, and those  *)
(* after the system prompt are the most recent tokens in decoding order    *)
(* (shift_context forgets the oldest, without a gap).                      *)
(***************************************************************************)
RecentHistory ==
    AtRest /\ overrun = {} =>
        /\ DOMAIN kv = 0 .. curPos - 1
        /\ \A p \in sysPos .. curPos - 1 : kv[p] = decoded - curPos + p

(***************************************************************************)
(* Infinite text generation via context shifting: unless a prompt overran  *)
(* the context, the cache always takes the next token, however long the    *)
(* reply.                                                                  *)
(***************************************************************************)
GenerationFits ==
    phase = "generating" /\ overrun = {} => Accepts(NextKV, NextPos, 1)

(***************************************************************************)
(* The stop position bounds the reply: it is never longer than n_predict   *)
(* plus the tokens that context shifting discarded meanwhile.              *)
(***************************************************************************)
ReplyBudget == reply.gen <= reply.predict + reply.dropped

(***************************************************************************)
(* A model that was just loaded starts at position zero of its empty       *)
(* cache, also after an Error that was reset without unloading (prepare    *)
(* does not touch the positions).                                          *)
(***************************************************************************)
FreshContext == phase = "fresh" => curPos = 0 /\ sysPos = 0

(***************************************************************************)
(* chat_msgs reads as a conversation: a system message comes first, and an *)
(* assistant message answers the user message right before it.             *)
(***************************************************************************)
ChatWellFormed ==
    \A i \in DOMAIN chat :
        /\ chat[i] = "system" => i = 1
        /\ chat[i] = "assistant" /\ HasTemplate => i > 1 /\ chat[i - 1] = "user"

(***************************************************************************)
(* What the repository says of this code and the code does not do.         *)
(***************************************************************************)
\* The shift makes a batch fit that would not fit otherwise: when that leaves
\* enough free cells, the batch is taken.
ShiftMakesRoom ==
    phase = "user" /\ overrun = {} /\ BatchShifts /\ HasRoom(BatchKV, BatchLen)
        => Consecutive(BatchKV, BatchStart)
==============================================================================
