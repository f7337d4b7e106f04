------------------------------ MODULE ReplyText -------------------------------
(***************************************************************************)
(* How the bytes of the generated tokens become the text of a reply        *)
(* (ai_chat.cpp, generateNextToken and is_valid_utf8).                     *)
(*                                                                         *)
(* A token is a piece of a few bytes that need not end where a character   *)
(* ends: what is not valid yet is kept in cached_token_chars.  A byte is   *)
(* known by its role in UTF-8 only.                                        *)
(***************************************************************************)
EXTENDS Integers, Sequences, SequencesExt, FiniteSetsExt

CONSTANTS
    Pieces,       \* what common_token_to_piece may return
    MaxBytes      \* bound of the model: bytes of a reply

\* The end of a C string, one byte, a continuation, the first byte of two,
\* three or four, and a byte that starts nothing.
Bytes == {"nul", "ascii", "cont", "lead2", "lead3", "lead4", "bad"}

ASSUME PiecesAssumption == Pieces \subseteq Seq(Bytes) /\ MaxBytes \in Nat

VARIABLES
    generating,  \* the engine asks for tokens
    cached,      \* cached_token_chars
    assistant,   \* assistant_ss
    shown,       \* the text emitted to the screen
    received     \* history: the bytes of the tokens since the prompt

vars == <<generating, cached, assistant, shown, received>>

Init ==
    /\ generating = FALSE
    /\ cached = <<>> /\ assistant = <<>>
    /\ shown = <<>> /\ received = <<>>

\* Mutant: characters of four bytes are forgotten.
Width_NoFour(b) == CASE b = "ascii" -> 1
                     [] b = "lead2" -> 2
                     [] b = "lead3" -> 3
                     [] OTHER       -> 0

\* Bytes of the character that starts with b; none for a byte that cannot
\* start one.
Width(b) == CASE b = "ascii" -> 1
              [] b = "lead2" -> 2
              [] b = "lead3" -> 3
              [] b = "lead4" -> 4
              [] OTHER       -> 0

\* Mutant: a character may lack its last byte at the end.
IsValidUtf8_ShortTail(s) ==
    LET valid[i \in 1 .. Len(s) + 1] ==
            \/ i > Len(s)
            \/ s[i] = "nul"
            \/ LET n == Width(s[i]) IN
               /\ n > 0
               /\ \A j \in i + 1 .. Min({i + n - 1, Len(s)}) : s[j] = "cont"
               /\ valid[Min({i + n, Len(s) + 1})]
    IN valid[1]

\* is_valid_utf8, which reads up to the first zero byte.
IsValidUtf8(s) ==
    LET valid[i \in 1 .. Len(s) + 1] ==
            \/ i > Len(s)
            \/ s[i] = "nul"
            \/ LET n == Width(s[i]) IN
               /\ n > 0 /\ i + n <= Len(s) + 1
               /\ \A j \in i + 1 .. i + n - 1 : s[j] = "cont"
               /\ valid[i + n]
    IN valid[1]

\* What NewStringUTF makes of a std::string given by c_str.
CString(s) ==
    LET nul == SelectInSeq(s, LAMBDA b : b = "nul")
    IN IF nul = 0 THEN s ELSE SubSeq(s, 1, nul - 1)

\* Mutant: what is left of the last reply goes before the new one.
ProcessUserPrompt_KeepsCache ==
    /\ ~generating
    /\ generating' = TRUE
    /\ assistant' = <<>>
    /\ shown' = <<>> /\ received' = <<>>
    /\ UNCHANGED cached

\* reset_short_term_states, and a prompt that is decoded.
ProcessUserPrompt ==
    /\ ~generating
    /\ generating' = TRUE
    /\ cached' = <<>> /\ assistant' = <<>>
    /\ shown' = <<>> /\ received' = <<>>

\* generateNextToken for a token that goes on.
Generate(piece) ==
    /\ generating
    /\ Len(received) + Len(piece) <= MaxBytes
    /\ received' = received \o piece
    /\ IF IsValidUtf8(cached \o piece)
       THEN /\ shown' = shown \o CString(cached \o piece)
            /\ assistant' = assistant \o cached \o piece
            /\ cached' = <<>>
       ELSE /\ cached' = cached \o piece
            /\ UNCHANGED <<shown, assistant>>
    /\ UNCHANGED generating

\* The last token, the limit, a failed decode, a cancellation: whatever is
\* cached stays where it is.
Stop ==
    /\ generating
    /\ generating' = FALSE
    /\ UNCHANGED <<cached, assistant, shown, received>>

Next ==
    \/ ProcessUserPrompt \/ Stop
    \/ \E piece \in Pieces : Generate(piece)

Spec == Init /\ [][Next]_vars

------------------------------------------------------------------------------
(***************************************************************************)
(* Well-formed text, independently of the code: every byte belongs to a    *)
(* whole character.  No two characters overlap, since only the first byte  *)
(* of one is not a continuation.                                           *)
(***************************************************************************)
Characters == { <<"ascii">>, <<"lead2", "cont">>, <<"lead3", "cont", "cont">>,
                <<"lead4", "cont", "cont", "cont">> }

\* Character c of s starts at byte i.
StartsAt(s, i, c) ==
    i + Len(c) <= Len(s) + 1 /\ \A k \in DOMAIN c : s[i + k - 1] = c[k]

IsText(s) ==
    \A b \in DOMAIN s : \E i \in 1 .. b, c \in Characters :
        StartsAt(s, i, c) /\ b < i + Len(c)

HasNul(s) == "nul" \in ToSet(s)

\* Only whole characters reach the screen (and NewStringUTF), however the
\* tokens cut the text and whatever the model generates.
OnlyWholeCharacters == IsText(shown)

\* Nothing of a well-formed text is held back, lost or doubled: as soon as
\* the tokens so far are a text, all of it is on the screen.
TextIsShown == IsText(received) => shown = received

\* Each byte is in the reply or still waits behind it, in order, and none is
\* of an earlier reply; what the chat history will say the assistant said is
\* what was shown, unless a zero byte cut the Java string short.  With
\* OnlyWholeCharacters: a byte that begins no character is never dropped, and
\* the reply shows nothing from there on.
SaidIsShown ==
    /\ assistant \o cached = received
    /\ ~HasNul(received) => assistant = shown

==============================================================================
