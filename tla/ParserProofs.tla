----------------------------- MODULE ParserProofs ------------------------------
(***************************************************************************)
(* The two parsers of bytes.  What is_valid_utf8 accepts, for strings of   *)
(* any length, and with it the invariants of ReplyText, for any pieces;    *)
(* and what GgufMetadataReaderImpl makes of a file, of any size and with   *)
(* arrays nested as deep as they like, against the format in GgufReader.   *)
(* Both argue from the end of the bytes backwards.                         *)
(***************************************************************************)
EXTENDS ReplyText, GgufReader, SequenceTheorems, WellFoundedInduction, TLAPS

------------------------------------------------------------------------------
(* The passes over a string.                                               *)

\* A set of numbers that is not empty has a least one.
LEMMA LeastOf ==
    ASSUME NEW T \in SUBSET Nat, T # {}
    PROVE  \E n \in T : \A m \in T : n <= m
<1> DEFINE R == {ss \in Nat \X Nat : ss[1] < ss[2]}
<1>1. IsWellFoundedOn(R, Nat)
  BY NatLessThanWellFounded DEF OpToRel
<1>2. PICK x \in T : \A y \in T : ~ (<<y, x>> \in R)
  <2> HIDE DEF R
  <2> QED  BY <1>1, WFMin
<1>3. ASSUME NEW y \in T  PROVE x <= y
  <2>1. <<y, x>> \in Nat \X Nat
    OBVIOUS
  <2>2. ~ (y < x)
    BY <1>2, <2>1
  <2> QED  BY <2>2
<1> QED  BY <1>3

\* What holds at the end of a string, and before the bytes where it holds,
\* holds everywhere.
LEMMA Backwards ==
    ASSUME NEW e \in Nat, NEW P \in SUBSET (1 .. e), e \in P,
           \A i \in 1 .. e - 1 : (\A j \in i + 1 .. e : j \in P) => i \in P
    PROVE  P = 1 .. e
<1> DEFINE Q == {d \in Nat : d < e /\ e - d \notin P}
<1>1. CASE Q = {}
  <2>1. ASSUME NEW i \in 1 .. e  PROVE i \in P
    <3>1. e - i \in Nat /\ e - i < e /\ e - (e - i) = i
      OBVIOUS
    <3> QED  BY <1>1, <3>1
  <2> QED  BY <2>1
<1>2. CASE Q # {}
  <2>1. PICK d \in Q : \A m \in Q : d <= m
    <3> HIDE DEF Q
    <3>1. Q \in SUBSET Nat
      BY DEF Q
    <3> QED  BY <1>2, <3>1, LeastOf
  <2>2. d \in Nat /\ d < e /\ e - d \notin P /\ e - d \in 1 .. e - 1
    BY <2>1
  <2>3. ASSUME NEW j \in (e - d) + 1 .. e  PROVE j \in P
    <3>1. e - j \in Nat /\ e - j < d /\ e - j < e /\ e - (e - j) = j
      BY <2>2
    <3> QED  BY <2>1, <3>1
  <2> QED  BY <2>2, <2>3
<1> QED  BY <1>1, <1>2

\* The condition of is_valid_utf8 at byte i, when f tells it for later ones.
Accepts(s, f, i) ==
    \/ i > Len(s)
    \/ s[i] = "nul"
    \/ LET n == Width(s[i]) IN
       /\ n > 0 /\ i + n <= Len(s) + 1
       /\ \A j \in i + 1 .. i + n - 1 : s[j] = "cont"
       /\ f[i + n]

LEMMA WidthRange == \A b : Width(b) \in 0 .. 4
BY DEF Width

LEMMA AcceptsTruth ==
    ASSUME NEW s, NEW f, NEW i
    PROVE  Accepts(s, f, i) \in BOOLEAN
BY DEF Accepts

\* Only later bytes matter.
LEMMA AcceptsLater ==
    ASSUME NEW s \in Seq(Bytes), NEW i \in 1 .. Len(s) + 1, NEW f, NEW g,
           \A j \in i + 1 .. Len(s) + 1 : f[j] = g[j]
    PROVE  Accepts(s, f, i) = Accepts(s, g, i)
<1>1. Len(s) \in Nat
  OBVIOUS
<1>2. PICK n : n = Width(s[i]) /\ n \in 0 .. 4
  BY WidthRange
<1>3. n > 0 /\ i + n <= Len(s) + 1 => f[i + n] = g[i + n]
  BY <1>1, <1>2
<1>4. Accepts(s, f, i) <=> Accepts(s, g, i)
  BY <1>2, <1>3 DEF Accepts
<1> QED  BY <1>4, AcceptsTruth

LEMMA PassExists ==
    ASSUME NEW s \in Seq(Bytes)
    PROVE  \E f : f = [i \in 1 .. Len(s) + 1 |-> Accepts(s, f, i)]
<1> DEFINE e == Len(s) + 1
           From(k, f) == \A i \in k .. e : f[i] = Accepts(s, f, i)
           P == {k \in 1 .. e : \E f : From(k, f)}
<1>1. e \in Nat /\ e >= 1
  OBVIOUS
<1>2. e \in P
  <2> DEFINE f == [i \in 1 .. e |-> TRUE]
  <2>1. f[e] = TRUE
    BY <1>1
  <2>2. Accepts(s, f, e)
    BY <1>1 DEF Accepts
  <2>3. f[e] = Accepts(s, f, e)
    BY <2>1, <2>2, AcceptsTruth
  <2> HIDE DEF f
  <2> QED  BY <1>1, <2>3
<1>3. ASSUME NEW i \in 1 .. e - 1, \A j \in i + 1 .. e : j \in P  PROVE i \in P
  <2>1. i + 1 \in P
    <3> HIDE DEF P
    <3>1. i + 1 \in i + 1 .. e
      BY <1>1
    <3> QED  BY <1>3, <3>1
  <2>2. PICK f : From(i + 1, f)
    BY <2>1
  <2> DEFINE g == [k \in 1 .. e |-> IF k = i THEN Accepts(s, f, i) ELSE f[k]]
  <2>3. \A k \in i + 1 .. e : g[k] = f[k]
    BY <1>1
  <2>4. g[i] = Accepts(s, f, i)
    BY <1>1
  <2> HIDE DEF g
  <2>5. ASSUME NEW k \in i .. e  PROVE g[k] = Accepts(s, g, k)
    <3>1. Accepts(s, f, k) = Accepts(s, g, k)
      BY <1>1, <2>3, AcceptsLater
    <3>2. CASE k = i
      BY <3>1, <3>2, <2>4
    <3>3. CASE k # i
      <4>1. g[k] = f[k] /\ f[k] = Accepts(s, f, k)
        BY <1>1, <2>2, <2>3, <3>3
      <4> QED  BY <3>1, <4>1
    <3> QED  BY <3>2, <3>3
  <2> QED  BY <2>5
<1>4. 1 \in P
  <2> HIDE DEF P
  <2>1. P \in SUBSET (1 .. e)
    BY DEF P
  <2>2. P = 1 .. e
    BY <1>1, <1>2, <1>3, <2>1, Backwards
  <2> QED  BY <1>1, <2>2
<1>5. PICK f : From(1, f)
  BY <1>4
<1> DEFINE g == [i \in 1 .. e |-> Accepts(s, f, i)]
<1>6. \A j \in 1 .. e : g[j] = f[j]
  BY <1>5
<1>7. \A i \in 1 .. e : Accepts(s, f, i) = Accepts(s, g, i)
  <2> HIDE DEF g
  <2> QED  BY <1>1, <1>6, AcceptsLater
<1>8. g = [i \in 1 .. e |-> Accepts(s, g, i)]
  BY <1>7
<1> QED  BY <1>8

\* is_valid_utf8 is such a pass.
LEMMA ValidPass ==
    ASSUME NEW s \in Seq(Bytes)
    PROVE  \E f : /\ \A i \in 1 .. Len(s) + 1 : f[i] <=> Accepts(s, f, i)
                  /\ IsValidUtf8(s) <=> f[1]
<1> DEFINE f == CHOOSE f : f = [i \in 1 .. Len(s) + 1 |-> Accepts(s, f, i)]
<1>1. f = [i \in 1 .. Len(s) + 1 |-> Accepts(s, f, i)]
  BY PassExists
<1>2. IsValidUtf8(s) = f[1]
  BY DEF IsValidUtf8, Accepts
<1> HIDE DEF f
<1>3. \A i \in 1 .. Len(s) + 1 : f[i] = Accepts(s, f, i)
  BY <1>1
<1> QED  BY <1>2, <1>3

------------------------------------------------------------------------------
(* What is_valid_utf8 accepts is text, up to the first zero byte.          *)

LEMMA CharacterShape ==
    ASSUME NEW c \in Characters
    PROVE  /\ Len(c) \in 1 .. 4 /\ DOMAIN c = 1 .. Len(c)
           /\ Width(c[1]) = Len(c) /\ c[1] # "cont" /\ c[1] # "nul"
           /\ \A k \in 2 .. Len(c) : c[k] = "cont"
<1>1. CASE c = <<"ascii">>
  BY <1>1 DEF Width
<1>2. CASE c = <<"lead2", "cont">>
  BY <1>2 DEF Width
<1>3. CASE c = <<"lead3", "cont", "cont">>
  BY <1>3 DEF Width
<1>4. CASE c = <<"lead4", "cont", "cont", "cont">>
  BY <1>4 DEF Width
<1> QED  BY <1>1, <1>2, <1>3, <1>4 DEF Characters

LEMMA WidthShape ==
    ASSUME NEW b, Width(b) > 0
    PROVE  \E c \in Characters : c[1] = b /\ Len(c) = Width(b)
<1>1. b \in {"ascii", "lead2", "lead3", "lead4"}
  BY DEF Width
<1>2. CASE b = "ascii"
  <2>1. <<"ascii">> \in Characters /\ Len(<<"ascii">>) = 1 /\ <<"ascii">>[1] = "ascii"
    BY DEF Characters
  <2> QED  BY <1>2, <2>1 DEF Width
<1>3. CASE b = "lead2"
  <2> DEFINE c == <<"lead2", "cont">>
  <2>1. c \in Characters /\ Len(c) = 2 /\ c[1] = "lead2"
    BY DEF Characters
  <2> QED  BY <1>3, <2>1 DEF Width
<1>4. CASE b = "lead3"
  <2> DEFINE c == <<"lead3", "cont", "cont">>
  <2>1. c \in Characters /\ Len(c) = 3 /\ c[1] = "lead3"
    BY DEF Characters
  <2> QED  BY <1>4, <2>1 DEF Width
<1>5. CASE b = "lead4"
  <2> DEFINE c == <<"lead4", "cont", "cont", "cont">>
  <2>1. c \in Characters /\ Len(c) = 4 /\ c[1] = "lead4"
    BY DEF Characters
  <2> QED  BY <1>5, <2>1 DEF Width
<1> QED  BY <1>1, <1>2, <1>3, <1>4, <1>5

\* A first byte with its continuations is a character.
LEMMA CharacterThere ==
    ASSUME NEW s \in Seq(Bytes), NEW i \in 1 .. Len(s), Width(s[i]) > 0,
           i + Width(s[i]) <= Len(s) + 1,
           \A j \in i + 1 .. i + Width(s[i]) - 1 : s[j] = "cont"
    PROVE  \E c \in Characters : StartsAt(s, i, c) /\ Len(c) = Width(s[i])
<1>1. PICK c \in Characters : c[1] = s[i] /\ Len(c) = Width(s[i])
  BY WidthShape
<1>2. /\ Len(c) \in 1 .. 4 /\ DOMAIN c = 1 .. Len(c)
      /\ \A k \in 2 .. Len(c) : c[k] = "cont"
  BY CharacterShape
<1>3. Len(s) \in Nat
  OBVIOUS
<1>4. ASSUME NEW k \in DOMAIN c  PROVE s[i + k - 1] = c[k]
  <2>1. CASE k = 1
    BY <2>1, <1>1
  <2>2. CASE k # 1
    <3>1. k \in 2 .. Len(c)
      BY <2>2, <1>2
    <3>2. i + k - 1 \in i + 1 .. i + Len(c) - 1
      BY <3>1, <1>2
    <3>3. s[i + k - 1] = "cont"
      BY <3>2, <1>1
    <3> QED  BY <3>1, <3>3, <1>2
  <2> QED  BY <2>1, <2>2
<1> QED  BY <1>1, <1>4 DEF StartsAt

\* The bytes from i to j belong to characters.
Covered(s, i, j) ==
    \A b \in i .. j : \E k \in i .. b, c \in Characters :
        StartsAt(s, k, c) /\ b < k + Len(c) /\ k + Len(c) <= j + 1

LEMMA AcceptedIsText ==
    ASSUME NEW s \in Seq(Bytes), IsValidUtf8(s),
           NEW e \in 1 .. Len(s) + 1,
           e <= Len(s) => s[e] = "nul", \A i \in 1 .. e - 1 : s[i] # "nul"
    PROVE  Covered(s, 1, e - 1)
<1>1. PICK f : /\ \A i \in 1 .. Len(s) + 1 : f[i] <=> Accepts(s, f, i)
               /\ f[1]
  BY ValidPass
<1>2. Len(s) \in Nat /\ e \in Nat
  OBVIOUS
<1> DEFINE P == {i \in 1 .. e : f[i] => Covered(s, i, e - 1)}
<1>3. e \in P
  BY <1>2 DEF Covered
<1>4. ASSUME NEW i \in 1 .. e - 1, \A j \in i + 1 .. e : j \in P  PROVE i \in P
  <2> SUFFICES ASSUME f[i]  PROVE Covered(s, i, e - 1)
    BY <1>2
  <2> DEFINE n == Width(s[i])
  <2>1. Accepts(s, f, i) /\ s[i] # "nul" /\ i <= Len(s)
    BY <1>1, <1>2
  <2>2. n > 0 /\ n \in 0 .. 4
    BY <2>1, WidthRange DEF Accepts
  <2>3. i + n <= Len(s) + 1 /\ (\A j \in i + 1 .. i + n - 1 : s[j] = "cont") /\ f[i + n]
    BY <2>1, <1>2 DEF Accepts
  <2>4. i + n <= e
    <3> HIDE DEF n
    <3>1. i + n > e => e \in i + 1 .. i + n - 1
      BY <1>2, <2>2
    <3> QED  BY <3>1, <1>2, <2>2, <2>3
  <2>5. Covered(s, i + n, e - 1)
    <3> HIDE DEF n
    <3>1. i + n \in i + 1 .. e
      BY <2>2, <2>4, <1>2
    <3> QED  BY <3>1, <1>4, <2>3
  <2>6. PICK c \in Characters : StartsAt(s, i, c) /\ Len(c) = n
    BY <2>1, <2>2, <2>3, CharacterThere
  <2>7. ASSUME NEW b \in i .. e - 1
        PROVE  \E k \in i .. b, d \in Characters :
                   StartsAt(s, k, d) /\ b < k + Len(d) /\ k + Len(d) <= e
    <3> HIDE DEF n
    <3>1. CASE b < i + n
      BY <3>1, <2>4, <2>6, <1>2
    <3>2. CASE b >= i + n
      <4>1. b \in i + n .. e - 1
        BY <3>2, <2>2, <1>2
      <4>2. PICK k \in i + n .. b, d \in Characters :
                   StartsAt(s, k, d) /\ b < k + Len(d) /\ k + Len(d) <= e - 1 + 1
        BY <2>5, <4>1 DEF Covered
      <4>3. k \in i .. b /\ k + Len(d) <= e
        BY <4>2, <2>2, <1>2, CharacterShape
      <4> QED  BY <4>2, <4>3
    <3> QED  BY <3>1, <3>2, <2>2, <1>2
  <2>8. e - 1 + 1 = e
    BY <1>2
  <2> QED  BY <2>7, <2>8 DEF Covered
<1>5. P = 1 .. e
  <2> HIDE DEF P
  <2>1. P \in SUBSET (1 .. e)
    BY DEF P
  <2> QED  BY <1>2, <1>3, <1>4, <2>1, Backwards
<1> QED  BY <1>1, <1>2, <1>5
------------------------------------------------------------------------------
(* Characters do not overlap, and text is accepted.                        *)

\* What c, at byte i, says of s.
LEMMA BytesOf ==
    ASSUME NEW s \in Seq(Bytes), NEW i \in Nat, NEW c \in Characters,
           StartsAt(s, i, c)
    PROVE  /\ s[i] = c[1] /\ s[i] # "cont" /\ i + Len(c) <= Len(s) + 1
           /\ Width(s[i]) = Len(c) /\ Len(c) \in 1 .. 4
           /\ \A j \in i + 1 .. i + Len(c) - 1 : s[j] = "cont"
           /\ \A j \in i .. i + Len(c) - 1 : s[j] # "nul"
<1>1. /\ Len(c) \in 1 .. 4 /\ DOMAIN c = 1 .. Len(c)
      /\ Width(c[1]) = Len(c) /\ c[1] # "cont" /\ c[1] # "nul"
      /\ \A k \in 2 .. Len(c) : c[k] = "cont"
  BY CharacterShape
<1>2. \A k \in 1 .. Len(c) : s[i + k - 1] = c[k]
  BY <1>1 DEF StartsAt
<1>3. s[i] = c[1]
  <2>1. 1 \in 1 .. Len(c) /\ i + 1 - 1 = i
    BY <1>1
  <2> QED  BY <1>2, <2>1
<1>4. ASSUME NEW j \in i + 1 .. i + Len(c) - 1  PROVE s[j] = "cont"
  <2>1. j - i + 1 \in 2 .. Len(c) /\ i + (j - i + 1) - 1 = j
    BY <1>1
  <2>2. s[i + (j - i + 1) - 1] = c[j - i + 1]
    BY <1>1, <1>2, <2>1
  <2> QED  BY <1>1, <2>1, <2>2
<1>5. ASSUME NEW j \in i .. i + Len(c) - 1  PROVE s[j] # "nul"
  <2>1. j = i \/ j \in i + 1 .. i + Len(c) - 1
    BY <1>1
  <2> QED  BY <1>1, <1>3, <1>4, <2>1
<1>6. i + Len(c) <= Len(s) + 1
  BY DEF StartsAt
<1> QED  BY <1>1, <1>3, <1>4, <1>5, <1>6

LEMMA NoOverlap ==
    ASSUME NEW s \in Seq(Bytes), NEW i \in Nat, NEW j \in Nat,
           NEW c \in Characters, NEW d \in Characters,
           StartsAt(s, i, c), StartsAt(s, j, d)
    PROVE  /\ i < j => i + Len(c) <= j
           /\ i = j => Len(c) = Len(d)
<1>1. /\ Len(c) \in 1 .. 4 /\ Width(s[i]) = Len(c)
      /\ \A x \in i + 1 .. i + Len(c) - 1 : s[x] = "cont"
  BY BytesOf
<1>2. s[j] # "cont" /\ Width(s[j]) = Len(d)
  BY BytesOf
<1>3. i < j /\ i + Len(c) > j => j \in i + 1 .. i + Len(c) - 1
  BY <1>1
<1>4. i < j => i + Len(c) <= j
  BY <1>1, <1>2, <1>3
<1> QED  BY <1>1, <1>2, <1>4

LEMMA TextIsAccepted ==
    ASSUME NEW s \in Seq(Bytes), IsText(s)
    PROVE  IsValidUtf8(s)
<1>1. PICK f : /\ \A i \in 1 .. Len(s) + 1 : f[i] <=> Accepts(s, f, i)
               /\ IsValidUtf8(s) <=> f[1]
  BY ValidPass
<1> DEFINE e == Len(s) + 1
           Starts(i) == i <= Len(s) => s[i] # "cont"
           P == {i \in 1 .. e : Starts(i) => f[i]}
<1>2. Len(s) \in Nat /\ e \in Nat /\ e >= 1 /\ DOMAIN s = 1 .. Len(s)
  OBVIOUS
<1>3. e \in P
  BY <1>1, <1>2 DEF Accepts
<1>4. \A b \in 1 .. Len(s) : \E i \in 1 .. b, c \in Characters :
          StartsAt(s, i, c) /\ b < i + Len(c)
  BY <1>2 DEF IsText
\* Only the first byte of a character is not a continuation.
<1>5. ASSUME NEW b \in 1 .. Len(s), s[b] # "cont"
      PROVE  \E c \in Characters : StartsAt(s, b, c)
  <2>1. PICK i \in 1 .. b, c \in Characters : StartsAt(s, i, c) /\ b < i + Len(c)
    BY <1>4
  <2>2. /\ Len(c) \in 1 .. 4
        /\ \A j \in i + 1 .. i + Len(c) - 1 : s[j] = "cont"
    BY <2>1, BytesOf
  <2>3. i # b => b \in i + 1 .. i + Len(c) - 1
    BY <2>1, <2>2, <1>2
  <2> QED  BY <1>5, <2>1, <2>2, <2>3
\* What follows a character begins one.
<1>6. ASSUME NEW i \in 1 .. Len(s), NEW c \in Characters, StartsAt(s, i, c)
      PROVE  Starts(i + Len(c))
  <2>1. Len(c) \in 1 .. 4
    BY <1>6, BytesOf
  <2>2. SUFFICES ASSUME i + Len(c) <= Len(s)  PROVE s[i + Len(c)] # "cont"
    OBVIOUS
  <2>3. i + Len(c) \in 1 .. Len(s)
    BY <2>1, <2>2, <1>2
  <2>4. PICK j \in 1 .. i + Len(c), d \in Characters :
            StartsAt(s, j, d) /\ i + Len(c) < j + Len(d)
    BY <1>4, <2>3
  <2>5. /\ i < j => i + Len(c) <= j
        /\ i = j => Len(c) = Len(d)
    BY <1>6, <2>4, NoOverlap
  <2>6. j < i => j + Len(d) <= i
    BY <1>6, <2>4, NoOverlap
  <2>7. Len(d) \in 1 .. 4 /\ s[j] # "cont"
    BY <2>4, BytesOf
  <2>8. j = i + Len(c)
    BY <2>1, <2>4, <2>5, <2>6, <2>7
  <2> QED  BY <2>7, <2>8
<1>7. ASSUME NEW i \in 1 .. e - 1, \A j \in i + 1 .. e : j \in P  PROVE i \in P
  <2> SUFFICES ASSUME Starts(i)  PROVE f[i]
    BY <1>2
  <2>1. i \in 1 .. Len(s) /\ s[i] # "cont"
    BY <1>2
  <2>2. PICK c \in Characters : StartsAt(s, i, c)
    BY <1>5, <2>1
  <2>3. /\ i + Len(c) <= Len(s) + 1
        /\ Width(s[i]) = Len(c) /\ Len(c) \in 1 .. 4
        /\ \A j \in i + 1 .. i + Len(c) - 1 : s[j] = "cont"
    BY <2>1, <2>2, BytesOf
  <2>4. Starts(i + Len(c))
    <3> HIDE DEF Starts
    <3> QED  BY <1>6, <2>1, <2>2
  <2>5. i + Len(c) \in P
    <3> HIDE DEF P
    <3>1. i + Len(c) \in i + 1 .. e
      BY <1>2, <2>3
    <3> QED  BY <1>7, <3>1
  <2>6. f[i + Len(c)]
    BY <2>4, <2>5
  <2>7. Accepts(s, f, i)
    BY <2>3, <2>6 DEF Accepts
  <2> QED  BY <1>1, <1>2, <2>1, <2>7
<1>8. P = 1 .. e
  <2> HIDE DEF P
  <2>1. P \in SUBSET (1 .. e)
    BY DEF P
  <2> QED  BY <1>2, <1>3, <1>7, <2>1, Backwards
\* A text begins with a character.
<1>9. Starts(1)
  <2>1. SUFFICES ASSUME 1 <= Len(s)  PROVE s[1] # "cont"
    OBVIOUS
  <2>2. PICK i \in 1 .. 1, c \in Characters : StartsAt(s, i, c)
    <3>1. 1 \in 1 .. Len(s)
      BY <2>1, <1>2
    <3> QED  BY <1>4, <3>1
  <2>3. i = 1
    OBVIOUS
  <2> QED  BY <2>2, <2>3, BytesOf
<1> QED  BY <1>1, <1>2, <1>8, <1>9

------------------------------------------------------------------------------
(* Text is put together and taken apart at character ends.                 *)

\* The same bytes hold the same characters.
LEMMA SameStart ==
    ASSUME NEW s, NEW t, NEW i \in Nat, NEW j \in Nat, NEW c \in Characters,
           StartsAt(s, i, c), j + Len(c) <= Len(t) + 1,
           \A k \in 1 .. Len(c) : t[j + k - 1] = s[i + k - 1]
    PROVE  StartsAt(t, j, c)
<1>1. DOMAIN c = 1 .. Len(c)
  BY CharacterShape
<1> QED  BY <1>1 DEF StartsAt

\* Where byte k of a character of b is in a string that goes before it.
LEMMA Shift ==
    ASSUME NEW p \in Nat, NEW q \in Nat, NEW m \in Nat, NEW i \in Nat, NEW k \in 1 .. m,
           i >= 1, i + m <= q + 1
    PROVE  /\ (p + i) + k - 1 \in 1 .. p + q
           /\ ~ ((p + i) + k - 1 <= p)
           /\ (p + i) + k - 1 - p = i + k - 1
OBVIOUS

\* Where a character of b is, and back.
LEMMA ShiftThere ==
    ASSUME NEW p \in Nat, NEW x \in Nat, NEW i \in Nat, NEW m \in Nat,
           i >= 1, i <= x - p, x - p < i + m
    PROVE  p + i \in 1 .. x /\ x < p + i + m
OBVIOUS

LEMMA ShiftBack ==
    ASSUME NEW p \in Nat, NEW q \in Nat, NEW x \in Nat, NEW i \in Nat, NEW m \in Nat,
           p + i > p, p + i <= p + x, p + x < (p + i) + m, (p + i) + m <= p + q + 1
    PROVE  i \in 1 .. x /\ x < i + m /\ i + m <= q + 1
OBVIOUS

LEMMA TextOfBoth ==
    ASSUME NEW a \in Seq(Bytes), NEW b \in Seq(Bytes), IsText(a), IsText(b)
    PROVE  IsText(a \o b)
<1> DEFINE s == a \o b
<1>1. /\ s \in Seq(Bytes) /\ Len(s) = Len(a) + Len(b)
      /\ \A i \in 1 .. Len(a) + Len(b) :
             s[i] = IF i <= Len(a) THEN a[i] ELSE b[i - Len(a)]
  BY ConcatProperties
<1> HIDE DEF s
<1>2. /\ Len(a) \in Nat /\ Len(b) \in Nat
      /\ DOMAIN a = 1 .. Len(a) /\ DOMAIN b = 1 .. Len(b)
  OBVIOUS
<1>3. DOMAIN s = 1 .. Len(a) + Len(b)
  BY <1>1
<1>4. ASSUME NEW x \in 1 .. Len(a)
      PROVE  \E i \in 1 .. x, c \in Characters : StartsAt(s, i, c) /\ x < i + Len(c)
  <2>1. PICK i \in 1 .. x, c \in Characters : StartsAt(a, i, c) /\ x < i + Len(c)
    BY <1>2 DEF IsText
  <2>2. Len(c) \in 1 .. 4 /\ i + Len(c) <= Len(a) + 1
    BY <2>1, BytesOf
  <2>3. ASSUME NEW k \in 1 .. Len(c)  PROVE s[i + k - 1] = a[i + k - 1]
    <3>1. i + k - 1 \in 1 .. Len(a) + Len(b) /\ i + k - 1 <= Len(a)
      BY <1>2, <2>2
    <3> QED  BY <1>1, <3>1
  <2>4. StartsAt(s, i, c)
    <3>1. i + Len(c) <= Len(s) + 1
      BY <1>1, <1>2, <2>2
    <3> QED  BY <2>1, <2>3, <3>1, SameStart
  <2> QED  BY <2>1, <2>4
<1>5. ASSUME NEW x \in Len(a) + 1 .. Len(a) + Len(b)
      PROVE  \E i \in 1 .. x, c \in Characters : StartsAt(s, i, c) /\ x < i + Len(c)
  <2>1. x - Len(a) \in 1 .. Len(b)
    BY <1>2
  <2>2. PICK i \in 1 .. x - Len(a), c \in Characters :
            StartsAt(b, i, c) /\ x - Len(a) < i + Len(c)
    BY <1>2, <2>1 DEF IsText
  <2>3. Len(c) \in 1 .. 4 /\ i + Len(c) <= Len(b) + 1
    BY <2>2, BytesOf
  <2>4. ASSUME NEW k \in 1 .. Len(c)
        PROVE  s[(Len(a) + i) + k - 1] = b[i + k - 1]
    <3>1. i \in Nat /\ i >= 1
      BY <2>2
    <3>2. k \in 1 .. Len(c) /\ Len(c) \in Nat
      BY <2>3
    <3>3. PICK y : y = (Len(a) + i) + k - 1
      OBVIOUS
    <3>4. /\ y \in 1 .. Len(a) + Len(b) /\ ~ (y <= Len(a))
          /\ y - Len(a) = i + k - 1
      BY <1>2, <2>3, <3>1, <3>2, <3>3, Shift
    <3>5. s[y] = b[y - Len(a)]
      BY <1>1, <3>4
    <3> QED  BY <3>3, <3>4, <3>5
  <2>5. StartsAt(s, Len(a) + i, c)
    <3>1. (Len(a) + i) + Len(c) <= Len(s) + 1 /\ Len(a) + i \in Nat
      BY <1>1, <1>2, <2>3
    <3> QED  BY <2>2, <2>4, <3>1, SameStart
  <2>6. Len(a) + i \in 1 .. x /\ x < Len(a) + i + Len(c)
    <3>1. x \in Nat /\ i \in Nat /\ i >= 1 /\ i <= x - Len(a)
      BY <1>2, <2>1
    <3>2. Len(a) \in Nat /\ Len(c) \in Nat /\ x - Len(a) < i + Len(c)
      BY <1>2, <2>2, <2>3
    <3> QED  BY <3>1, <3>2, ShiftThere
  <2> QED  BY <2>5, <2>6
<1>6. \A x \in 1 .. Len(a) + Len(b) : x \in 1 .. Len(a) \/ x \in Len(a) + 1 .. Len(a) + Len(b)
  BY <1>2
<1>7. IsText(s)
  BY <1>3, <1>4, <1>5, <1>6 DEF IsText
<1> QED  BY <1>7 DEF s

LEMMA TextOfRest ==
    ASSUME NEW a \in Seq(Bytes), NEW b \in Seq(Bytes), IsText(a), IsText(a \o b)
    PROVE  IsText(b)
<1> DEFINE s == a \o b
<1>1. /\ s \in Seq(Bytes) /\ Len(s) = Len(a) + Len(b)
      /\ \A i \in 1 .. Len(a) + Len(b) :
             s[i] = IF i <= Len(a) THEN a[i] ELSE b[i - Len(a)]
  BY ConcatProperties
<1>t. IsText(s)
  OBVIOUS
<1> HIDE DEF s
<1>2. /\ Len(a) \in Nat /\ Len(b) \in Nat
      /\ DOMAIN a = 1 .. Len(a) /\ DOMAIN b = 1 .. Len(b)
  OBVIOUS
<1>3. DOMAIN s = 1 .. Len(a) + Len(b)
  BY <1>1
<1>4. ASSUME NEW x \in 1 .. Len(b)
      PROVE  \E i \in 1 .. x, c \in Characters : StartsAt(b, i, c) /\ x < i + Len(c)
  <2>1. Len(a) + x \in DOMAIN s
    BY <1>2, <1>3
  <2>2. PICK j \in 1 .. Len(a) + x, c \in Characters :
            StartsAt(s, j, c) /\ Len(a) + x < j + Len(c)
    BY <1>t, <2>1 DEF IsText
  <2>3. Len(c) \in 1 .. 4 /\ j + Len(c) <= Len(s) + 1
    BY <1>1, <2>2, BytesOf
  \* It cannot begin before b: characters of a do not reach there.
  <2>4. j > Len(a)
    <3> SUFFICES ASSUME j <= Len(a)  PROVE FALSE
      BY <1>2
    <3>1. PICK k \in 1 .. j, d \in Characters : StartsAt(a, k, d) /\ j < k + Len(d)
      <4>1. j \in DOMAIN a
        BY <1>2
      <4> QED  BY <4>1 DEF IsText
    <3>2. Len(d) \in 1 .. 4 /\ k + Len(d) <= Len(a) + 1
      BY <3>1, BytesOf
    <3>3. ASSUME NEW l \in 1 .. Len(d)  PROVE s[k + l - 1] = a[k + l - 1]
      <4>1. k + l - 1 \in 1 .. Len(a) + Len(b) /\ k + l - 1 <= Len(a)
        BY <1>2, <3>2
      <4> QED  BY <1>1, <4>1
    <3>4. StartsAt(s, k, d)
      <4>1. k + Len(d) <= Len(s) + 1
        BY <1>1, <1>2, <3>2
      <4> QED  BY <3>1, <3>3, <4>1, SameStart
    <3>5. /\ k < j => k + Len(d) <= j
          /\ k = j => Len(d) = Len(c)
      BY <1>1, <2>2, <3>4, NoOverlap
    <3>6. k = j
      BY <3>1, <3>2, <3>5
    <3>7. j + Len(c) <= Len(a) + 1
      BY <3>2, <3>5, <3>6
    <3> QED  BY <1>2, <2>2, <2>3, <3>7
  <2>5. PICK i \in Nat : j = Len(a) + i
    <3>1. j - Len(a) \in Nat /\ j = Len(a) + (j - Len(a))
      BY <1>2, <2>4
    <3> QED  BY <3>1
  <2>6. i \in 1 .. x /\ x < i + Len(c) /\ i + Len(c) <= Len(b) + 1
    <3>1. /\ Len(a) \in Nat /\ Len(b) \in Nat /\ x \in Nat /\ Len(c) \in Nat
          /\ j > Len(a) /\ j <= Len(a) + x
      BY <1>2, <2>3, <2>4
    <3>2. Len(a) + x < j + Len(c) /\ j + Len(c) <= Len(a) + Len(b) + 1
      BY <1>1, <2>2, <2>3
    <3> QED  BY <2>5, <3>1, <3>2, ShiftBack
  <2>7. ASSUME NEW k \in 1 .. Len(c)  PROVE b[i + k - 1] = s[j + k - 1]
    <3>1. i \in Nat /\ i >= 1
      BY <2>6
    <3>2. k \in 1 .. Len(c) /\ Len(c) \in Nat
      BY <2>3
    <3>3. PICK y : y = (Len(a) + i) + k - 1
      OBVIOUS
    <3>4. /\ y \in 1 .. Len(a) + Len(b) /\ ~ (y <= Len(a))
          /\ y - Len(a) = i + k - 1
      BY <1>2, <2>6, <3>1, <3>2, <3>3, Shift
    <3>5. s[y] = b[y - Len(a)]
      BY <1>1, <3>4
    <3> QED  BY <2>5, <3>3, <3>4, <3>5
  <2>8. StartsAt(b, i, c)
    <3>1. i \in Nat /\ j \in Nat
      BY <1>2
    <3> QED  BY <2>2, <2>6, <2>7, <3>1, SameStart
  <2> QED  BY <2>6, <2>8
<1> QED  BY <1>2, <1>4 DEF IsText

LEMMA TextHasNoNul ==
    ASSUME NEW s \in Seq(Bytes), IsText(s)
    PROVE  \A b \in 1 .. Len(s) : s[b] # "nul"
<1> SUFFICES ASSUME NEW b \in 1 .. Len(s)  PROVE s[b] # "nul"
  OBVIOUS
<1>1. PICK i \in 1 .. b, c \in Characters : StartsAt(s, i, c) /\ b < i + Len(c)
  <2>1. b \in DOMAIN s
    OBVIOUS
  <2> QED  BY <2>1 DEF IsText
<1>2. /\ Len(c) \in 1 .. 4
      /\ \A j \in i .. i + Len(c) - 1 : s[j] # "nul"
  BY <1>1, BytesOf
<1>3. b \in i .. i + Len(c) - 1
  BY <1>1, <1>2
<1> QED  BY <1>2, <1>3

LEMMA EmptyText == IsText(<<>>)
BY DEF IsText

------------------------------------------------------------------------------
(* The C string.                                                           *)

LEMMA NulMeans ==
    ASSUME NEW s \in Seq(Bytes)
    PROVE  HasNul(s) <=> \E b \in 1 .. Len(s) : s[b] = "nul"
BY DEF HasNul, ToSet

\* The string ends before its first zero byte, or where it ends.
LEMMA CStringCases ==
    ASSUME NEW s \in Seq(Bytes)
    PROVE  /\ ~HasNul(s) => CString(s) = s
           /\ HasNul(s) => \E e \in 1 .. Len(s) :
                               /\ s[e] = "nul" /\ \A i \in 1 .. e - 1 : s[i] # "nul"
                               /\ CString(s) = SubSeq(s, 1, e - 1)
<1> DEFINE T == {i \in 1 .. Len(s) : s[i] = "nul"}
<1>1. CString(s) = IF (IF T # {} THEN Min(T) ELSE 0) = 0 THEN s
                   ELSE SubSeq(s, 1, (IF T # {} THEN Min(T) ELSE 0) - 1)
  BY DEF CString, SelectInSeq
<1>2. HasNul(s) <=> T # {}
  BY NulMeans
<1>3. T \in SUBSET Nat /\ T \in SUBSET (1 .. Len(s)) /\ \A i \in T : s[i] = "nul"
  OBVIOUS
<1>4. \A i \in 1 .. Len(s) : s[i] = "nul" => i \in T
  OBVIOUS
<1> HIDE DEF T
<1>5. CASE T = {}
  BY <1>1, <1>2, <1>5
<1>6. CASE T # {}
  <2>1. \E n \in T : \A m \in T : n <= m
    BY <1>3, <1>6, LeastOf
  <2>2. Min(T) \in T /\ \A m \in T : Min(T) <= m
    BY <2>1 DEF Min
  <2>3. PICK e : e = Min(T)
    OBVIOUS
  <2>4. e \in 1 .. Len(s) /\ s[e] = "nul" /\ \A m \in T : e <= m
    BY <1>3, <2>2, <2>3
  <2>5. ASSUME NEW i \in 1 .. e - 1  PROVE s[i] # "nul"
    <3>1. i \in 1 .. Len(s) /\ ~ (e <= i)
      BY <2>4
    <3> QED  BY <1>4, <2>4, <3>1
  <2>6. CString(s) = SubSeq(s, 1, e - 1)
    <3>1. e # 0
      BY <2>4
    <3> QED  BY <1>1, <1>6, <2>3, <3>1
  <2> QED  BY <1>2, <1>6, <2>4, <2>5, <2>6
<1> QED  BY <1>5, <1>6

\* What a valid string shows is text.
LEMMA ValidShowsText ==
    ASSUME NEW s \in Seq(Bytes), IsValidUtf8(s)
    PROVE  CString(s) \in Seq(Bytes) /\ IsText(CString(s))
<1>1. Len(s) \in Nat /\ DOMAIN s = 1 .. Len(s)
  OBVIOUS
<1>2. CASE ~HasNul(s)
  <2>1. CString(s) = s /\ \A i \in 1 .. Len(s) : s[i] # "nul"
    BY <1>2, CStringCases, NulMeans
  <2>2. PICK e \in 1 .. Len(s) + 1 : e = Len(s) + 1
    BY <1>1
  <2>3. Covered(s, 1, e - 1)
    <3>1. e - 1 = Len(s) /\ ~ (e <= Len(s))
      BY <1>1, <2>2
    <3> QED  BY <2>1, <3>1, AcceptedIsText
  <2>4. e - 1 = Len(s)
    BY <1>1, <2>2
  <2>5. IsText(s)
    BY <1>1, <2>3, <2>4 DEF Covered, IsText
  <2> QED  BY <2>1, <2>5
<1>3. CASE HasNul(s)
  <2>1. PICK e \in 1 .. Len(s) :
            /\ s[e] = "nul" /\ \A i \in 1 .. e - 1 : s[i] # "nul"
            /\ CString(s) = SubSeq(s, 1, e - 1)
    BY <1>3, CStringCases
  <2>2. Covered(s, 1, e - 1)
    <3>1. e \in 1 .. Len(s) + 1
      BY <1>1
    <3> QED  BY <2>1, <3>1, AcceptedIsText
  <2>3. PICK t : t = SubSeq(s, 1, e - 1)
    OBVIOUS
  <2>4. t \in Seq(Bytes) /\ Len(t) = e - 1 /\ \A i \in 1 .. e - 1 : t[i] = s[i]
    <3>1. \A i \in 1 .. e - 1 : s[i] \in Bytes
      <4>1. \A i \in 1 .. e - 1 : i \in 1 .. Len(s)
        BY <1>1
      <4> QED  BY <4>1
    <3>2. /\ SubSeq(s, 1, e - 1) \in Seq(Bytes)
          /\ Len(SubSeq(s, 1, e - 1)) = IF 1 <= e - 1 THEN (e - 1) - 1 + 1 ELSE 0
          /\ \A i \in 1 .. (e - 1) - 1 + 1 : SubSeq(s, 1, e - 1)[i] = s[1 + i - 1]
      BY <3>1, SubSeqProperties
    <3>3. (e - 1) - 1 + 1 = e - 1 /\ \A i \in 1 .. e - 1 : 1 + i - 1 = i
      BY <1>1
    <3> QED  BY <2>3, <3>2, <3>3
  <2>5. ASSUME NEW b \in 1 .. e - 1
        PROVE  \E i \in 1 .. b, c \in Characters : StartsAt(t, i, c) /\ b < i + Len(c)
    <3>1. PICK i \in 1 .. b, c \in Characters :
              StartsAt(s, i, c) /\ b < i + Len(c) /\ i + Len(c) <= e - 1 + 1
      BY <2>2 DEF Covered
    <3>2. Len(c) \in 1 .. 4
      BY <3>1, BytesOf
    <3>3. ASSUME NEW k \in 1 .. Len(c)  PROVE t[i + k - 1] = s[i + k - 1]
      <4>1. i + k - 1 \in 1 .. e - 1
        BY <3>1, <3>2
      <4> QED  BY <2>4, <4>1
    <3>4. StartsAt(t, i, c)
      BY <2>4, <3>1, <3>3, SameStart
    <3> QED  BY <3>1, <3>4
  <2>6. DOMAIN t = 1 .. e - 1
    BY <2>4
  <2> QED  BY <2>1, <2>3, <2>4, <2>5, <2>6 DEF IsText
<1> QED  BY <1>2, <1>3

\* What is_valid_utf8 computes, for strings of any length: without a zero
\* byte, the loop over the string accepts exactly the strings whose every
\* byte belongs to a whole character, and with one, what it accepts is such
\* a text up to there.
THEOREM ValidMeansText ==
    ASSUME NEW s \in Seq(Bytes)
    PROVE  /\ IsText(s) => IsValidUtf8(s)
           /\ IsValidUtf8(s) => IsText(CString(s))
           /\ ~HasNul(s) => (IsValidUtf8(s) <=> IsText(s))
<1>1. IsText(s) => IsValidUtf8(s)
  BY TextIsAccepted
<1>2. IsValidUtf8(s) => IsText(CString(s))
  BY ValidShowsText
<1>3. ~HasNul(s) => CString(s) = s
  BY CStringCases
<1> QED  BY <1>1, <1>2, <1>3

------------------------------------------------------------------------------
(* The invariant of a reply.                                               *)

LEMMA BytesAssociate ==
    ASSUME NEW a \in Seq(Bytes), NEW b \in Seq(Bytes), NEW c \in Seq(Bytes)
    PROVE  (a \o b) \o c = a \o (b \o c)
BY ConcatAssociative, Z3

LEMMA NulOfBoth ==
    ASSUME NEW a \in Seq(Bytes), NEW b \in Seq(Bytes)
    PROVE  HasNul(a \o b) <=> HasNul(a) \/ HasNul(b)
<1> DEFINE s == a \o b
<1>1. /\ s \in Seq(Bytes) /\ Len(s) = Len(a) + Len(b)
      /\ \A i \in 1 .. Len(a) + Len(b) :
             s[i] = IF i <= Len(a) THEN a[i] ELSE b[i - Len(a)]
  BY ConcatProperties
<1> HIDE DEF s
<1>2. Len(a) \in Nat /\ Len(b) \in Nat
  OBVIOUS
<1>3. ASSUME HasNul(s)  PROVE HasNul(a) \/ HasNul(b)
  <2>1. PICK x \in 1 .. Len(a) + Len(b) : s[x] = "nul"
    BY <1>1, <1>3, NulMeans
  <2>2. CASE x <= Len(a)
    <3>1. x \in 1 .. Len(a) /\ a[x] = "nul"
      BY <1>1, <1>2, <2>1, <2>2
    <3> QED  BY <3>1, NulMeans
  <2>3. CASE ~ (x <= Len(a))
    <3>1. x - Len(a) \in 1 .. Len(b)
      BY <1>2, <2>3
    <3>2. b[x - Len(a)] = "nul"
      BY <1>1, <2>1, <2>3
    <3> QED  BY <3>1, <3>2, NulMeans
  <2> QED  BY <2>2, <2>3
<1>4. ASSUME HasNul(a)  PROVE HasNul(s)
  <2>1. PICK x \in 1 .. Len(a) : a[x] = "nul"
    BY <1>4, NulMeans
  <2>2. x \in 1 .. Len(a) + Len(b) /\ x <= Len(a)
    BY <1>2
  <2>3. s[x] = "nul"
    BY <1>1, <2>1, <2>2
  <2>4. x \in 1 .. Len(s)
    BY <1>1, <2>2
  <2> QED  BY <1>1, <2>3, <2>4, NulMeans
<1>5. ASSUME HasNul(b)  PROVE HasNul(s)
  <2>1. PICK x \in 1 .. Len(b) : b[x] = "nul"
    BY <1>5, NulMeans
  <2>2. PICK y : y = Len(a) + x
    OBVIOUS
  <2>3. y \in 1 .. Len(a) + Len(b) /\ ~ (y <= Len(a)) /\ y - Len(a) = x
    BY <1>2, <2>2
  <2>4. s[y] = "nul"
    BY <1>1, <2>1, <2>3
  <2>5. y \in 1 .. Len(s)
    BY <1>1, <2>3
  <2> QED  BY <1>1, <2>4, <2>5, NulMeans
<1>6. HasNul(s) <=> HasNul(a) \/ HasNul(b)
  BY <1>3, <1>4, <1>5
<1> QED  BY <1>6 DEF s

ReplyTypes ==
    /\ generating \in BOOLEAN
    /\ cached \in Seq(Bytes) /\ assistant \in Seq(Bytes)
    /\ shown \in Seq(Bytes) /\ received \in Seq(Bytes)

\* What waits is nothing, or not a text yet.
Waits == cached = <<>> \/ ~IsValidUtf8(cached)

ReplyInv == ReplyTypes /\ OnlyWholeCharacters /\ SaidIsShown /\ Waits

LEMMA ReplyInit == Init => ReplyInv
<1> SUFFICES ASSUME Init  PROVE ReplyInv
  OBVIOUS
<1>1. ReplyTypes
  <2>1. <<>> \in Seq(Bytes)
    OBVIOUS
  <2> QED  BY <2>1 DEF Init, ReplyTypes
<1>2. OnlyWholeCharacters /\ Waits
  BY EmptyText DEF Init, OnlyWholeCharacters, Waits
<1>3. SaidIsShown
  BY DEF Init, SaidIsShown
<1> QED  BY <1>1, <1>2, <1>3 DEF ReplyInv

LEMMA ReplyPrompt == ProcessUserPrompt => ReplyInv'
<1> SUFFICES ASSUME ProcessUserPrompt  PROVE ReplyInv'
  OBVIOUS
<1>1. ReplyTypes'
  BY DEF ProcessUserPrompt, ReplyTypes
<1>2. IsText(shown)'
  <2>1. shown' = <<>>
    BY DEF ProcessUserPrompt
  <2>2. IsText(<<>>) => IsText(shown')
    BY <2>1
  <2> QED  BY <2>2, EmptyText DEF IsText, StartsAt
<1>3. Waits'
  BY DEF ProcessUserPrompt, Waits
<1>4. SaidIsShown'
  BY DEF ProcessUserPrompt, SaidIsShown
<1> QED  BY <1>1, <1>2, <1>3, <1>4 DEF ReplyInv, OnlyWholeCharacters

LEMMA ReplyGenerate ==
    ASSUME NEW piece \in Pieces, ReplyInv, Generate(piece)
    PROVE  ReplyInv'
<1> DEFINE more == cached \o piece
<1>1. piece \in Seq(Bytes)
  BY PiecesAssumption
<1>2. /\ generating \in BOOLEAN /\ cached \in Seq(Bytes) /\ assistant \in Seq(Bytes)
      /\ shown \in Seq(Bytes) /\ received \in Seq(Bytes)
  BY DEF ReplyInv, ReplyTypes
<1>3. /\ IsText(shown) /\ assistant \o cached = received
      /\ ~HasNul(received) => assistant = shown
  BY DEF ReplyInv, OnlyWholeCharacters, SaidIsShown
<1>4. more \in Seq(Bytes)
  BY <1>1, <1>2, ConcatProperties
<1>5. /\ received' = received \o piece /\ generating' = generating
      /\ received \o piece \in Seq(Bytes)
  BY <1>1, <1>2, ConcatProperties DEF Generate
<1>6. received \o piece = assistant \o more
  <2>1. (assistant \o cached) \o piece = assistant \o (cached \o piece)
    <3>1. cached \in Seq(Bytes) /\ assistant \in Seq(Bytes)
      BY <1>2
    <3> QED  BY <1>1, <3>1, BytesAssociate
  <2> QED  BY <1>3, <2>1
<1>7. CASE IsValidUtf8(more)
  <2>1. /\ shown' = shown \o CString(more)
        /\ assistant' = (assistant \o cached) \o piece /\ cached' = <<>>
    BY <1>7 DEF Generate
  <2>2. CString(more) \in Seq(Bytes) /\ IsText(CString(more))
    <3> HIDE DEF more
    <3> QED  BY <1>4, <1>7, ValidShowsText
  <2>3. /\ shown \o CString(more) \in Seq(Bytes)
        /\ IsText(shown \o CString(more))
    <3> HIDE DEF more
    <3> QED  BY <1>2, <1>3, <2>2, ConcatProperties, TextOfBoth
  <2>4. assistant' = received'
    BY <1>3, <1>5, <2>1
  <2>5. ReplyTypes'
    BY <1>2, <1>5, <2>1, <2>3, <2>4 DEF ReplyTypes
  <2>6. OnlyWholeCharacters'
    <3>1. PICK t : t = shown \o CString(more)
      OBVIOUS
    <3>2. shown' = t /\ IsText(t)
      BY <2>1, <2>3, <3>1
    <3> QED  BY <3>2 DEF OnlyWholeCharacters, IsText, StartsAt
  <2>7. Waits'
    BY <2>1 DEF Waits
  <2>8. ~HasNul(received \o piece) => assistant' = shown'
    <3> SUFFICES ASSUME ~HasNul(received \o piece)  PROVE assistant' = shown'
      OBVIOUS
    <3> HIDE DEF more
    <3>1. ~HasNul(received)
      BY <1>1, <1>2, NulOfBoth
    <3>2. ~HasNul(more)
      BY <1>2, <1>4, <1>6, NulOfBoth
    <3>3. CString(more) = more
      BY <1>4, <3>2, CStringCases
    <3> QED  BY <1>3, <1>5, <1>6, <2>1, <2>4, <3>1, <3>3
  <2>9. assistant' \o cached' = received'
    BY <1>5, <2>1, <2>4, ConcatEmptySeq
  <2>10. SaidIsShown'
    BY <1>5, <2>8, <2>9 DEF SaidIsShown, HasNul
  <2> QED  BY <2>5, <2>6, <2>7, <2>10 DEF ReplyInv
<1>8. CASE ~IsValidUtf8(more)
  <2>1. /\ cached' = more /\ shown' = shown /\ assistant' = assistant
    BY <1>8 DEF Generate
  <2>2. ReplyTypes'
    BY <1>2, <1>4, <1>5, <2>1 DEF ReplyTypes
  <2>3. OnlyWholeCharacters'
    BY <1>3, <2>1 DEF OnlyWholeCharacters, IsText, StartsAt
  <2>4. Waits'
    <3>1. PICK t : t = more
      OBVIOUS
    <3>2. cached' = t /\ ~IsValidUtf8(t)
      BY <1>8, <2>1, <3>1
    <3> QED  BY <3>2 DEF Waits, IsValidUtf8
  <2>5. ~HasNul(received \o piece) => assistant = shown
    BY <1>1, <1>2, <1>3, NulOfBoth
  <2>6. SaidIsShown'
    BY <1>5, <1>6, <2>1, <2>5 DEF SaidIsShown, HasNul
  <2> QED  BY <2>2, <2>3, <2>4, <2>6 DEF ReplyInv
<1> QED  BY <1>7, <1>8

LEMMA ReplyUnchanged ==
    ASSUME ReplyInv,
           UNCHANGED <<cached, assistant, shown, received>>, generating' \in BOOLEAN
    PROVE  ReplyInv'
BY DEF ReplyInv, ReplyTypes, OnlyWholeCharacters, SaidIsShown, Waits, IsText,
       StartsAt, HasNul, IsValidUtf8

LEMMA ReplyInvariant == Spec => []ReplyInv
<1>1. ReplyInv /\ [Next]_vars => ReplyInv'
  <2> SUFFICES ASSUME ReplyInv, [Next]_vars  PROVE ReplyInv'
    OBVIOUS
  <2>1. CASE ProcessUserPrompt
    BY <2>1, ReplyPrompt
  <2>2. CASE Stop
    BY <2>2, ReplyUnchanged DEF Stop
  <2>3. ASSUME NEW piece \in Pieces, Generate(piece)  PROVE ReplyInv'
    BY <2>3, ReplyGenerate
  <2>4. CASE UNCHANGED vars
    <3>1. generating' \in BOOLEAN
      BY <2>4 DEF vars, ReplyInv, ReplyTypes
    <3> QED  BY <2>4, <3>1, ReplyUnchanged DEF vars
  <2> QED  BY <2>1, <2>2, <2>3, <2>4 DEF Next
<1> QED  BY <1>1, ReplyInit, PTL DEF Spec

\* Only whole characters reach the screen and NewStringUTF, for any pieces a
\* vocabulary may hold and replies of any length.
THEOREM WholeCharactersAreShown == Spec => []OnlyWholeCharacters
<1>1. ReplyInv => OnlyWholeCharacters
  BY DEF ReplyInv
<1> QED  BY <1>1, ReplyInvariant, PTL

\* Each byte is in the reply or waits behind it, and what the history will
\* say was said is what was shown, unless a zero byte cut it.
THEOREM WhatIsSaidIsShown == Spec => []SaidIsShown
<1>1. ReplyInv => SaidIsShown
  BY DEF ReplyInv
<1> QED  BY <1>1, ReplyInvariant, PTL

\* Nothing of a well-formed text is held back: what waits would be the rest
\* of a text after a text, thus a text, and is_valid_utf8 would have let it go.
THEOREM NothingOfATextWaits == Spec => []TextIsShown
<1>1. ASSUME ReplyInv, IsText(received)  PROVE shown = received
  <2>1. /\ cached \in Seq(Bytes) /\ assistant \in Seq(Bytes)
        /\ shown \in Seq(Bytes) /\ received \in Seq(Bytes)
    BY <1>1 DEF ReplyInv, ReplyTypes
  <2>2. /\ IsText(shown) /\ assistant \o cached = received
        /\ ~HasNul(received) => assistant = shown
    BY <1>1 DEF ReplyInv, OnlyWholeCharacters, SaidIsShown
  <2>3. ~HasNul(received)
    BY <1>1, <2>1, TextHasNoNul, NulMeans
  <2>4. IsText(cached)
    BY <1>1, <2>1, <2>2, <2>3, TextOfRest
  <2>5. cached = <<>>
    BY <1>1, <2>1, <2>4, TextIsAccepted DEF ReplyInv, Waits
  <2> QED  BY <2>1, <2>2, <2>3, <2>5, ConcatEmptySeq
<1>2. ReplyInv => TextIsShown
  BY <1>1 DEF TextIsShown
<1> QED  BY <1>2, ReplyInvariant, PTL

------------------------------------------------------------------------------
(* The format is well defined: where a value ends depends on later places. *)

\* What a file may begin with.
Cellular(f) == \A p \in DOMAIN f : f[p] \in Int

\* No end, or a place behind the start.
Behind(p, z) == {Bad, Unread} \cup (p + 1 .. z + 1)

\* Two tables of ends agree behind p, and one has places behind its places there.
Agree(g, h, p, z) == \A q \in p + 1 .. z + 1 : g[q] = h[q]
Forward(g, p, z) == \A q \in p + 1 .. z + 1 : \A u \in Types : \A m \in Nat :
                        g[q][u][m] \in Behind(q, z) \cup {q}

LEMMA TypesAre == Types = {Narrow, Wide, Str, Arr} /\ Narrow \in Types /\ Wide \in Types
                  /\ Str \in Types /\ Arr \in Types
BY DEF Types, Narrow, Wide, Str, Arr

LEMMA WithinBehind ==
    ASSUME NEW z \in Nat, NEW p \in 1 .. z + 1, NEW n \in Nat, n > p
    PROVE  Within(z, n) \in Behind(p, z)
BY DEF Within, Behind, Bad, Unread

LEMMA ValueBehind ==
    ASSUME NEW f, Cellular(f), NEW z \in Nat, NEW later, NEW p \in 1 .. z + 1, NEW t \in Types,
           Forward(later, p, z)
    PROVE  ValueEnd(f, z, later, p, t) \in Behind(p, z)
<1>1. Bad \in Behind(p, z) /\ Unread \in Behind(p, z)
  BY DEF Behind
<1>2. CASE t = Narrow
  <2>1. ValueEnd(f, z, later, p, t) = Within(z, p + 1)
    BY <1>2 DEF ValueEnd, Narrow, Wide, Str, Arr
  <2> QED  BY <2>1, WithinBehind
<1>3. CASE t = Wide
  <2>1. ValueEnd(f, z, later, p, t) = Within(z, p + 2)
    BY <1>3 DEF ValueEnd, Narrow, Wide, Str, Arr
  <2> QED  BY <2>1, WithinBehind
<1>4. CASE t = Str
  <2>1. ValueEnd(f, z, later, p, t) =
             IF p > z THEN Bad
             ELSE IF p \notin DOMAIN f THEN Unread
             ELSE IF f[p] < 0 THEN Bad ELSE Within(z, p + 1 + f[p])
    BY <1>4 DEF ValueEnd, Narrow, Wide, Str, Arr
  <2>2. p \in DOMAIN f /\ ~ (f[p] < 0) => p + 1 + f[p] \in Nat /\ p + 1 + f[p] > p
    BY DEF Cellular
  <2> QED  BY <1>1, <2>1, <2>2, WithinBehind
<1>5. CASE t = Arr
  <2>1. ValueEnd(f, z, later, p, t) =
             IF p > z THEN Bad
             ELSE IF p \notin DOMAIN f THEN Unread
             ELSE IF f[p] \notin Types \/ p + 1 > z THEN Bad
             ELSE IF p + 1 \notin DOMAIN f THEN Unread
             ELSE IF f[p + 1] < 0 THEN Bad
             ELSE later[p + 2][f[p]][f[p + 1]]
    BY <1>5 DEF ValueEnd, Narrow, Wide, Str, Arr
  <2>2. ASSUME f[p] \in Types, p + 1 <= z, p + 1 \in DOMAIN f, ~ (f[p + 1] < 0)
        PROVE  later[p + 2][f[p]][f[p + 1]] \in Behind(p, z)
    <3>1. p + 2 \in p + 1 .. z + 1 /\ f[p + 1] \in Nat
      BY <2>2 DEF Cellular
    <3>2. later[p + 2][f[p]][f[p + 1]] \in Behind(p + 2, z) \cup {p + 2}
      BY <2>2, <3>1 DEF Forward
    <3>3. Behind(p + 2, z) \cup {p + 2} \subseteq Behind(p, z)
      BY <3>1 DEF Behind
    <3> QED  BY <3>2, <3>3
  <2>3. p + 1 > z \/ p + 1 <= z
    OBVIOUS
  <2> QED  BY <1>1, <2>1, <2>2, <2>3
<1> QED  BY <1>2, <1>3, <1>4, <1>5, TypesAre

\* Only later places matter.
LEMMA ValueLater ==
    ASSUME NEW f, Cellular(f), NEW z \in Nat, NEW g, NEW h, NEW p \in 1 .. z + 1, NEW t \in Types,
           Agree(g, h, p, z)
    PROVE  ValueEnd(f, z, g, p, t) = ValueEnd(f, z, h, p, t)
<1>1. CASE t = Arr
  <2>1. p + 1 <= z => g[p + 2] = h[p + 2]
    BY DEF Agree
  <2> QED  BY <1>1, <2>1 DEF ValueEnd, Narrow, Wide, Str, Arr
<1>2. CASE t # Arr
  BY <1>2, TypesAre DEF ValueEnd
<1> QED  BY <1>1, <1>2

LEMMA ValuesLater ==
    ASSUME NEW f, Cellular(f), NEW z \in Nat, NEW g, NEW h, NEW p \in 1 .. z + 1,
           NEW t \in Types, NEW n \in Nat,
           Agree(g, h, p, z), Forward(g, p, z)
    PROVE  /\ ValuesEnd(f, z, g, p, t, n) = ValuesEnd(f, z, h, p, t, n)
           /\ ValuesEnd(f, z, g, p, t, n) \in Behind(p, z) \cup {p}
<1>1. PICK first : first = ValueEnd(f, z, g, p, t)
  OBVIOUS
<1>2. first = ValueEnd(f, z, h, p, t) /\ first \in Behind(p, z)
  BY <1>1, ValueLater, ValueBehind
<1>3. CASE n = 0
  BY <1>3 DEF ValuesEnd
<1>4. CASE n # 0 /\ first <= 0
  BY <1>1, <1>2, <1>4 DEF ValuesEnd
<1>5. CASE n # 0 /\ ~ (first <= 0)
  <2>1. first \in p + 1 .. z + 1 /\ n - 1 \in Nat
    BY <1>2, <1>5 DEF Behind, Bad, Unread
  <2>2. /\ ValuesEnd(f, z, g, p, t, n) = g[first][t][n - 1]
        /\ ValuesEnd(f, z, h, p, t, n) = h[first][t][n - 1]
    BY <1>1, <1>2, <1>5 DEF ValuesEnd
  <2>3. g[first][t][n - 1] \in Behind(first, z) \cup {first}
    BY <2>1 DEF Forward
  <2>4. Behind(first, z) \cup {first} \subseteq Behind(p, z)
    BY <2>1 DEF Behind
  <2>5. g[first] = h[first]
    BY <2>1 DEF Agree
  <2> QED  BY <2>2, <2>3, <2>4, <2>5
<1> QED  BY <1>3, <1>4, <1>5

IsEnds(g, f, z) ==
    g = [p \in 1 .. z + 1 |-> [t \in Types |-> [n \in Nat |-> ValuesEnd(f, z, g, p, t, n)]]]

LEMMA EndsExist ==
    ASSUME NEW f, Cellular(f), NEW z \in Nat
    PROVE  \E g : IsEnds(g, f, z)
<1> DEFINE e == z + 1
           At(g, p) == [t \in Types |-> [n \in Nat |-> ValuesEnd(f, z, g, p, t, n)]]
           Goes(g, p) == \A t \in Types : \A n \in Nat : g[p][t][n] \in Behind(p, z) \cup {p}
           From(k, g) == \A p \in k .. e : g[p] = At(g, p) /\ Goes(g, p)
           P == {k \in 1 .. e : \E g : From(k, g)}
<1>1. e \in Nat /\ e >= 1
  OBVIOUS
\* One place more.
<1>2. ASSUME NEW i \in 1 .. e, NEW g, From(i + 1, g)  PROVE \E h : From(i, h)
  <2> DEFINE h == [p \in 1 .. e |-> IF p = i THEN At(g, i) ELSE g[p]]
  <2>1. \A p \in i + 1 .. e : h[p] = g[p]
    <3> HIDE DEF At
    <3> QED  BY <1>1
  <2>2. h[i] = At(g, i)
    <3> HIDE DEF At
    <3> QED  BY <1>1
  <2> HIDE DEF h
  <2>3. ASSUME NEW p \in i .. e, NEW t \in Types, NEW n \in Nat
        PROVE  /\ ValuesEnd(f, z, g, p, t, n) = ValuesEnd(f, z, h, p, t, n)
               /\ ValuesEnd(f, z, g, p, t, n) \in Behind(p, z) \cup {p}
    <3>1. p \in 1 .. z + 1 /\ \A q \in p + 1 .. z + 1 : q \in i + 1 .. e
      BY <1>1
    <3>2. Agree(g, h, p, z)
      BY <2>1, <3>1 DEF Agree
    <3>3. Forward(g, p, z)
      <4> HIDE DEF At, e
      <4> QED  BY <1>2, <3>1 DEF Forward
    <3> HIDE DEF e, At, Goes, From
    <3> QED  BY <3>1, <3>2, <3>3, ValuesLater
  <2>4. ASSUME NEW p \in i .. e  PROVE h[p] = At(h, p) /\ Goes(h, p)
    <3>1. At(g, p) = At(h, p)
      BY <2>3
    <3>2. h[p] = At(g, p)
      <4> HIDE DEF At, Goes
      <4>1. CASE p = i
        BY <2>2, <4>1
      <4>2. CASE p # i
        <5>1. p \in i + 1 .. e
          BY <4>2, <1>1
        <5> QED  BY <5>1, <1>2, <2>1
      <4> QED  BY <4>1, <4>2
    <3>3. ASSUME NEW t \in Types, NEW n \in Nat  PROVE h[p][t][n] \in Behind(p, z) \cup {p}
      <4>1. h[p][t][n] = ValuesEnd(f, z, g, p, t, n)
        BY <3>2
      <4> QED  BY <2>3, <4>1
    <3> HIDE DEF At
    <3> QED  BY <3>1, <3>2, <3>3
  <2> HIDE DEF At, Goes
  <2> QED  BY <2>4
<1>3. e \in P
  <2>1. From(e + 1, <<>>)
    BY <1>1
  <2>2. \E h : From(e, h)
    <3> HIDE DEF From
    <3>1. e \in 1 .. e
      BY <1>1
    <3> QED  BY <1>2, <2>1, <3>1
  <2> HIDE DEF From
  <2> QED  BY <1>1, <2>2
<1>4. ASSUME NEW i \in 1 .. e - 1, \A j \in i + 1 .. e : j \in P  PROVE i \in P
  <2>1. i + 1 \in P
    <3> HIDE DEF P
    <3>1. i + 1 \in i + 1 .. e
      BY <1>1
    <3> QED  BY <1>4, <3>1
  <2> HIDE DEF From
  <2>2. PICK g : From(i + 1, g)
    BY <2>1
  <2>3. i \in 1 .. e
    BY <1>1
  <2> QED  BY <1>2, <2>2, <2>3
<1>5. 1 \in P
  <2> HIDE DEF P
  <2>1. P \in SUBSET (1 .. e)
    BY DEF P
  <2>2. P = 1 .. e
    BY <1>1, <1>3, <1>4, <2>1, Backwards
  <2> QED  BY <1>1, <2>2
<1>6. PICK g : From(1, g)
  BY <1>5
<1> DEFINE h == [p \in 1 .. e |-> At(g, p)]
<1>7. \A p \in 1 .. e : h[p] = g[p]
  <2> HIDE DEF At, Goes
  <2> QED  BY <1>6
<1>8. \A p \in 1 .. e : At(g, p) = At(h, p)
  <2>1. ASSUME NEW p \in 1 .. e, NEW t \in Types, NEW n \in Nat
        PROVE  ValuesEnd(f, z, g, p, t, n) = ValuesEnd(f, z, h, p, t, n)
    <3>1. Agree(g, h, p, z)
      <4> HIDE DEF h
      <4> QED  BY <1>7 DEF Agree
    <3>2. Forward(g, p, z)
      <4> HIDE DEF At
      <4> QED  BY <1>6 DEF Forward
    <3>3. p \in 1 .. z + 1
      OBVIOUS
    <3> HIDE DEF e, At, Goes, From, h
    <3> QED  BY <3>1, <3>2, <3>3, ValuesLater
  <2> HIDE DEF h
  <2> QED  BY <2>1
<1>9. h = [p \in 1 .. e |-> At(h, p)]
  <2> HIDE DEF At
  <2> QED  BY <1>8
<1>10. IsEnds(h, f, z)
  <2> HIDE DEF h
  <2> QED  BY <1>9 DEF IsEnds
<1> HIDE DEF h
<1> QED  BY <1>10

LEMMA EndsAre ==
    ASSUME NEW f, Cellular(f), NEW z \in Nat
    PROVE  \A p \in 1 .. z + 1 : \A t \in Types : \A n \in Nat :
               /\ Ends(f, z)[p][t][n] = ValuesEnd(f, z, Ends(f, z), p, t, n)
               /\ Ends(f, z)[p][t][n] \in Behind(p, z) \cup {p}
<1> DEFINE E == CHOOSE g : IsEnds(g, f, z)
<1>1. Ends(f, z) = E
  BY DEF Ends, IsEnds
<1>2. \E g : IsEnds(g, f, z)
  BY EndsExist
<1>3. IsEnds(E, f, z)
  BY <1>2
<1> HIDE DEF E
<1>4. ASSUME NEW p \in 1 .. z + 1, NEW t \in Types, NEW n \in Nat
      PROVE  E[p][t][n] = ValuesEnd(f, z, E, p, t, n)
  <2>1. E[p] = [u \in Types |-> [m \in Nat |-> ValuesEnd(f, z, E, p, u, m)]]
    BY <1>3 DEF IsEnds
  <2> QED  BY <2>1
<1> DEFINE e == z + 1
           P == {p \in 1 .. e : \A t \in Types : \A n \in Nat : E[p][t][n] \in Behind(p, z) \cup {p}}
<1>5. e \in Nat /\ e >= 1
  OBVIOUS
<1>6. ASSUME NEW i \in 1 .. e, \A j \in i + 1 .. e : j \in P  PROVE i \in P
  <2>1. Forward(E, i, z)
    BY <1>6 DEF Forward
  <2>2. Agree(E, E, i, z)
    BY DEF Agree
  <2>3. ASSUME NEW t \in Types, NEW n \in Nat  PROVE E[i][t][n] \in Behind(i, z) \cup {i}
    <3> HIDE DEF P
    <3>1. i \in 1 .. z + 1
      OBVIOUS
    <3>2. ValuesEnd(f, z, E, i, t, n) \in Behind(i, z) \cup {i}
      BY <2>1, <2>2, <3>1, ValuesLater
    <3> QED  BY <1>4, <3>1, <3>2
  <2> QED  BY <2>3
<1>7. P = 1 .. e
  <2>1. e \in P
    <3> HIDE DEF P
    <3>1. e \in 1 .. e /\ \A j \in e + 1 .. e : j \in P
      BY <1>5
    <3> QED  BY <1>6, <3>1
  <2>2. P \in SUBSET (1 .. e)
    OBVIOUS
  <2> HIDE DEF P
  <2>3. \A i \in 1 .. e - 1 : (\A j \in i + 1 .. e : j \in P) => i \in P
    <3>1. \A i \in 1 .. e - 1 : i \in 1 .. e
      BY <1>5
    <3> QED  BY <1>6, <3>1
  <2> QED  BY <1>5, <2>1, <2>2, <2>3, Backwards
<1> QED  BY <1>1, <1>4, <1>7

LEMMA AfterValues ==
    ASSUME NEW f, Cellular(f), NEW z \in Nat, NEW p \in 1 .. z + 1, NEW t \in Types
    PROVE  /\ Ends(f, z)[p][t][0] = p
           /\ ValueEnd(f, z, Ends(f, z), p, t) \in Behind(p, z)
           /\ \A n \in Nat \ {0} :
                  Ends(f, z)[p][t][n] =
                      IF ValueEnd(f, z, Ends(f, z), p, t) <= 0
                      THEN ValueEnd(f, z, Ends(f, z), p, t)
                      ELSE Ends(f, z)[ValueEnd(f, z, Ends(f, z), p, t)][t][n - 1]
           /\ Ends(f, z)[p][t][1] = ValueEnd(f, z, Ends(f, z), p, t)
<1>1. PICK E : E = Ends(f, z)
  OBVIOUS
<1>2. /\ \A n \in Nat : E[p][t][n] = ValuesEnd(f, z, E, p, t, n)
      /\ \A q \in 1 .. z + 1 : E[q][t][0] = ValuesEnd(f, z, E, q, t, 0)
  BY <1>1, EndsAre
<1>3. Forward(E, p, z)
  <2>1. \A q \in p + 1 .. z + 1 : q \in 1 .. z + 1
    OBVIOUS
  <2> QED  BY <1>1, <2>1, EndsAre DEF Forward
<1>4. PICK first : first = ValueEnd(f, z, E, p, t)
  OBVIOUS
<1>5. first \in Behind(p, z)
  BY <1>3, <1>4, ValueBehind
<1>6. E[p][t][0] = p
  BY <1>2 DEF ValuesEnd
<1>7. ASSUME NEW n \in Nat \ {0}
      PROVE  E[p][t][n] = IF first <= 0 THEN first ELSE E[first][t][n - 1]
  BY <1>2, <1>4 DEF ValuesEnd
<1>8. E[p][t][1] = first
  <2>1. CASE first <= 0
    BY <1>7, <2>1
  <2>2. CASE ~ (first <= 0)
    <3>1. first \in 1 .. z + 1
      BY <1>5, <2>2 DEF Behind, Bad, Unread
    <3>2. E[first][t][0] = first
      BY <1>2, <3>1 DEF ValuesEnd
    <3> QED  BY <1>7, <2>2, <3>2
  <2> QED  BY <2>1, <2>2
<1> QED  BY <1>1, <1>4, <1>5, <1>6, <1>7, <1>8

LEMMA PairBehind ==
    ASSUME NEW f, Cellular(f), NEW z \in Nat, NEW p \in 1 .. z + 1
    PROVE  /\ PairEnd(f, z, p) \in Behind(p, z)
           /\ TypeAt(f, z, p) \in Behind(p, z)
<1>1. PICK t : t = TypeAt(f, z, p)
  OBVIOUS
<1>2. t \in Behind(p, z)
  BY <1>1, AfterValues, TypesAre DEF TypeAt
<1>3. Bad \in Behind(p, z) /\ Unread \in Behind(p, z)
  BY DEF Behind
<1>4. ASSUME ~ (t <= 0), ~ (t > z), f[t] \in Types
      PROVE  Ends(f, z)[t + 1][f[t]][1] \in Behind(p, z)
  <2>1. t + 1 \in 1 .. z + 1 /\ t \in p + 1 .. z
    BY <1>2, <1>4 DEF Behind, Bad, Unread
  <2>2. Ends(f, z)[t + 1][f[t]][1] \in Behind(t + 1, z)
    BY <1>4, <2>1, AfterValues
  <2>3. Behind(t + 1, z) \subseteq Behind(p, z)
    BY <2>1 DEF Behind
  <2> QED  BY <2>2, <2>3
<1>5. PairEnd(f, z, p) =
          IF t <= 0 THEN t
          ELSE IF t > z THEN Bad
          ELSE IF t \notin DOMAIN f THEN Unread
          ELSE IF f[t] \notin Types THEN Bad ELSE Ends(f, z)[t + 1][f[t]][1]
  BY <1>1 DEF PairEnd
<1> QED  BY <1>1, <1>2, <1>3, <1>4, <1>5

------------------------------------------------------------------------------
(* The pairs.                                                              *)

Spans == Int \X Int

LEMMA PairsLater ==
    ASSUME NEW f, Cellular(f), NEW z \in Nat, NEW g, NEW h, NEW p \in 1 .. z + 1, NEW n \in Nat,
           Agree(g, h, p, z)
    PROVE  PairsFrom(f, z, g, p, n) = PairsFrom(f, z, h, p, n)
<1>1. PICK e : e = PairEnd(f, z, p)
  OBVIOUS
<1>2. e \in Behind(p, z)
  BY <1>1, PairBehind
<1>3. ~ (e <= 0) => g[e] = h[e]
  BY <1>2 DEF Behind, Bad, Unread, Agree
<1> QED  BY <1>1, <1>3 DEF PairsFrom

IsPairs(g, f, z) ==
    g = [p \in 1 .. z + 1 |-> [n \in Nat |-> PairsFrom(f, z, g, p, n)]]

LEMMA PairsExist ==
    ASSUME NEW f, Cellular(f), NEW z \in Nat
    PROVE  \E g : IsPairs(g, f, z)
<1> DEFINE e == z + 1
           At(g, p) == [n \in Nat |-> PairsFrom(f, z, g, p, n)]
           From(k, g) == \A p \in k .. e : g[p] = At(g, p)
           P == {k \in 1 .. e : \E g : From(k, g)}
<1>1. e \in Nat /\ e >= 1
  OBVIOUS
<1>2. ASSUME NEW i \in 1 .. e, NEW g, From(i + 1, g)  PROVE \E h : From(i, h)
  <2> DEFINE h == [p \in 1 .. e |-> IF p = i THEN At(g, i) ELSE g[p]]
  <2>1. \A p \in i + 1 .. e : h[p] = g[p]
    <3> HIDE DEF At
    <3> QED  BY <1>1
  <2>2. h[i] = At(g, i)
    <3> HIDE DEF At
    <3> QED  BY <1>1
  <2> HIDE DEF h
  <2>3. ASSUME NEW p \in i .. e, NEW n \in Nat
        PROVE  PairsFrom(f, z, g, p, n) = PairsFrom(f, z, h, p, n)
    <3>1. p \in 1 .. z + 1 /\ \A q \in p + 1 .. z + 1 : q \in i + 1 .. e
      BY <1>1
    <3>2. Agree(g, h, p, z)
      BY <2>1, <3>1 DEF Agree
    <3> HIDE DEF e, At, From
    <3> QED  BY <3>1, <3>2, PairsLater
  <2>4. ASSUME NEW p \in i .. e  PROVE h[p] = At(h, p)
    <3>1. At(g, p) = At(h, p)
      BY <2>3
    <3> HIDE DEF At
    <3>2. CASE p = i
      BY <2>2, <3>1, <3>2
    <3>3. CASE p # i
      <4>1. p \in i + 1 .. e
        BY <3>3, <1>1
      <4> QED  BY <3>1, <4>1, <1>2, <2>1
    <3> QED  BY <3>2, <3>3
  <2> HIDE DEF At
  <2> QED  BY <2>4
<1>3. e \in P
  <2>1. From(e + 1, <<>>)
    BY <1>1
  <2>2. \E h : From(e, h)
    <3> HIDE DEF From
    <3>1. e \in 1 .. e
      BY <1>1
    <3> QED  BY <1>2, <2>1, <3>1
  <2> HIDE DEF From
  <2> QED  BY <1>1, <2>2
<1>4. ASSUME NEW i \in 1 .. e - 1, \A j \in i + 1 .. e : j \in P  PROVE i \in P
  <2>1. i + 1 \in P
    <3> HIDE DEF P
    <3>1. i + 1 \in i + 1 .. e
      BY <1>1
    <3> QED  BY <1>4, <3>1
  <2> HIDE DEF From
  <2>2. PICK g : From(i + 1, g)
    BY <2>1
  <2>3. i \in 1 .. e
    BY <1>1
  <2> QED  BY <1>2, <2>2, <2>3
<1>5. 1 \in P
  <2> HIDE DEF P
  <2>1. P \in SUBSET (1 .. e)
    BY DEF P
  <2>2. P = 1 .. e
    BY <1>1, <1>3, <1>4, <2>1, Backwards
  <2> QED  BY <1>1, <2>2
<1>6. PICK g : From(1, g)
  BY <1>5
<1> DEFINE h == [p \in 1 .. e |-> At(g, p)]
<1>7. \A p \in 1 .. e : h[p] = g[p]
  <2> HIDE DEF At
  <2> QED  BY <1>6
<1>8. \A p \in 1 .. e : At(g, p) = At(h, p)
  <2>1. ASSUME NEW p \in 1 .. e, NEW n \in Nat
        PROVE  PairsFrom(f, z, g, p, n) = PairsFrom(f, z, h, p, n)
    <3>1. Agree(g, h, p, z)
      <4> HIDE DEF h
      <4> QED  BY <1>7 DEF Agree
    <3>2. p \in 1 .. z + 1
      OBVIOUS
    <3> HIDE DEF e, At, From, h
    <3> QED  BY <3>1, <3>2, PairsLater
  <2> HIDE DEF h
  <2> QED  BY <2>1
<1>9. h = [p \in 1 .. e |-> At(h, p)]
  <2> HIDE DEF At
  <2> QED  BY <1>8
<1>10. IsPairs(h, f, z)
  <2> HIDE DEF h
  <2> QED  BY <1>9 DEF IsPairs
<1> HIDE DEF h
<1> QED  BY <1>10

LEMMA PairsAre ==
    ASSUME NEW f, Cellular(f), NEW z \in Nat
    PROVE  \A p \in 1 .. z + 1 : \A n \in Nat :
               /\ Pairs(f, z)[p][n] = PairsFrom(f, z, Pairs(f, z), p, n)
               /\ Pairs(f, z)[p][n] = [verdict |-> Pairs(f, z)[p][n].verdict,
                                       spans |-> Pairs(f, z)[p][n].spans]
               /\ Pairs(f, z)[p][n].spans \in Seq(Spans)
<1> DEFINE E == CHOOSE g : IsPairs(g, f, z)
           Fits(r) == r = [verdict |-> r.verdict, spans |-> r.spans] /\ r.spans \in Seq(Spans)
<1>1. Pairs(f, z) = E
  BY DEF Pairs, IsPairs
<1>2. \E g : IsPairs(g, f, z)
  BY PairsExist
<1>3. IsPairs(E, f, z)
  BY <1>2
<1> HIDE DEF E
<1>4. ASSUME NEW p \in 1 .. z + 1, NEW n \in Nat
      PROVE  E[p][n] = PairsFrom(f, z, E, p, n)
  <2>1. E[p] = [m \in Nat |-> PairsFrom(f, z, E, p, m)]
    BY <1>3 DEF IsPairs
  <2> QED  BY <2>1
<1> DEFINE e == z + 1
           P == {p \in 1 .. e : \A n \in Nat : Fits(E[p][n])}
<1>5. e \in Nat /\ e >= 1
  OBVIOUS
<1>6. ASSUME NEW i \in 1 .. e, \A j \in i + 1 .. e : j \in P  PROVE i \in P
  <2> SUFFICES ASSUME NEW n \in Nat  PROVE Fits(E[i][n])
    OBVIOUS
  <2>1. PICK q : q = PairEnd(f, z, i)
    OBVIOUS
  <2>2. PICK t : t = TypeAt(f, z, i)
    OBVIOUS
  <2>3. q \in Behind(i, z) /\ t \in Behind(i, z) /\ t \in Int
    <3>1. q \in Behind(i, z) /\ t \in Behind(i, z)
      BY <2>1, <2>2, PairBehind
    <3> QED  BY <3>1 DEF Behind, Bad, Unread
  <2>4. CASE n = 0
    <3>1. E[i][n] = [verdict |-> Good, spans |-> <<>>]
      BY <1>4, <2>4 DEF PairsFrom
    <3> QED  BY <3>1
  <2>5. CASE n # 0 /\ q <= 0
    <3>1. E[i][n] = [verdict |-> q, spans |-> <<>>]
      BY <1>4, <2>1, <2>5 DEF PairsFrom
    <3> QED  BY <3>1
  <2>6. CASE n # 0 /\ ~ (q <= 0)
    <3>1. q \in i + 1 .. e /\ n - 1 \in Nat
      BY <2>3, <2>6 DEF Behind, Bad, Unread
    <3>2. PICK r : r = E[q][n - 1]
      OBVIOUS
    <3>3. Fits(r)
      BY <1>6, <3>1, <3>2
    <3>4. E[i][n] = [verdict |-> r.verdict, spans |-> <<<<t + 1, q - 1>>>> \o r.spans]
      BY <1>4, <2>1, <2>2, <2>6, <3>2 DEF PairsFrom
    <3>5. PICK x : x = <<<<t + 1, q - 1>>>>
      OBVIOUS
    <3>6. x \in Seq(Spans)
      BY <2>3, <3>1, <3>5 DEF Spans
    <3>7. x \o r.spans \in Seq(Spans)
      BY <3>3, <3>6, ConcatProperties
    <3> QED  BY <3>4, <3>5, <3>7
  <2> QED  BY <2>4, <2>5, <2>6
<1>7. P = 1 .. e
  <2>1. e \in P
    <3> HIDE DEF P
    <3>1. e \in 1 .. e /\ \A j \in e + 1 .. e : j \in P
      BY <1>5
    <3> QED  BY <1>6, <3>1
  <2>2. P \in SUBSET (1 .. e)
    OBVIOUS
  <2> HIDE DEF P
  <2>3. \A i \in 1 .. e - 1 : (\A j \in i + 1 .. e : j \in P) => i \in P
    <3>1. \A i \in 1 .. e - 1 : i \in 1 .. e
      BY <1>5
    <3> QED  BY <1>6, <3>1
  <2> QED  BY <1>5, <2>1, <2>2, <2>3, Backwards
<1>8. \A p \in 1 .. z + 1 : \A n \in Nat : Fits(E[p][n])
  <2> HIDE DEF Fits
  <2> QED  BY <1>7
<1> QED  BY <1>1, <1>4, <1>8

------------------------------------------------------------------------------
(* What the format makes of the rest, from where the reader is.            *)

Frames == [type : Types, left : Nat, skip : BOOLEAN]
Places(z) == {Bad, Unread} \cup (1 .. z + 1)

\* Where the values that are left of a frame end.
After(f, z, p, x) == IF p <= 0 THEN p ELSE Ends(f, z)[p][x.type][x.left]

\* Where each of the frames ends, of the innermost first.
Chain(f, z, p, w, at) ==
    /\ at \in [0 .. Len(w) -> Places(z)] /\ at[0] = p
    /\ \A i \in 1 .. Len(w) : at[i] = After(f, z, at[i - 1], w[i])

\* The spans when the value that is open ends before e.
Closed(w, s, e) == IF w = <<>> THEN s ELSE [s EXCEPT ![Len(s)] = <<@[1], e - 1>>]

\* The verdict when the frames end at e and k pairs are left.
Verdict(f, z, e, k, w, s) ==
    IF e <= 0 THEN Format(f, z).verdict = e
    ELSE Format(f, z) = [verdict |-> Pairs(f, z)[e][k].verdict,
                         spans |-> Closed(w, s, e) \o Pairs(f, z)[e][k].spans]

\* The format goes on as the reader does.
Tells(f, z, p, k, w, s) ==
    \E at : Chain(f, z, p, w, at) /\ Verdict(f, z, at[Len(w)], k, w, s)

LEMMA AfterPlace ==
    ASSUME NEW f, Cellular(f), NEW z \in Nat, NEW p \in Places(z), NEW x \in Frames
    PROVE  After(f, z, p, x) \in Places(z)
<1>1. CASE p <= 0
  BY <1>1 DEF After
<1>2. CASE ~ (p <= 0)
  <2>1. p \in 1 .. z + 1 /\ x.type \in Types /\ x.left \in Nat
    BY <1>2 DEF Places, Bad, Unread, Frames
  <2>2. After(f, z, p, x) \in Behind(p, z) \cup {p}
    BY <1>2, <2>1, EndsAre DEF After
  <2> QED  BY <2>1, <2>2 DEF Behind, Places
<1> QED  BY <1>1, <1>2

\* The frames after one more value.
Shorter(w) == [w EXCEPT ![1].left = @ - 1]

LEMMA ShorterFrame ==
    ASSUME NEW w \in Seq(Frames), w # <<>>, w[1].left > 0,
           NEW v, v = Shorter(w)
    PROVE  /\ v \in Seq(Frames) /\ Len(v) = Len(w) /\ Len(w) \in Nat \ {0}
           /\ v[1] = [type |-> w[1].type, left |-> w[1].left - 1, skip |-> w[1].skip]
           /\ \A i \in 2 .. Len(w) : v[i] = w[i]
           /\ v # <<>>
<1>1. Len(w) \in Nat \ {0} /\ w \in [1 .. Len(w) -> Frames] /\ 1 \in 1 .. Len(w)
  BY EmptySeq
<1>2. PICK x \in Frames : x = w[1]
  BY <1>1
<1>3. PICK y : y = [type |-> x.type, left |-> x.left - 1, skip |-> x.skip]
  OBVIOUS
<1>4. y \in Frames /\ y = [x EXCEPT !.left = @ - 1]
  <2>1. x.left \in Nat /\ x.left > 0
    BY <1>2 DEF Frames
  <2>2. x.left - 1 \in Nat
    BY <2>1
  <2>3. y \in Frames
    BY <1>3, <2>2 DEF Frames
  <2>4. y = [x EXCEPT !.left = @ - 1]
    BY <1>3 DEF Frames
  <2> QED  BY <2>3, <2>4
<1>5. v = [w EXCEPT ![1] = y]
  BY <1>1, <1>2, <1>4 DEF Shorter
<1>6. v \in [1 .. Len(w) -> Frames] /\ v[1] = y /\ \A i \in 2 .. Len(w) : v[i] = w[i]
  BY <1>1, <1>4, <1>5
<1>7. v \in Seq(Frames) /\ Len(v) = Len(w)
  BY <1>1, <1>4, <1>5
<1> QED  BY <1>1, <1>2, <1>3, <1>6, <1>7

\* A frame without values is left.
LEMMA FrameEnds ==
    ASSUME NEW f, Cellular(f), NEW z \in Nat, NEW p \in 1 .. z + 1, NEW k \in Nat,
           NEW w \in Seq(Frames), NEW s, Tells(f, z, p, k, w, s),
           w # <<>>, w[1].left = 0,
           NEW v, v = Tail(w), NEW r, r = IF Len(w) = 1 THEN Closed(w, s, p) ELSE s
    PROVE  Tells(f, z, p, k, v, r)
<1>1. PICK at : Chain(f, z, p, w, at) /\ Verdict(f, z, at[Len(w)], k, w, s)
  BY DEF Tells
<1>2. PICK n \in Nat : n = Len(v) /\ Len(w) = n + 1
  BY EmptySeq
<1>3. /\ at \in [0 .. n + 1 -> Places(z)] /\ at[0] = p
      /\ \A i \in 1 .. n + 1 : at[i] = After(f, z, at[i - 1], w[i])
  BY <1>1, <1>2 DEF Chain
<1>4. \A i \in 1 .. n : v[i] = w[i + 1]
  BY <1>2
<1>5. w[1] \in Frames
  BY <1>2
<1>6. at[1] = p
  <2>1. at[1] = After(f, z, p, w[1])
    <3>1. 1 \in 1 .. n + 1 /\ 1 - 1 = 0
      BY <1>2
    <3> QED  BY <1>3, <3>1
  <2>2. w[1].type \in Types
    BY <1>5 DEF Frames
  <2>3. Ends(f, z)[p][w[1].type][0] = p
    BY <2>2, AfterValues
  <2> QED  BY <2>1, <2>3 DEF After
<1> DEFINE to == [i \in 0 .. n |-> at[i + 1]]
<1>7. to \in [0 .. n -> Places(z)] /\ to[0] = p /\ to[n] = at[n + 1]
  BY <1>3, <1>6
<1>8. ASSUME NEW i \in 1 .. n  PROVE to[i] = After(f, z, to[i - 1], v[i])
  <2>1. at[i + 1] = After(f, z, at[i], w[i + 1])
    <3>1. i + 1 \in 1 .. n + 1 /\ (i + 1) - 1 = i
      OBVIOUS
    <3> QED  BY <1>3, <3>1
  <2>2. to[i] = at[i + 1] /\ to[i - 1] = at[i]
    <3>1. i \in 0 .. n /\ i - 1 \in 0 .. n /\ (i - 1) + 1 = i
      OBVIOUS
    <3> QED  BY <3>1
  <2> QED  BY <1>4, <2>1, <2>2
<1> HIDE DEF to
<1>9. Chain(f, z, p, v, to)
  BY <1>2, <1>7, <1>8 DEF Chain
<1>10. Verdict(f, z, to[Len(v)], k, v, r)
  <2>1. Verdict(f, z, to[n], k, w, s)
    BY <1>1, <1>2, <1>7
  <2>2. CASE n = 0
    <3>1. to[n] = p /\ v = <<>> /\ r = Closed(w, s, p)
      BY <1>2, <1>7, <2>2, EmptySeq
    <3> QED  BY <1>2, <2>1, <3>1 DEF Verdict, Closed
  <2>3. CASE n # 0
    <3>1. v # <<>>
      <4>1. Len(v) # 0
        BY <1>2, <2>3
      <4> QED  BY <4>1
    <3>2. r = s
      BY <1>2, <2>3
    <3> QED  BY <1>2, <2>1, <3>1, <3>2 DEF Verdict, Closed
  <2> QED  BY <2>2, <2>3
<1> QED  BY <1>9, <1>10 DEF Tells

\* One value of the innermost frame is behind the reader.
LEMMA ValueGoes ==
    ASSUME NEW f, Cellular(f), NEW z \in Nat, NEW p \in 1 .. z + 1, NEW k \in Nat,
           NEW w \in Seq(Frames), NEW s, Tells(f, z, p, k, w, s),
           w # <<>>, w[1].left > 0,
           NEW q, q = ValueEnd(f, z, Ends(f, z), p, w[1].type), q > 0,
           NEW v, v = Shorter(w)
    PROVE  Tells(f, z, q, k, v, s)
<1>1. PICK at : Chain(f, z, p, w, at) /\ Verdict(f, z, at[Len(w)], k, w, s)
  BY DEF Tells
<1>2. /\ v \in Seq(Frames) /\ Len(v) = Len(w) /\ Len(w) \in Nat \ {0}
      /\ v[1] = [type |-> w[1].type, left |-> w[1].left - 1, skip |-> w[1].skip]
      /\ \A i \in 2 .. Len(w) : v[i] = w[i]
      /\ v # <<>>
  BY ShorterFrame
<1>3. PICK n \in Nat \ {0} : n = Len(w) /\ n = Len(v)
  BY <1>2
<1>4. /\ at \in [0 .. n -> Places(z)] /\ at[0] = p
      /\ \A i \in 1 .. n : at[i] = After(f, z, at[i - 1], w[i])
  BY <1>1, <1>3 DEF Chain
<1>5. PICK x \in Frames : x = w[1]
  BY <1>3
<1>6. x.type \in Types /\ x.left \in Nat \ {0}
  BY <1>5 DEF Frames
<1>7. q \in p + 1 .. z + 1
  <2>1. q \in Behind(p, z)
    BY <1>5, <1>6, AfterValues
  <2> QED  BY <2>1 DEF Behind, Bad, Unread
<1>8. at[1] = After(f, z, q, v[1])
  <2>1. at[1] = After(f, z, p, x)
    <3>1. 1 \in 1 .. n /\ 1 - 1 = 0
      OBVIOUS
    <3> QED  BY <1>4, <1>5, <3>1
  <2>2. After(f, z, p, x) = Ends(f, z)[p][x.type][x.left]
    BY DEF After
  <2>3. Ends(f, z)[p][x.type][x.left] = Ends(f, z)[q][x.type][x.left - 1]
    <3>1. ~ (q <= 0)
      BY <1>7
    <3>2. \A m \in Nat \ {0} : Ends(f, z)[p][x.type][m] =
                IF q <= 0 THEN q ELSE Ends(f, z)[q][x.type][m - 1]
      BY <1>5, <1>6, AfterValues
    <3> QED  BY <1>6, <3>1, <3>2
  <2>4. v[1].type = x.type /\ v[1].left = x.left - 1 /\ ~ (q <= 0)
    BY <1>2, <1>5, <1>7
  <2> QED  BY <2>1, <2>2, <2>3, <2>4 DEF After
<1> DEFINE to == [at EXCEPT ![0] = q]
<1>9. /\ to \in [0 .. n -> Places(z)] /\ to[0] = q
      /\ \A i \in 1 .. n : to[i] = at[i]
  <2>1. q \in Places(z)
    BY <1>7 DEF Places
  <2> QED  BY <1>4, <2>1
<1> HIDE DEF to
<1>10. ASSUME NEW i \in 1 .. n  PROVE to[i] = After(f, z, to[i - 1], v[i])
  <2>1. CASE i = 1
    BY <1>8, <1>9, <2>1
  <2>2. CASE i # 1
    <3>1. i \in 2 .. n /\ i - 1 \in 1 .. n
      <4>1. i \in Nat /\ i >= 1 /\ i <= n /\ i # 1
        BY <2>2
      <4> QED  BY <4>1
    <3>2. to[i - 1] = at[i - 1] /\ to[i] = at[i] /\ v[i] = w[i]
      BY <1>2, <1>3, <1>9, <3>1
    <3> QED  BY <1>4, <3>2
  <2> QED  BY <2>1, <2>2
<1>11. Chain(f, z, q, v, to)
  BY <1>3, <1>9, <1>10 DEF Chain
<1>12. Verdict(f, z, to[Len(v)], k, v, s)
  <2>1. to[n] = at[n]
    BY <1>9
  <2>2. Verdict(f, z, to[n], k, w, s)
    BY <1>1, <1>3, <2>1
  <2> QED  BY <1>2, <1>3, <2>2 DEF Verdict, Closed
<1> QED  BY <1>11, <1>12 DEF Tells

LEMMA AfterFirst ==
    ASSUME NEW f, Cellular(f), NEW z \in Nat, NEW p \in 1 .. z + 1, NEW t \in Types,
           NEW e, e = ValueEnd(f, z, Ends(f, z), p, t)
    PROVE  \A n \in Nat \ {0} : Ends(f, z)[p][t][n] =
               IF e <= 0 THEN e ELSE Ends(f, z)[e][t][n - 1]
BY AfterValues

\* One value, and then the others.
LEMMA AfterOne ==
    ASSUME NEW f, Cellular(f), NEW z \in Nat, NEW p \in 1 .. z + 1,
           NEW x \in Frames, x.left > 0,
           NEW y \in Frames, y.type = x.type, y.left = x.left - 1,
           NEW e, e = ValueEnd(f, z, Ends(f, z), p, x.type)
    PROVE  After(f, z, p, x) = After(f, z, e, y)
<1>1. x.type \in Types /\ x.left \in Nat \ {0}
  BY DEF Frames
<1>2. \A n \in Nat \ {0} : Ends(f, z)[p][x.type][n] =
          IF e <= 0 THEN e ELSE Ends(f, z)[e][x.type][n - 1]
  BY <1>1, AfterFirst
<1>3. ~ (p <= 0)
  OBVIOUS
<1> QED  BY <1>1, <1>2, <1>3 DEF After

LEMMA TwoOn ==
    ASSUME NEW z \in Nat, NEW p \in 1 .. z + 1, p + 1 <= z
    PROVE  p + 2 \in 1 .. z + 1 /\ ~ (p > z) /\ ~ (p + 1 > z) /\ ~ (p + 2 <= 0)
OBVIOUS

\* The frames inside of an array.
Nested(x, w) == <<x>> \o Shorter(w)

\* The reader goes into an array.
LEMMA ArrayBegins ==
    ASSUME NEW f, Cellular(f), NEW z \in Nat, NEW p \in 1 .. z + 1, NEW k \in Nat,
           NEW w \in Seq(Frames), NEW s, Tells(f, z, p, k, w, s),
           w # <<>>, w[1].left > 0, w[1].type = Arr,
           p + 1 <= z, p \in DOMAIN f, p + 1 \in DOMAIN f, f[p] \in Types, f[p + 1] >= 0,
           NEW x \in Frames, x.type = f[p], x.left = f[p + 1],
           NEW v, v = Nested(x, w)
    PROVE  Tells(f, z, p + 2, k, v, s)
<1>1. PICK at : Chain(f, z, p, w, at) /\ Verdict(f, z, at[Len(w)], k, w, s)
  BY DEF Tells
<1>2. PICK u : u = Shorter(w)
  OBVIOUS
<1>3. /\ u \in Seq(Frames) /\ Len(u) = Len(w) /\ Len(w) \in Nat \ {0}
      /\ u[1] = [type |-> w[1].type, left |-> w[1].left - 1, skip |-> w[1].skip]
      /\ \A i \in 2 .. Len(w) : u[i] = w[i]
  BY <1>2, ShorterFrame
<1>4. PICK n \in Nat \ {0} : n = Len(w) /\ n = Len(u)
  BY <1>3
<1>5. /\ at \in [0 .. n -> Places(z)] /\ at[0] = p
      /\ \A i \in 1 .. n : at[i] = After(f, z, at[i - 1], w[i])
  BY <1>1, <1>4 DEF Chain
<1>6. /\ v \in Seq(Frames) /\ Len(v) = n + 1 /\ v[1] = x
      /\ \A i \in 1 .. n : v[i + 1] = u[i]
  <2>0. PICK o : o = <<x>>
    OBVIOUS
  <2>1. o \in Seq(Frames) /\ Len(o) = 1 /\ o[1] = x
    BY <2>0
  <2>2. v = o \o u
    BY <1>2, <2>0 DEF Nested
  <2>c. /\ o \o u \in Seq(Frames) /\ Len(o \o u) = Len(o) + Len(u)
        /\ \A i \in 1 .. Len(o) + Len(u) :
               (o \o u)[i] = IF i <= Len(o) THEN o[i] ELSE u[i - Len(o)]
    <3>1. o \in Seq(Frames) /\ u \in Seq(Frames)
      BY <1>3, <2>1
    <3> QED  BY <3>1, ConcatProperties
  <2>3. v \in Seq(Frames) /\ Len(v) = 1 + n
    BY <1>4, <2>1, <2>2, <2>c
  <2>4. \A i \in 1 .. 1 + n : v[i] = IF i <= 1 THEN o[i] ELSE u[i - 1]
    BY <1>4, <2>1, <2>2, <2>c
  <2>5. \A i \in 1 .. n : i + 1 \in 1 .. 1 + n /\ ~ (i + 1 <= 1) /\ (i + 1) - 1 = i
    OBVIOUS
  <2>6. 1 \in 1 .. 1 + n
    OBVIOUS
  <2> QED  BY <2>1, <2>3, <2>4, <2>5, <2>6
<1>7. PICK e : e = ValueEnd(f, z, Ends(f, z), p, Arr)
  OBVIOUS
<1>8. e = Ends(f, z)[p + 2][f[p]][f[p + 1]]
  <2>1. ~ (p > z) /\ ~ (p + 1 > z)
    BY TwoOn
  <2>2. ~ (f[p + 1] < 0)
    BY DEF Cellular
  <2> QED  BY <1>7, <2>1, <2>2 DEF ValueEnd, Narrow, Wide, Str, Arr
<1>9. e \in Behind(p, z)
  BY <1>7, TypesAre, AfterValues
<1>10. p + 2 \in 1 .. z + 1
  BY TwoOn
<1>11. e = After(f, z, p + 2, x)
  <2>1. ~ (p + 2 <= 0)
    BY TwoOn
  <2> QED  BY <1>8, <2>1 DEF After
<1>12. at[1] = After(f, z, e, u[1])
  <2>1. at[1] = After(f, z, p, w[1])
    <3>1. 1 \in 1 .. n /\ 1 - 1 = 0
      OBVIOUS
    <3> QED  BY <1>5, <3>1
  <2>2. w[1] \in Frames /\ u[1] \in Frames
    BY <1>3, <1>4
  <2>3. u[1].type = w[1].type /\ u[1].left = w[1].left - 1
    BY <1>3
  <2>4. e = ValueEnd(f, z, Ends(f, z), p, w[1].type)
    BY <1>7
  <2>5. After(f, z, p, w[1]) = After(f, z, e, u[1])
    BY <2>2, <2>3, <2>4, AfterOne
  <2> QED  BY <2>1, <2>5
<1> DEFINE to == [i \in 0 .. n + 1 |-> IF i = 0 THEN p + 2 ELSE IF i = 1 THEN e ELSE at[i - 1]]
<1>13. to[0] = p + 2 /\ to[1] = e /\ \A i \in 2 .. n + 1 : to[i] = at[i - 1]
  <2>1. 0 \in 0 .. n + 1 /\ 1 \in 0 .. n + 1 /\ 1 # 0
    OBVIOUS
  <2>2. \A i \in 2 .. n + 1 : i \in 0 .. n + 1 /\ i # 0 /\ i # 1
    OBVIOUS
  <2> QED  BY <2>1, <2>2
<1>14. to \in [0 .. n + 1 -> Places(z)]
  <2>1. p + 2 \in Places(z) /\ e \in Places(z)
    BY <1>9, <1>10 DEF Places, Behind
  <2>2. \A i \in 2 .. n + 1 : at[i - 1] \in Places(z)
    BY <1>5
  <2> QED  BY <2>1, <2>2
<1>15. to[n + 1] = at[n]
  BY <1>13
<1> HIDE DEF to
<1>16. ASSUME NEW i \in 1 .. n + 1  PROVE to[i] = After(f, z, to[i - 1], v[i])
  <2>1. CASE i = 1
    BY <1>6, <1>11, <1>13, <2>1
  <2>2. CASE i = 2
    <3>1. 1 \in 1 .. n /\ 2 \in 2 .. n + 1
      OBVIOUS
    <3>2. v[2] = u[1] /\ to[2] = at[1] /\ to[1] = e
      BY <1>6, <1>13, <3>1
    <3>3. i - 1 = 1
      BY <2>2
    <3> QED  BY <1>12, <2>2, <3>2, <3>3
  <2>3. CASE i > 2
    <3>1. PICK j \in 2 .. n : i = j + 1
      <4>1. i - 1 \in 2 .. n /\ i = (i - 1) + 1
        BY <2>3
      <4> QED  BY <4>1
    <3>2. j \in 1 .. n /\ j + 1 \in 2 .. n + 1 /\ j \in 2 .. n + 1 /\ (j + 1) - 1 = j
      OBVIOUS
    <3>3. to[j + 1] = at[j] /\ to[j] = at[j - 1] /\ v[j + 1] = w[j]
      BY <1>3, <1>4, <1>6, <1>13, <3>2
    <3>4. at[j] = After(f, z, at[j - 1], w[j])
      BY <1>5, <3>2
    <3> QED  BY <3>1, <3>2, <3>3, <3>4
  <2>4. i = 1 \/ i = 2 \/ i > 2
    OBVIOUS
  <2> QED  BY <2>1, <2>2, <2>3, <2>4
<1>17. Chain(f, z, p + 2, v, to)
  BY <1>6, <1>13, <1>14, <1>16 DEF Chain
<1>18. Verdict(f, z, to[Len(v)], k, v, s)
  <2>1. Verdict(f, z, to[Len(v)], k, w, s)
    BY <1>1, <1>4, <1>6, <1>15
  <2>2. v # <<>>
    <3>1. Len(v) # 0
      BY <1>6
    <3> QED  BY <3>1
  <2> QED  BY <2>1, <2>2 DEF Verdict, Closed
<1> QED  BY <1>17, <1>18 DEF Tells

\* What cannot end spoils the file.
LEMMA ValueSpoils ==
    ASSUME NEW f, Cellular(f), NEW z \in Nat, NEW p \in 1 .. z + 1, NEW k \in Nat,
           NEW w \in Seq(Frames), NEW s, Tells(f, z, p, k, w, s),
           w # <<>>, w[1].left > 0,
           ValueEnd(f, z, Ends(f, z), p, w[1].type) = Bad
    PROVE  Format(f, z).verdict = Bad
<1>1. PICK at : Chain(f, z, p, w, at) /\ Verdict(f, z, at[Len(w)], k, w, s)
  BY DEF Tells
<1>2. PICK n \in Nat \ {0} : n = Len(w)
  BY EmptySeq
<1>3. /\ at \in [0 .. n -> Places(z)] /\ at[0] = p
      /\ \A i \in 1 .. n : at[i] = After(f, z, at[i - 1], w[i])
  BY <1>1, <1>2 DEF Chain
<1>4. at[1] = Bad
  <2>1. PICK y \in Frames : y = w[1]
    BY <1>2
  <2>2. y.left \in Nat \ {0} /\ y.type \in Types
    BY <2>1 DEF Frames
  <2>3. at[1] = Ends(f, z)[p][y.type][y.left]
    <3>1. 1 \in 1 .. n /\ 1 - 1 = 0 /\ ~ (p <= 0)
      OBVIOUS
    <3> QED  BY <1>3, <2>1, <2>2, <3>1 DEF After
  <2>4. PICK e : e = ValueEnd(f, z, Ends(f, z), p, y.type)
    OBVIOUS
  <2>5. \A m \in Nat \ {0} : Ends(f, z)[p][y.type][m] =
            IF e <= 0 THEN e ELSE Ends(f, z)[e][y.type][m - 1]
    BY <2>2, <2>4, AfterFirst
  <2>6. e = Bad /\ e <= 0
    BY <2>1, <2>4 DEF Bad
  <2> QED  BY <2>2, <2>3, <2>5, <2>6
<1> DEFINE T == {i \in 1 .. n : at[i] # Bad}
<1>5. T = {}
  <2> SUFFICES ASSUME T # {}  PROVE FALSE
    OBVIOUS
  <2>1. PICK i \in T : \A j \in T : i <= j
    <3>1. T \in SUBSET Nat
      OBVIOUS
    <3> HIDE DEF T
    <3> QED  BY <3>1, LeastOf
  <2>2. i \in 1 .. n /\ at[i] # Bad /\ i # 1
    BY <1>4
  <2>3. i - 1 \in 1 .. n /\ ~ (i <= i - 1)
    BY <2>2
  <2>4. at[i - 1] = Bad
    BY <2>1, <2>3
  <2>5. at[i] = Bad
    BY <1>3, <2>2, <2>4 DEF After, Bad
  <2> QED  BY <2>2, <2>5
<1>6. at[n] = Bad
  BY <1>5
<1> QED  BY <1>1, <1>2, <1>6 DEF Verdict, Bad

------------------------------------------------------------------------------
(* Pairs begin and end.                                                    *)

\* One span more, and the last one closed.
LEMMA AppendJoins ==
    ASSUME NEW s \in Seq(Spans), NEW y \in Spans, NEW r \in Seq(Spans)
    PROVE  s \o (<<y>> \o r) = Append(s, y) \o r
<1>1. PICK o : o = <<y>>
  OBVIOUS
<1>2. o \in Seq(Spans)
  BY <1>1
<1>3. (s \o o) \o r = s \o (o \o r)
  BY <1>2, ConcatAssociative, Z3
<1>4. s \o o = Append(s, y)
  BY <1>1, AppendIsConcat
<1> QED  BY <1>1, <1>3, <1>4

\* One span more.
IsAppend(t, s, y) ==
    /\ t \in [1 .. Len(s) + 1 -> Spans] /\ Len(t) = Len(s) + 1 /\ t[Len(s) + 1] = y
    /\ \A i \in 1 .. Len(s) : t[i] = s[i]

LEMMA AppendOf ==
    ASSUME NEW s \in Seq(Spans), NEW y \in Spans
    PROVE  IsAppend(Append(s, y), s, y)
<1>0. PICK t : t = Append(s, y)
  OBVIOUS
<1>1. t \in Seq(Spans) /\ Len(t) = Len(s) + 1
  BY <1>0
<1>2. t[Len(s) + 1] = y
  BY <1>0, AppendProperties
<1>3. \A i \in 1 .. Len(s) : t[i] = s[i]
  BY <1>0, AppendProperties
<1>4. t \in [1 .. Len(t) -> Spans]
  BY <1>1, LenProperties
<1> QED  BY <1>0, <1>1, <1>2, <1>3, <1>4 DEF IsAppend

LEMMA SpanOf ==
    ASSUME NEW a \in Int, NEW b \in Int
    PROVE  <<a, b>> \in Spans
BY DEF Spans

LEMMA LastReplaced ==
    ASSUME NEW s \in Seq(Spans), NEW a \in Int, NEW e \in Int,
           NEW y \in Spans, y = <<a, 0>>, NEW v \in Spans, v = <<a, e - 1>>,
           NEW t, IsAppend(t, s, y), NEW u, IsAppend(u, s, v)
    PROVE  [t EXCEPT ![Len(t)] = <<@[1], e - 1>>] = u
<1>1. PICK n \in Nat : n = Len(s)
  OBVIOUS
<1>2. /\ t \in [1 .. n + 1 -> Spans] /\ Len(t) = n + 1 /\ t[n + 1] = y
      /\ \A i \in 1 .. n : t[i] = s[i]
  BY Zenon, <1>1 DEF IsAppend
<1>3. /\ u \in [1 .. n + 1 -> Spans] /\ Len(u) = n + 1 /\ u[n + 1] = v
      /\ \A i \in 1 .. n : u[i] = s[i]
  BY Zenon, <1>1 DEF IsAppend
<1>4. t[n + 1][1] = a
  BY <1>2
<1>5. \A i \in 1 .. n + 1 : i = n + 1 \/ i \in 1 .. n
  OBVIOUS
<1> QED  BY <1>2, <1>3, <1>4, <1>5

LEMMA ClosesLast ==
    ASSUME NEW s \in Seq(Spans), NEW a \in Int, NEW e \in Int, NEW w, w # <<>>
    PROVE  Closed(w, Append(s, <<a, 0>>), e) = Append(s, <<a, e - 1>>)
<1>1. PICK y \in Spans : y = <<a, 0>>
  <2>1. <<a, 0>> \in Spans
    BY SpanOf
  <2> QED  BY Zenon, <2>1
<1>2. PICK v \in Spans : v = <<a, e - 1>>
  <2>1. e - 1 \in Int
    OBVIOUS
  <2>2. <<a, e - 1>> \in Spans
    BY <2>1, SpanOf
  <2> QED  BY Zenon, <2>2
<1>3. PICK t : t = Append(s, y)
  OBVIOUS
<1>4. PICK u : u = Append(s, v)
  OBVIOUS
<1>5. IsAppend(t, s, y) /\ IsAppend(u, s, v)
  BY <1>3, <1>4, AppendOf
<1>6. [t EXCEPT ![Len(t)] = <<@[1], e - 1>>] = u
  BY <1>1, <1>2, <1>5, LastReplaced
<1>7. Closed(w, t, e) = u
  BY Zenon, <1>6 DEF Closed
<1> QED  BY Zenon, <1>1, <1>2, <1>3, <1>4, <1>7

LEMMA PairsOne ==
    ASSUME NEW f, Cellular(f), NEW z \in Nat, NEW p \in 1 .. z + 1, NEW n \in Nat
    PROVE  Pairs(f, z)[p][n] = PairsFrom(f, z, Pairs(f, z), p, n)
BY PairsAre

LEMMA BetweenPairs ==
    ASSUME NEW f, NEW z, NEW p, NEW k, NEW s, Tells(f, z, p, k, <<>>, s)
    PROVE  Verdict(f, z, p, k, <<>>, s)
<1>1. Len(<<>>) = 0
  OBVIOUS
<1> QED  BY <1>1 DEF Tells, Chain

LEMMA FrameOpens ==
    ASSUME NEW f, Cellular(f), NEW z \in Nat, NEW p \in 1 .. z + 1, NEW k, NEW s,
           NEW x \in Frames, Verdict(f, z, After(f, z, p, x), k, <<x>>, s)
    PROVE  Tells(f, z, p, k, <<x>>, s)
<1> DEFINE at == [i \in 0 .. 1 |-> IF i = 0 THEN p ELSE After(f, z, p, x)]
<1>1. at[0] = p /\ at[1] = After(f, z, p, x)
  OBVIOUS
<1>2. p \in Places(z)
  BY DEF Places
<1>3. at \in [0 .. 1 -> Places(z)]
  BY <1>2, AfterPlace
<1>4. Len(<<x>>) = 1 /\ <<x>>[1] = x
  OBVIOUS
<1> HIDE DEF at
<1>5. Chain(f, z, p, <<x>>, at)
  <2>1. \A i \in 1 .. 1 : i = 1 /\ i - 1 = 0
    OBVIOUS
  <2>2. \A i \in 1 .. 1 : at[i] = After(f, z, at[i - 1], <<x>>[i])
    BY <1>1, <1>4, <2>1
  <2> QED  BY <1>1, <1>3, <1>4, <2>2 DEF Chain
<1> QED  BY <1>1, <1>4, <1>5 DEF Tells

\* The key of a pair.
LEMMA KeyEnds ==
    ASSUME NEW f, Cellular(f), NEW z \in Nat, NEW p \in 1 .. z + 1
    PROVE  /\ p > z => TypeAt(f, z, p) = Bad
           /\ p <= z /\ p \in DOMAIN f /\ f[p] < 0 => TypeAt(f, z, p) = Bad
           /\ p <= z /\ p \in DOMAIN f /\ f[p] >= 0 =>
                  TypeAt(f, z, p) = Within(z, p + 1 + f[p])
<1>1. TypeAt(f, z, p) = ValueEnd(f, z, Ends(f, z), p, Str)
  BY TypesAre, AfterValues DEF TypeAt
<1>2. ValueEnd(f, z, Ends(f, z), p, Str) =
          IF p > z THEN Bad
          ELSE IF p \notin DOMAIN f THEN Unread
          ELSE IF f[p] < 0 THEN Bad ELSE Within(z, p + 1 + f[p])
  BY DEF ValueEnd, Narrow, Wide, Str, Arr
<1>3. p \in DOMAIN f => f[p] \in Int
  BY DEF Cellular
<1> QED  BY <1>1, <1>2, <1>3

LEMMA PairIsBad ==
    ASSUME NEW f, Cellular(f), NEW z \in Nat, NEW p \in 1 .. z + 1,
           \/ p > z
           \/ /\ p <= z /\ p \in DOMAIN f
              /\ \/ f[p] < 0
                 \/ p + 1 + f[p] > z
                 \/ p + 1 + f[p] \in DOMAIN f /\ f[p + 1 + f[p]] \notin Types
    PROVE  PairEnd(f, z, p) = Bad
<1>1. PICK t : t = TypeAt(f, z, p)
  OBVIOUS
<1>2. PairEnd(f, z, p) =
          IF t <= 0 THEN t
          ELSE IF t > z THEN Bad
          ELSE IF t \notin DOMAIN f THEN Unread
          ELSE IF f[t] \notin Types THEN Bad ELSE Ends(f, z)[t + 1][f[t]][1]
  BY <1>1 DEF PairEnd
<1>3. CASE p > z \/ f[p] < 0
  <2>1. t = Bad
    BY <1>1, <1>3, KeyEnds
  <2> QED  BY <1>2, <2>1 DEF Bad
<1>4. CASE ~ (p > z) /\ ~ (f[p] < 0)
  <2>1. p <= z /\ p \in DOMAIN f /\ f[p] \in Nat
    BY <1>4 DEF Cellular
  <2>2. PICK q \in Nat : q = p + 1 + f[p]
    BY <2>1
  <2>3. t = Within(z, q) /\ q > 0
    BY <1>1, <2>1, <2>2, KeyEnds
  <2>4. CASE q > z
    BY <1>2, <2>3, <2>4 DEF Within, Bad
  <2>5. CASE ~ (q > z)
    <3>1. q \in DOMAIN f /\ f[q] \notin Types
      BY <1>4, <2>2, <2>5
    <3>2. t = q
      BY <2>2, <2>3, <2>5 DEF Within
    <3> QED  BY <1>2, <2>3, <2>5, <3>1, <3>2
  <2> QED  BY <2>4, <2>5
<1> QED  BY <1>3, <1>4

LEMMA PairSpoils ==
    ASSUME NEW f, Cellular(f), NEW z \in Nat, NEW p \in 1 .. z + 1, NEW k \in Nat \ {0},
           NEW s, Tells(f, z, p, k, <<>>, s), PairEnd(f, z, p) = Bad
    PROVE  Format(f, z).verdict = Bad
<1>1. Verdict(f, z, p, k, <<>>, s)
  BY BetweenPairs
<1>2. Pairs(f, z)[p][k] = PairsFrom(f, z, Pairs(f, z), p, k)
  BY PairsOne
<1>3. PairsFrom(f, z, Pairs(f, z), p, k) = [verdict |-> Bad, spans |-> <<>>]
  BY DEF PairsFrom, Bad
<1>4. ~ (p <= 0)
  OBVIOUS
<1> QED  BY <1>1, <1>2, <1>3, <1>4 DEF Verdict

\* The reader goes into a value, behind its key and its type.
LEMMA PairBegins ==
    ASSUME NEW f, Cellular(f), NEW z \in Nat, NEW p \in 1 .. z, NEW k \in Nat \ {0},
           NEW s \in Seq(Spans), Tells(f, z, p, k, <<>>, s),
           p \in DOMAIN f, f[p] >= 0,
           NEW q, q = p + 1 + f[p], q <= z, q \in DOMAIN f, f[q] \in Types,
           NEW x \in Frames, x.type = f[q], x.left = 1
    PROVE  Tells(f, z, q + 1, k - 1, <<x>>, Append(s, <<q + 1, 0>>))
<1>1. q \in p + 1 .. z /\ q + 1 \in 1 .. z + 1
  <2>1. f[p] \in Nat
    BY DEF Cellular
  <2> QED  BY <2>1
<1>2. TypeAt(f, z, p) = q
  <2>1. p \in 1 .. z + 1 /\ p <= z
    OBVIOUS
  <2>2. TypeAt(f, z, p) = Within(z, q)
    BY <2>1, KeyEnds
  <2> QED  BY <1>1, <2>2 DEF Within
<1>3. PICK e : e = After(f, z, q + 1, x)
  OBVIOUS
<1>4. e = Ends(f, z)[q + 1][f[q]][1]
  <2>1. ~ (q + 1 <= 0)
    BY <1>1
  <2> QED  BY <1>3, <2>1 DEF After
<1>5. e \in Behind(q + 1, z)
  BY <1>1, <1>4, AfterValues
<1>6. PairEnd(f, z, p) = e
  <2>1. ~ (q <= 0) /\ ~ (q > z)
    BY <1>1
  <2> QED  BY <1>2, <1>4, <2>1 DEF PairEnd
<1>7. PICK P : P = Pairs(f, z)
  OBVIOUS
<1>8. p \in 1 .. z + 1 /\ ~ (p <= 0) /\ k - 1 \in Nat
  OBVIOUS
<1>9. Format(f, z) = [verdict |-> P[p][k].verdict, spans |-> s \o P[p][k].spans]
  <2>1. Verdict(f, z, p, k, <<>>, s)
    BY BetweenPairs
  <2> QED  BY <1>7, <1>8, <2>1 DEF Verdict, Closed
<1>10. P[p][k] = PairsFrom(f, z, P, p, k)
  BY <1>7, <1>8, PairsOne
<1>11. Verdict(f, z, e, k - 1, <<x>>, Append(s, <<q + 1, 0>>))
  <2>1. CASE e <= 0
    <3>1. P[p][k] = [verdict |-> e, spans |-> <<>>]
      BY <1>6, <1>10, <2>1 DEF PairsFrom
    <3> QED  BY <1>9, <2>1, <3>1 DEF Verdict
  <2>2. CASE ~ (e <= 0)
    <3>1. e \in 1 .. z + 1 /\ e \in Int
      BY <1>1, <1>5, <2>2 DEF Behind, Bad, Unread
    <3>2. PICK r : r = P[e][k - 1]
      OBVIOUS
    <3>3. r.spans \in Seq(Spans)
      BY <1>7, <1>8, <3>1, <3>2, PairsAre
    <3>4. P[p][k] = [verdict |-> r.verdict, spans |-> <<<<q + 1, e - 1>>>> \o r.spans]
      BY <1>2, <1>6, <1>10, <2>2, <3>2 DEF PairsFrom
    <3>5. PICK y \in Spans : y = <<q + 1, e - 1>>
      <4>1. q + 1 \in Int /\ e - 1 \in Int
        BY <1>1, <3>1
      <4> QED  BY <4>1 DEF Spans
    <3>6. s \o (<<y>> \o r.spans) = Append(s, y) \o r.spans
      BY <3>3, AppendJoins
    <3>7. Closed(<<x>>, Append(s, <<q + 1, 0>>), e) = Append(s, y)
      <4>1. PICK a \in Int : a = q + 1
        BY <1>1
      <4>2. PICK w : w = <<x>>
        OBVIOUS
      <4>3. w # <<>>
        BY <4>2
      <4>4. Closed(w, Append(s, <<a, 0>>), e) = Append(s, <<a, e - 1>>)
        BY <3>1, <4>3, ClosesLast
      <4> QED  BY <3>5, <4>1, <4>2, <4>4
    <3>8. Format(f, z) = [verdict |-> r.verdict, spans |-> Append(s, y) \o r.spans]
      <4>1. PICK c : c = P[p][k]
        OBVIOUS
      <4>2. PICK b : b = <<y>> \o r.spans
        OBVIOUS
      <4>3. c = [verdict |-> r.verdict, spans |-> b]
        BY <3>4, <3>5, <4>1, <4>2
      <4>4. c.verdict = r.verdict /\ c.spans = <<y>> \o r.spans
        BY <4>2, <4>3
      <4> QED  BY <1>9, <3>6, <4>1, <4>4
    <3> QED  BY <1>7, <2>2, <3>2, <3>7, <3>8 DEF Verdict
  <2> QED  BY <2>1, <2>2
<1> QED  BY <1>1, <1>3, <1>11, FrameOpens

LEMMA FormatBegins ==
    ASSUME NEW f, Cellular(f), NEW z \in Nat \ {0}, f[0] # 0, 1 \in DOMAIN f, f[1] >= 0
    PROVE  Tells(f, z, 2, f[1], <<>>, <<>>)
<1>1. f[1] \in Nat /\ 2 \in 1 .. z + 1 /\ ~ (z < 1) /\ ~ (f[1] < 0)
  BY DEF Cellular
<1>2. PICK r : r = Pairs(f, z)[2][f[1]]
  OBVIOUS
<1>3. r = [verdict |-> r.verdict, spans |-> r.spans] /\ r.spans \in Seq(Spans)
  BY <1>1, <1>2, PairsAre
<1>4. Format(f, z) = r
  BY <1>1, <1>2 DEF Format
<1>5. <<>> \o r.spans = r.spans
  BY <1>3, ConcatEmptySeq
<1>6. Verdict(f, z, 2, f[1], <<>>, <<>>)
  BY <1>2, <1>3, <1>4, <1>5 DEF Verdict, Closed
<1> DEFINE at == [i \in 0 .. 0 |-> 2]
<1>7. at \in [0 .. 0 -> Places(z)] /\ at[0] = 2 /\ Len(<<>>) = 0
  BY <1>1 DEF Places
<1> HIDE DEF at
<1>8. Chain(f, z, 2, <<>>, at)
  BY <1>7 DEF Chain
<1> QED  BY <1>6, <1>7, <1>8 DEF Tells

LEMMA AllIsRead ==
    ASSUME NEW f, Cellular(f), NEW z \in Nat, NEW p \in 1 .. z + 1,
           NEW s \in Seq(Spans), Tells(f, z, p, 0, <<>>, s)
    PROVE  Format(f, z) = [verdict |-> Good, spans |-> s]
<1>1. Verdict(f, z, p, 0, <<>>, s)
  BY BetweenPairs
<1>2. Pairs(f, z)[p][0] = PairsFrom(f, z, Pairs(f, z), p, 0)
  BY PairsOne
<1>3. PairsFrom(f, z, Pairs(f, z), p, 0) = [verdict |-> Good, spans |-> <<>>]
  BY DEF PairsFrom
<1>4. ~ (p <= 0) /\ s \o <<>> = s
  BY ConcatEmptySeq
<1>5. PICK r : r = Pairs(f, z)[p][0]
  OBVIOUS
<1>6. r.verdict = Good /\ r.spans = <<>>
  BY <1>2, <1>3, <1>5
<1>7. Format(f, z) = [verdict |-> r.verdict, spans |-> s \o r.spans]
  BY <1>1, <1>4, <1>5 DEF Verdict, Closed
<1> QED  BY <1>4, <1>6, <1>7

------------------------------------------------------------------------------
(* The numbers and the cells the reader meets.                             *)

LEMMA Ints ==
    /\ MaxInt \in Int
    /\ \A n \in Int : ToInt(n) \in Int /\ Times(n) \in Nat
<1>1. PICK h \in Nat \ {0} : h = 2 ^ (IntBits - 1)
  BY CellsAssumption
<1>2. MaxInt \in Nat
  BY <1>1 DEF MaxInt
<1>3. ASSUME NEW n \in Int  PROVE ToInt(n) \in Int
  <2>1. PICK x \in Int, w \in Nat \ {0} : x = n + MaxInt + 1 /\ w = 2 * (MaxInt + 1)
    BY <1>2
  <2>2. x % w \in Int
    BY <2>1
  <2> QED  BY <1>2, <2>1, <2>2 DEF ToInt
<1> QED  BY <1>2, <1>3 DEF Times

LEMMA CountKept ==
    ASSUME NEW n \in Int, CountLost(n) = {}
    PROVE  n \in Nat /\ ToInt(n) = n /\ Times(ToInt(n)) = n
<1>1. ~ (n < 0) /\ ToInt(n) = n
  BY DEF CountLost
<1> QED  BY <1>1 DEF Times

LEMMA CountIsLost ==
    ASSUME NEW n \in Int
    PROVE  /\ CountLost(n) \in {{}, {"count"}}
           /\ ToInt(n) < 0 => CountLost(n) = {"count"}
BY DEF CountLost

LEMMA LongIsLost ==
    ASSUME NEW l, NEW last
    PROVE  /\ LongLost(l, last) \in {{}, {"long"}}
           /\ LongLost(l, last) = {} => ~ (l > MaxInt) \/ ~ (last <= size)
BY DEF LongLost

\* A whole file, of which the reader has seen the cells of g.
Reads(f, g) == Cellular(f) /\ \A p \in DOMAIN g : p \in DOMAIN f /\ f[p] = g[p]

\* h is g and v at p.
Longer(g, h, p, v) ==
    /\ DOMAIN h = DOMAIN g \cup {p}
    /\ h[p] = v /\ \A q \in DOMAIN g : h[q] = g[q]

LEMMA KnownOne ==
    ASSUME NEW g, NEW p, NEW v, p \notin DOMAIN g
    PROVE  Longer(g, Known(g, p, v), p, v)
BY DEF Known, Longer

LEMMA LongerCells ==
    ASSUME NEW g, NEW h, NEW p, NEW v \in Int, Longer(g, h, p, v)
    PROVE  DOMAIN h = DOMAIN g \cup {p} /\ (Cellular(g) => Cellular(h))
BY DEF Longer, Cellular

LEMMA LongerReads ==
    ASSUME NEW g, NEW h, NEW p, NEW v, Longer(g, h, p, v), NEW f, Reads(f, h)
    PROVE  Reads(f, g) /\ p \in DOMAIN f /\ f[p] = v
BY DEF Longer, Reads

------------------------------------------------------------------------------
(* The invariant of the reader: whatever the cells are that it has not     *)
(* read, the format goes on from where it is.                              *)

FileOK(g) == Cellular(g) /\ DOMAIN g \subseteq Nat

ReaderTypeOK ==
    /\ size \in Nat /\ size <= MaxSize /\ pos \in Nat \ {0} /\ kv \in Nat
    /\ status \in {"header", "reading", "done", "failed"}
    /\ work \in Seq(Frames) /\ spans \in Seq(Spans)
    /\ FileOK(file)
    /\ lost \subseteq {"count", "bool", "long", "past"}

\* The reader never reads a cell twice, and knows when it left the file.
Ahead ==
    /\ status = "header" => /\ DOMAIN file = {} /\ work = <<>> /\ spans = <<>>
                            /\ pos = 1 /\ lost = {}
    /\ status = "reading" => /\ \A p \in DOMAIN file : p < pos
                             /\ work # <<>> => spans # <<>>
                             /\ "past" \notin lost => pos <= size + 1
                             /\ lost \cap {"bool", "long"} = {}

\* What the format makes of a file f that begins like the one that is read.
Agreed(f) ==
    /\ status = "reading" /\ lost = {} => Tells(f, size, pos, kv, work, spans)
    /\ status = "done" /\ lost = {} => Format(f, size) = [verdict |-> Good, spans |-> spans]
    /\ status = "failed" /\ lost = {} => Format(f, size).verdict = Bad
    /\ status # "done" /\ lost = {"past"} => Format(f, size).verdict = Bad

ReaderInv == ReaderTypeOK /\ Ahead /\ \A f : Reads(f, file) => Agreed(f)

LEMMA LearnsOne ==
    ASSUME FileOK(file), NEW p \in Nat, NEW v \in Int, p \notin DOMAIN file, Learn(p, v)
    PROVE  FileOK(file') /\ DOMAIN file' = DOMAIN file \cup {p}
<1>1. PICK g : g = file
  OBVIOUS
<1>2. PICK h : h = file'
  OBVIOUS
<1>3. Longer(g, h, p, v)
  BY <1>1, <1>2, KnownOne DEF Learn
<1>4. DOMAIN h = DOMAIN g \cup {p} /\ (Cellular(g) => Cellular(h))
  BY <1>3, LongerCells
<1>5. FileOK(h)
  BY <1>1, <1>4 DEF FileOK
<1> QED  BY <1>1, <1>2, <1>4, <1>5

LEMMA LearnsBoth ==
    ASSUME FileOK(file), NEW p \in Nat, NEW v \in Int, NEW q \in Nat, NEW t \in Int,
           p # q, p \notin DOMAIN file, q \notin DOMAIN file, LearnBoth(p, v, q, t)
    PROVE  FileOK(file') /\ DOMAIN file' = DOMAIN file \cup {p, q}
<1>1. PICK g : g = file
  OBVIOUS
<1>2. PICK h : h = file'
  OBVIOUS
<1>3. PICK c : c = Known(g, p, v)
  OBVIOUS
<1>4. Longer(g, c, p, v)
  BY <1>1, <1>3, KnownOne
<1>5. q \notin DOMAIN c
  BY <1>1, <1>4 DEF Longer
<1>6. Longer(c, h, q, t)
  BY <1>1, <1>2, <1>3, <1>5, KnownOne DEF LearnBoth
<1>7. DOMAIN c = DOMAIN g \cup {p} /\ (Cellular(g) => Cellular(c))
  BY <1>4, LongerCells
<1>8. DOMAIN h = DOMAIN c \cup {q} /\ (Cellular(c) => Cellular(h))
  BY <1>6, LongerCells
<1>9. FileOK(h)
  BY <1>1, <1>7, <1>8 DEF FileOK
<1> QED  BY <1>1, <1>2, <1>7, <1>8, <1>9

\* What is known of the whole file, f, when the reader has read on.
LEMMA ReadsOne ==
    ASSUME NEW p, NEW v, p \notin DOMAIN file, Learn(p, v), NEW f, Reads(f, file')
    PROVE  Reads(f, file) /\ p \in DOMAIN f /\ f[p] = v
<1>1. PICK g : g = file
  OBVIOUS
<1>2. PICK h : h = file'
  OBVIOUS
<1>3. Longer(g, h, p, v)
  BY <1>1, <1>2, KnownOne DEF Learn
<1>4. Reads(f, g) /\ p \in DOMAIN f /\ f[p] = v
  BY <1>2, <1>3, LongerReads
<1> QED  BY <1>1, <1>4

LEMMA ReadsBoth ==
    ASSUME NEW p, NEW v, NEW q, NEW t, p # q, p \notin DOMAIN file, q \notin DOMAIN file,
           LearnBoth(p, v, q, t), NEW f, Reads(f, file')
    PROVE  /\ Reads(f, file) /\ p \in DOMAIN f /\ f[p] = v
           /\ q \in DOMAIN f /\ f[q] = t
<1>1. PICK g : g = file
  OBVIOUS
<1>2. PICK h : h = file'
  OBVIOUS
<1>3. PICK c : c = Known(g, p, v)
  OBVIOUS
<1>4. Longer(g, c, p, v)
  BY <1>1, <1>3, KnownOne
<1>5. q \notin DOMAIN c
  BY <1>1, <1>4 DEF Longer
<1>6. Longer(c, h, q, t)
  BY <1>1, <1>2, <1>3, <1>5, KnownOne DEF LearnBoth
<1>7. Reads(f, c) /\ q \in DOMAIN f /\ f[q] = t
  BY <1>2, <1>6, LongerReads
<1>8. Reads(f, g) /\ p \in DOMAIN f /\ f[p] = v
  BY <1>4, <1>7, LongerReads
<1> QED  BY <1>1, <1>7, <1>8

LEMMA Replaced ==
    ASSUME NEW S, NEW n \in Nat, NEW s \in [1 .. n -> S], NEW y \in S, NEW i
    PROVE  [s EXCEPT ![i] = y] \in [1 .. n -> S]
OBVIOUS

LEMMA LastCloses ==
    ASSUME NEW s \in Seq(Spans), s # <<>>, NEW e \in Int
    PROVE  [s EXCEPT ![Len(s)] = <<@[1], e - 1>>] \in Seq(Spans)
<1>1. PICK n \in Nat \ {0} : n = Len(s) /\ s \in [1 .. n -> Spans]
  BY EmptySeq
<1>2. PICK y \in Spans : y = <<s[n][1], e - 1>>
  <2>1. s[n] \in Spans
    BY <1>1
  <2>2. s[n][1] \in Int /\ e - 1 \in Int
    BY <2>1 DEF Spans
  <2> QED  BY <2>2 DEF Spans
<1>3. PICK t : t = [s EXCEPT ![n] = y]
  OBVIOUS
<1>4. t \in [1 .. n -> Spans]
  BY <1>1, <1>3, Replaced
<1>5. t \in Seq(Spans)
  BY <1>4
<1> QED  BY <1>1, <1>2, <1>3, <1>5

LEMMA HeadFrame ==
    ASSUME NEW w \in Seq(Frames), w # <<>>
    PROVE  /\ Head(w) = w[1] /\ w[1] \in Frames /\ Len(w) \in Nat \ {0}
           /\ w[1].type \in Types /\ w[1].left \in Nat /\ w[1].skip \in BOOLEAN
<1>1. Head(w) = w[1] /\ w[1] \in Frames /\ Len(w) \in Nat \ {0}
  BY EmptySeq
<1> QED  BY <1>1 DEF Frames

\* The types, and that the reader goes ahead.
LEMMA FailBase ==
    ASSUME ReaderTypeOK, NEW L \in SUBSET {"count", "bool", "long", "past"}, Fail(L), FileOK(file')
    PROVE  ReaderTypeOK' /\ Ahead'
BY DEF ReaderTypeOK, Ahead, Fail

LEMMA HeaderBase ==
    ASSUME ReaderTypeOK, Ahead, Header
    PROVE  ReaderTypeOK' /\ Ahead'
<1>1. FileOK(file) /\ DOMAIN file = {} /\ size \in Nat /\ lost = {} /\ work = <<>> /\ spans = <<>>
  BY DEF ReaderTypeOK, Ahead, Header
<1>2. CASE \E v \in {0, 1} : Learn(0, v) /\ Fail({})
  <2>1. PICK v \in {0, 1} : Learn(0, v) /\ Fail({})
    BY <1>2
  <2>2. FileOK(file')
    <3>1. 0 \in Nat /\ v \in Int /\ 0 \notin DOMAIN file
      BY <1>1
    <3> QED  BY <1>1, <2>1, <3>1, LearnsOne
  <2> QED  BY <2>1, <2>2, FailBase
<1>3. ASSUME NEW n \in Cells, size >= 1, LearnBoth(0, 1, 1, n),
             pos' = 2, kv' = Times(ToInt(n)), lost' = CountLost(n),
             status' = "reading", UNCHANGED <<size, work, spans>>
      PROVE  ReaderTypeOK' /\ Ahead'
  <2>1. n \in Int
    BY CellsAssumption
  <2>2. FileOK(file') /\ DOMAIN file' = {0, 1}
    <3>1. 0 \in Nat /\ 1 \in Nat /\ 1 \in Int /\ 0 # 1
      OBVIOUS
    <3>2. 0 \notin DOMAIN file /\ 1 \notin DOMAIN file
      BY <1>1
    <3>3. FileOK(file') /\ DOMAIN file' = DOMAIN file \cup {0, 1}
      BY <1>1, <1>3, <2>1, <3>1, <3>2, LearnsBoth
    <3> QED  BY <1>1, <3>3
  <2>3. kv' \in Nat
    BY <1>3, <2>1, Ints
  <2>4. lost' \in {{}, {"count"}}
    BY <1>3, <2>1, CountIsLost
  <2>5. ReaderTypeOK'
    BY <1>3, <2>2, <2>3, <2>4 DEF ReaderTypeOK
  <2>6. pos' <= size' + 1
    BY <1>1, <1>3
  <2>7. work' = <<>>
    BY <1>1, <1>3
  <2>8. \A p \in DOMAIN file' : p < pos'
    BY <1>3, <2>2
  <2> QED  BY <1>3, <2>4, <2>5, <2>6, <2>7, <2>8 DEF Ahead
<1> QED  BY <1>2, <1>3 DEF Header

LEMMA PairBase ==
    ASSUME ReaderTypeOK, Ahead, Pair
    PROVE  ReaderTypeOK' /\ Ahead'
<1>1. /\ FileOK(file) /\ pos \in Nat \ {0} /\ size \in Nat /\ kv \in Nat \ {0}
      /\ spans \in Seq(Spans) /\ status = "reading" /\ \A p \in DOMAIN file : p < pos
  BY DEF ReaderTypeOK, Ahead, Pair
<1>2. CASE pos > size /\ UNCHANGED file /\ Fail({})
  BY <1>1, <1>2, FailBase
<1>3. ASSUME NEW l \in Cells, NEW t \in Cells, NEW skip \in BOOLEAN, NEW q,
             q = pos + 1 + l, pos <= size,
             IF l < 0 \/ l > MaxInt \/ q > size
             THEN Learn(pos, l) /\ Fail(LongLost(l, q))
             ELSE /\ LearnBoth(pos, l, q, t)
                  /\ IF t \notin Types THEN Fail({})
                     ELSE /\ pos' = q + 1 /\ kv' = kv - 1
                          /\ work' = <<[type |-> t, left |-> 1, skip |-> skip]>>
                          /\ spans' = Append(spans, <<q + 1, 0>>)
                          /\ UNCHANGED <<size, status, lost>>
      PROVE  ReaderTypeOK' /\ Ahead'
  <2>1. l \in Int /\ t \in Int /\ pos \notin DOMAIN file
    BY <1>1, CellsAssumption
  <2>2. CASE l < 0 \/ l > MaxInt \/ q > size
    <3>1. FileOK(file')
      BY <1>1, <1>3, <2>1, <2>2, LearnsOne
    <3>2. PICK L \in {{}, {"long"}} : L = LongLost(l, q)
      BY LongIsLost
    <3> QED  BY <1>3, <2>2, <3>1, <3>2, FailBase
  <2>3. CASE ~ (l < 0 \/ l > MaxInt \/ q > size)
    <3>1. l \in Nat /\ q \in Nat \ {0} /\ q > pos /\ q <= size
      BY <1>1, <1>3, <2>1, <2>3, Ints
    <3>2. q \notin DOMAIN file /\ pos # q
      BY <1>1, <3>1
    <3>3. FileOK(file') /\ DOMAIN file' = DOMAIN file \cup {pos, q}
      BY <1>1, <1>3, <2>1, <2>3, <3>1, <3>2, LearnsBoth
    <3>4. CASE t \notin Types
      BY <1>3, <2>3, <3>3, <3>4, FailBase
    <3>5. CASE t \in Types
      <4>1. /\ pos' = q + 1 /\ kv' = kv - 1
            /\ work' = <<[type |-> t, left |-> 1, skip |-> skip]>>
            /\ spans' = Append(spans, <<q + 1, 0>>)
            /\ UNCHANGED <<size, status, lost>>
        BY <1>3, <2>3, <3>5
      <4>2. PICK x \in Frames : x = [type |-> t, left |-> 1, skip |-> skip]
        BY <3>5 DEF Frames
      <4>3. work' \in Seq(Frames)
        BY <4>1, <4>2
      <4>4. PICK y \in Spans : y = <<q + 1, 0>>
        <5>1. q + 1 \in Int /\ 0 \in Int
          BY <3>1
        <5>2. <<q + 1, 0>> \in Spans
          BY <5>1, SpanOf
        <5> QED  BY Zenon, <5>2
      <4>5. spans' = Append(spans, y)
        BY Zenon, <4>1, <4>4
      <4>6. spans' \in Seq(Spans) /\ spans' # <<>>
        BY <1>1, <4>5
      <4>7. pos' \in Nat \ {0} /\ kv' \in Nat /\ pos' <= size + 1
        BY <1>1, <3>1, <4>1
      <4>8. \A p \in DOMAIN file' : p < pos'
        <5>1. pos' = q + 1 /\ DOMAIN file' = DOMAIN file \cup {pos, q}
          BY <3>3, <4>1
        <5>2. pos < q + 1 /\ q < q + 1
          BY <1>1, <3>1
        <5>3. ASSUME NEW p \in DOMAIN file  PROVE p < q + 1
          <6>1. p \in Nat /\ p < pos
            BY <1>1 DEF FileOK
          <6> QED  BY <1>1, <3>1, <6>1
        <5> QED  BY <5>1, <5>2, <5>3
      <4> HIDE <4>1
      <4>9. UNCHANGED <<size, status, lost>>
        BY <4>1
      <4>10. ReaderTypeOK'
        BY <3>3, <4>3, <4>6, <4>7, <4>9 DEF ReaderTypeOK
      <4> QED  BY <1>1, <4>6, <4>7, <4>8, <4>9, <4>10 DEF Ahead
    <3> QED  BY <3>4, <3>5
  <2> QED  BY <2>2, <2>3
<1> QED  BY <1>2, <1>3 DEF Pair

LEMMA FinishBase ==
    ASSUME ReaderTypeOK, Ahead, Finish
    PROVE  ReaderTypeOK' /\ Ahead'
BY DEF ReaderTypeOK, Ahead, Finish

LEMMA EndValuesBase ==
    ASSUME ReaderTypeOK, Ahead, EndValues
    PROVE  ReaderTypeOK' /\ Ahead'
<1>1. /\ work \in Seq(Frames) /\ work # <<>> /\ spans \in Seq(Spans) /\ spans # <<>>
      /\ status = "reading" /\ pos \in Nat /\ work' = Tail(work)
      /\ spans' = IF Len(work) = 1
                  THEN [spans EXCEPT ![Len(spans)] = <<@[1], pos - 1>>] ELSE spans
      /\ UNCHANGED <<size, file, pos, status, kv, lost>>
  BY DEF ReaderTypeOK, Ahead, EndValues
<1>2. work' \in Seq(Frames) /\ (Len(work) = 1 => work' = <<>>)
  BY <1>1, EmptySeq
<1>3. PICK s : s = [spans EXCEPT ![Len(spans)] = <<@[1], pos - 1>>]
  OBVIOUS
<1>4. s \in Seq(Spans)
  BY <1>1, <1>3, LastCloses
<1>5. spans' \in Seq(Spans) /\ (work' # <<>> => spans' # <<>>)
  BY <1>1, <1>2, <1>3, <1>4
<1>6. UNCHANGED <<size, file, pos, status, kv, lost>>
  BY <1>1
<1>7. ReaderTypeOK'
  BY <1>2, <1>5, <1>6 DEF ReaderTypeOK
<1>8. file' = file /\ pos' = pos /\ size' = size /\ lost' = lost /\ status' = "reading"
  BY <1>1
<1>9. (\A p \in DOMAIN file : p < pos) /\ ("past" \notin lost => pos <= size + 1) /\ lost \cap {"bool", "long"} = {}
  BY <1>1 DEF Ahead
<1> QED  BY <1>5, <1>7, <1>8, <1>9 DEF Ahead

\* The values: after Advance the reader is ahead of what it has read.
LEMMA AdvanceBase ==
    ASSUME ReaderTypeOK, Ahead, status = "reading", work # <<>>,
           NEW n \in Nat, NEW L \in SUBSET {"count"}, Advance(n, L),
           work' \in Seq(Frames), UNCHANGED <<size, status, kv, spans>>,
           FileOK(file'), \A p \in DOMAIN file' : p < pos + n
    PROVE  ReaderTypeOK' /\ Ahead'
<1>1. pos \in Nat \ {0} /\ size \in Nat /\ pos' = pos + n
  BY DEF ReaderTypeOK, Advance
<1>2. lost' = lost \cup L \cup (IF pos + n > size + 1 THEN {"past"} ELSE {})
  BY DEF Advance
<1>3. lost \subseteq {"count", "bool", "long", "past"} /\ lost \cap {"bool", "long"} = {} /\ spans # <<>>
  BY DEF ReaderTypeOK, Ahead
<1>4. lost' \subseteq {"count", "bool", "long", "past"} /\ lost' \cap {"bool", "long"} = {}
  BY <1>2, <1>3
<1>5. "past" \notin lost' => pos' <= size' + 1
  BY <1>1, <1>2
<1>6. ReaderTypeOK'
  BY <1>1, <1>4 DEF ReaderTypeOK
<1> QED  BY <1>1, <1>3, <1>4, <1>5, <1>6 DEF Ahead

LEMMA BeginsAt ==
    ASSUME ReaderTypeOK, Ahead, NEW T, Begins(T)
    PROVE  /\ status = "reading" /\ work # <<>> /\ work \in Seq(Frames)
           /\ Head(work) = work[1] /\ work[1] \in Frames
           /\ work[1].type \in T /\ work[1].left \in Nat /\ work[1].left > 0
           /\ work[1].skip \in BOOLEAN
           /\ Rest = Shorter(work) /\ Rest \in Seq(Frames)
           /\ FileOK(file) /\ pos \in Nat \ {0} /\ pos \notin DOMAIN file
           /\ size \in Nat /\ kv \in Nat /\ lost \subseteq {"count", "past"}
           /\ \A p \in DOMAIN file : p \in Nat /\ p < pos
<1>1. work \in Seq(Frames) /\ work # <<>> /\ status = "reading"
  BY DEF ReaderTypeOK, Begins
<1>2. Head(work) = work[1] /\ work[1] \in Frames /\ work[1].left \in Nat /\ work[1].skip \in BOOLEAN
  BY <1>1, HeadFrame
<1>3. work[1].type \in T /\ work[1].left > 0
  BY <1>2 DEF Begins
<1>4. Rest = Shorter(work)
  BY DEF Rest, Shorter
<1>5. PICK w : w = work
  OBVIOUS
<1>6. PICK v : v = Shorter(w)
  OBVIOUS
<1>7. v \in Seq(Frames)
  BY <1>1, <1>3, <1>5, <1>6, ShorterFrame
<1>8. Rest \in Seq(Frames)
  BY <1>4, <1>5, <1>6, <1>7
<1>9. /\ FileOK(file) /\ pos \in Nat \ {0} /\ size \in Nat /\ kv \in Nat
      /\ lost \subseteq {"count", "bool", "long", "past"}
  BY DEF ReaderTypeOK
<1>10. (\A p \in DOMAIN file : p < pos) /\ lost \cap {"bool", "long"} = {}
  BY <1>1 DEF Ahead
<1>11. \A p \in DOMAIN file : p \in Nat
  BY <1>9 DEF FileOK
<1>12. pos \notin DOMAIN file
  BY <1>9, <1>10
<1>13. lost \subseteq {"count", "past"}
  BY <1>9, <1>10
<1> QED  BY <1>1, <1>2, <1>3, <1>4, <1>8, <1>9, <1>10, <1>11, <1>12, <1>13

LEMMA NumberBase ==
    ASSUME ReaderTypeOK, Ahead, Number
    PROVE  ReaderTypeOK' /\ Ahead'
<1>1. Begins({Narrow, Wide}) /\ UNCHANGED file
  BY DEF Number
<1>2. PICK w \in {1, 2} :
          IF ~Head(work).skip /\ pos + w > size + 1 THEN Fail({})
          ELSE \/ /\ Advance(w, {}) /\ work' = Rest
                  /\ UNCHANGED <<size, status, kv, spans>>
               \/ ~Head(work).skip /\ w = 1 /\ Fail({"bool"})
  BY Zenon DEF Number
<1>3. /\ status = "reading" /\ work # <<>> /\ Rest \in Seq(Frames) /\ FileOK(file)
      /\ pos \in Nat \ {0} /\ \A p \in DOMAIN file : p \in Nat /\ p < pos
  BY <1>1, BeginsAt
<1>4. FileOK(file')
  BY <1>1, <1>3
<1>5. CASE \E L \in {{}, {"bool"}} : Fail(L)
  BY <1>4, <1>5, FailBase
<1>6. CASE Advance(w, {}) /\ work' = Rest /\ UNCHANGED <<size, status, kv, spans>>
  <2>1. \A p \in DOMAIN file' : p < pos + w
    BY <1>1, <1>3
  <2> QED  BY <1>3, <1>4, <1>6, <2>1, AdvanceBase
<1> QED  BY <1>2, <1>5, <1>6

LEMMA StringBase ==
    ASSUME ReaderTypeOK, Ahead, String
    PROVE  ReaderTypeOK' /\ Ahead'
<1>1. Begins({Str})
  BY DEF String
<1>2. /\ status = "reading" /\ work # <<>> /\ Rest \in Seq(Frames) /\ FileOK(file)
      /\ pos \in Nat \ {0} /\ pos \notin DOMAIN file
      /\ \A p \in DOMAIN file : p \in Nat /\ p < pos
  BY <1>1, BeginsAt
<1>3. CASE pos > size /\ UNCHANGED file /\ Fail({})
  BY <1>2, <1>3, FailBase
<1>4. ASSUME NEW l \in Cells, Learn(pos, l),
             \/ \E L \in {{}, {"long"}} : Fail(L)
             \/ /\ Advance(1 + Times(l), IF l < 0 THEN {"count"} ELSE {})
                /\ work' = Rest
                /\ UNCHANGED <<size, status, kv, spans>>
      PROVE  ReaderTypeOK' /\ Ahead'
  <2>1. l \in Int
    BY CellsAssumption
  <2>2. FileOK(file') /\ DOMAIN file' = DOMAIN file \cup {pos}
    BY <1>2, <1>4, <2>1, LearnsOne
  <2>3. PICK n \in Nat \ {0} : n = 1 + Times(l)
    BY <2>1 DEF Times
  <2>4. PICK K \in SUBSET {"count"} : K = IF l < 0 THEN {"count"} ELSE {}
    OBVIOUS
  <2>5. CASE \E L \in {{}, {"long"}} : Fail(L)
    BY <2>2, <2>5, FailBase
  <2>6. CASE Advance(n, K) /\ work' = Rest /\ UNCHANGED <<size, status, kv, spans>>
    <3>1. \A p \in DOMAIN file' : p < pos + n
      BY <1>2, <2>2
    <3> QED  BY <1>2, <2>2, <2>6, <3>1, AdvanceBase
  <2> QED  BY <1>4, <2>3, <2>4, <2>5, <2>6
<1> QED  BY <1>3, <1>4, LongIsLost DEF String

LEMMA ArrayBase ==
    ASSUME ReaderTypeOK, Ahead, Array
    PROVE  ReaderTypeOK' /\ Ahead'
<1>1. Begins({Arr})
  BY DEF Array
<1>2. /\ status = "reading" /\ work # <<>> /\ Rest \in Seq(Frames) /\ FileOK(file)
      /\ pos \in Nat \ {0} /\ pos \notin DOMAIN file /\ size \in Nat
      /\ \A p \in DOMAIN file : p \in Nat /\ p < pos
  BY <1>1, BeginsAt
<1>3. CASE pos > size /\ UNCHANGED file /\ Fail({})
  BY <1>2, <1>3, FailBase
<1>4. ASSUME NEW t \in Cells, Learn(pos, t), Fail({})
      PROVE  ReaderTypeOK' /\ Ahead'
  <2>1. t \in Int
    BY CellsAssumption
  <2>2. FileOK(file')
    BY <1>2, <1>4, <2>1, LearnsOne
  <2> QED  BY <1>4, <2>2, FailBase
<1>5. ASSUME NEW t \in Types, NEW n \in Cells, NEW skip \in BOOLEAN,
             LearnBoth(pos, t, pos + 1, n),
             \/ Fail(CountLost(n))
             \/ /\ Advance(2, CountLost(n))
                /\ work' = <<[type |-> t, left |-> Times(ToInt(n)), skip |-> skip]>> \o Rest
                /\ UNCHANGED <<size, status, kv, spans>>
      PROVE  ReaderTypeOK' /\ Ahead'
  <2>1. n \in Int /\ t \in Int
    BY CellsAssumption DEF Types
  <2>2. FileOK(file') /\ DOMAIN file' = DOMAIN file \cup {pos, pos + 1}
    <3>1. pos # pos + 1 /\ pos + 1 \notin DOMAIN file /\ pos + 1 \in Nat
      BY <1>2
    <3> QED  BY <1>2, <1>5, <2>1, <3>1, LearnsBoth
  <2>3. PICK L \in SUBSET {"count"} : L = CountLost(n)
    BY <2>1, CountIsLost
  <2>4. CASE Fail(L)
    BY <2>2, <2>4, FailBase
  <2>5. CASE /\ Advance(2, L)
             /\ work' = <<[type |-> t, left |-> Times(ToInt(n)), skip |-> skip]>> \o Rest
             /\ UNCHANGED <<size, status, kv, spans>>
    <3>1. PICK x \in Frames : x = [type |-> t, left |-> Times(ToInt(n)), skip |-> skip]
      BY <2>1, Ints DEF Frames
    <3>2. work' = <<x>> \o Rest
      BY <2>5, <3>1
    <3>3. work' \in Seq(Frames)
      BY <1>2, <3>2
    <3>4. \A p \in DOMAIN file' : p < pos + 2
      BY <1>2, <2>2
    <3> QED  BY <1>2, <2>2, <2>5, <3>3, <3>4, AdvanceBase
  <2> QED  BY <1>5, <2>3, <2>4, <2>5
<1>6. \/ pos > size /\ UNCHANGED file /\ Fail({})
      \/ \E t \in Cells : Learn(pos, t) /\ Fail({})
      \/ \E t \in Types, n \in Cells, skip \in BOOLEAN :
             /\ LearnBoth(pos, t, pos + 1, n)
             /\ \/ Fail(CountLost(n))
                \/ /\ Advance(2, CountLost(n))
                   /\ work' = <<[type |-> t, left |-> Times(ToInt(n)), skip |-> skip]>> \o Rest
                   /\ UNCHANGED <<size, status, kv, spans>>
  <2>1. Head(work).skip \in BOOLEAN
    BY <1>1, BeginsAt
  <2> QED  BY <2>1 DEF Array
<1> QED  BY <1>3, <1>4, <1>5, <1>6

\* The reader goes where the format goes.
LEMMA FailAgrees ==
    ASSUME NEW f, Agreed(f), Fail({}), status = "reading", UNCHANGED size,
           lost = {} => Format(f, size).verdict = Bad
    PROVE  Agreed(f)'
<1>1. status' = "failed" /\ lost' = lost /\ size' = size
  BY DEF Fail
<1>2. lost = {"past"} => Format(f, size).verdict = Bad
  BY DEF Agreed
<1> QED  BY <1>1, <1>2 DEF Agreed

LEMMA LongAgrees ==
    ASSUME NEW f, Fail({"long"})
    PROVE  Agreed(f)'
<1>1. "long" \in lost' /\ status' = "failed"
  BY DEF Fail
<1> QED  BY <1>1 DEF Agreed

LEMMA HeaderAgrees ==
    ASSUME ReaderTypeOK, Ahead, Header, NEW f, Reads(f, file')
    PROVE  Agreed(f)'
<1>1. FileOK(file) /\ DOMAIN file = {} /\ size \in Nat /\ lost = {} /\ work = <<>> /\ spans = <<>>
  BY DEF ReaderTypeOK, Ahead, Header
<1>2. 0 \notin DOMAIN file /\ 1 \notin DOMAIN file /\ 0 # 1
  BY <1>1
<1>3. Cellular(f)
  BY DEF Reads
<1>4. CASE \/ Learn(0, 0) /\ Fail({})
           \/ size < 1 /\ Learn(0, 1) /\ Fail({})
  <2>1. f[0] = 0 \/ size < 1
    BY <1>2, <1>4, ReadsOne
  <2>2. Format(f, size).verdict = Bad
    BY <2>1 DEF Format
  <2>3. status' = "failed" /\ lost' = {} /\ size' = size
    BY <1>1, <1>4 DEF Fail
  <2> QED  BY <2>2, <2>3 DEF Agreed
<1>5. ASSUME NEW n \in Cells, size >= 1, LearnBoth(0, 1, 1, n),
             pos' = 2, kv' = Times(ToInt(n)), lost' = CountLost(n),
             status' = "reading", UNCHANGED <<size, work, spans>>
      PROVE  Agreed(f)'
  <2>1. n \in Int /\ lost' \in {{}, {"count"}}
    BY <1>5, CellsAssumption, CountIsLost
  <2>2. f[0] = 1 /\ 1 \in DOMAIN f /\ f[1] = n
    BY <1>2, <1>5, ReadsBoth
  <2>3. ASSUME lost' = {}  PROVE Tells(f, size, 2, n, <<>>, <<>>)
    <3>1. n \in Nat
      BY <1>5, <2>1, <2>3, CountKept
    <3>2. size \in Nat \ {0}
      BY <1>1, <1>5
    <3>3. f[0] # 0 /\ f[1] >= 0
      BY <2>2, <3>1
    <3> QED  BY <1>3, <2>2, <3>2, <3>3, FormatBegins
  <2>4. ASSUME lost' = {}  PROVE kv' = n
    BY <1>5, <2>1, <2>4, CountKept
  <2>5. work' = <<>> /\ spans' = <<>> /\ size' = size
    BY <1>1, <1>5
  <2> QED  BY <1>5, <2>1, <2>3, <2>4, <2>5 DEF Agreed
<1> QED  BY <1>4, <1>5 DEF Header

LEMMA PairAgrees ==
    ASSUME ReaderTypeOK, Ahead, Pair, NEW f, Reads(f, file'),
           Reads(f, file) => Agreed(f)
    PROVE  Agreed(f)'
<1>1. /\ pos \in Nat \ {0} /\ size \in Nat /\ kv \in Nat \ {0} /\ size <= MaxSize
      /\ spans \in Seq(Spans) /\ status = "reading" /\ \A p \in DOMAIN file : p < pos
      /\ work = <<>> /\ lost \subseteq {"count", "past"}
  BY DEF ReaderTypeOK, Ahead, Pair
<1>2. Cellular(f)
  BY DEF Reads
<1>3. "past" \notin lost => pos \in 1 .. size + 1
  BY <1>1 DEF Ahead
<1>4. ASSUME Agreed(f), lost = {}, PairEnd(f, size, pos) = Bad
      PROVE  Format(f, size).verdict = Bad
  <2>1. Tells(f, size, pos, kv, <<>>, spans)
    BY <1>1, <1>4 DEF Agreed
  <2> QED  BY <1>1, <1>2, <1>3, <1>4, <2>1, PairSpoils
<1>5. CASE pos > size /\ UNCHANGED file /\ Fail({})
  <2>1. Agreed(f)
    BY <1>5
  <2>2. lost = {} => PairEnd(f, size, pos) = Bad
    BY <1>1, <1>2, <1>3, <1>5, PairIsBad
  <2>3. UNCHANGED size
    BY <1>5 DEF Fail
  <2> QED  BY <1>1, <1>4, <1>5, <2>1, <2>2, <2>3, FailAgrees
<1>6. ASSUME NEW l \in Cells, NEW t \in Cells, NEW skip \in BOOLEAN, NEW q,
             q = pos + 1 + l, pos <= size,
             IF l < 0 \/ l > MaxInt \/ q > size
             THEN Learn(pos, l) /\ Fail(LongLost(l, q))
             ELSE /\ LearnBoth(pos, l, q, t)
                  /\ IF t \notin Types THEN Fail({})
                     ELSE /\ pos' = q + 1 /\ kv' = kv - 1
                          /\ work' = <<[type |-> t, left |-> 1, skip |-> skip]>>
                          /\ spans' = Append(spans, <<q + 1, 0>>)
                          /\ UNCHANGED <<size, status, lost>>
      PROVE  Agreed(f)'
  <2>1. l \in Int /\ t \in Int /\ pos \notin DOMAIN file /\ pos \in 1 .. size /\ pos \in 1 .. size + 1
    BY <1>1, <1>6, CellsAssumption
  <2>2. CASE l < 0 \/ l > MaxInt \/ q > size
    <3>1. Learn(pos, l) /\ Fail(LongLost(l, q))
      BY <1>6, <2>2
    <3>2. Reads(f, file) /\ pos \in DOMAIN f /\ f[pos] = l
      BY <2>1, <3>1, ReadsOne
    <3>3. CASE LongLost(l, q) = {}
      <4>1. l < 0 \/ pos + 1 + l > size
        <5>1. q = pos + 1 + l /\ q \in Int /\ MaxInt \in Int
          BY <1>1, <1>6, <2>1, Ints
        <5>2. ~ (l > MaxInt) \/ ~ (q <= size)
          BY <3>3, LongIsLost
        <5>3. l < 0 \/ q > size
          BY <1>1, <2>1, <2>2, <5>1, <5>2
        <5> QED  BY <5>1, <5>3
      <4>2. PairEnd(f, size, pos) = Bad
        BY <1>1, <1>2, <2>1, <3>2, <4>1, PairIsBad
      <4>3. Fail({})
        BY <3>1, <3>3
      <4>4. UNCHANGED size
        BY <4>3 DEF Fail
      <4>5. Agreed(f)
        BY <3>2
      <4>6. lost = {} => Format(f, size).verdict = Bad
        BY <1>4, <4>2, <4>5
      <4> QED  BY <1>1, <3>2, <4>3, <4>4, <4>5, <4>6, FailAgrees
    <3>4. CASE LongLost(l, q) # {}
      BY <3>1, <3>4, LongIsLost, LongAgrees
    <3> QED  BY <3>3, <3>4
  <2>3. CASE ~ (l < 0 \/ l > MaxInt \/ q > size)
    <3>1. l \in Nat /\ q \in Nat \ {0} /\ q > pos /\ q <= size
      BY <1>1, <1>6, <2>1, <2>3, Ints
    <3>2. LearnBoth(pos, l, q, t)
      BY <1>6, <2>3
    <3>3. q \notin DOMAIN file /\ pos # q
      BY <1>1, <3>1
    <3>4. /\ Reads(f, file) /\ pos \in DOMAIN f /\ f[pos] = l
          /\ q \in DOMAIN f /\ f[q] = t
      BY <2>1, <3>2, <3>3, ReadsBoth
    <3>5. CASE t \notin Types
      <4>1. Fail({})
        BY <1>6, <2>3, <3>5
      <4>2. pos + 1 + f[pos] \in DOMAIN f /\ f[pos + 1 + f[pos]] \notin Types
        BY <1>6, <3>4, <3>5
      <4>3. PairEnd(f, size, pos) = Bad
        BY <1>1, <1>2, <2>1, <3>4, <4>2, PairIsBad
      <4>4. UNCHANGED size
        BY <4>1 DEF Fail
      <4> QED  BY <1>1, <1>4, <3>4, <4>1, <4>3, <4>4, FailAgrees
    <3>6. CASE t \in Types
      <4>1. /\ pos' = q + 1 /\ kv' = kv - 1
            /\ work' = <<[type |-> t, left |-> 1, skip |-> skip]>>
            /\ spans' = Append(spans, <<q + 1, 0>>)
            /\ UNCHANGED <<size, status, lost>>
        BY <1>6, <2>3, <3>6
      <4>2. PICK x \in Frames : x = [type |-> t, left |-> 1, skip |-> skip]
        BY <3>6 DEF Frames
      <4>3. x.type = f[q] /\ x.left = 1
        BY <3>4, <4>2
      <4>4. ASSUME lost = {}
            PROVE  Tells(f, size, q + 1, kv - 1, <<x>>, Append(spans, <<q + 1, 0>>))
        <5>1. Tells(f, size, pos, kv, <<>>, spans)
          BY <1>1, <3>4, <4>4 DEF Agreed
        <5>2. f[pos] >= 0 /\ q = pos + 1 + f[pos] /\ f[q] \in Types
          BY <1>6, <3>1, <3>4, <3>6
        <5> QED  BY <1>1, <1>2, <2>1, <3>1, <3>4, <4>3, <5>1, <5>2, PairBegins
      <4>5. lost = {"past"} => Format(f, size).verdict = Bad
        BY <1>1, <3>4 DEF Agreed
      <4>6. work' = <<x>> /\ size' = size /\ lost' = lost /\ status' = "reading"
        BY <1>1, <4>1, <4>2
      <4>7. pos' = q + 1 /\ kv' = kv - 1 /\ spans' = Append(spans, <<q + 1, 0>>)
        BY <4>1
      <4> QED  BY <4>4, <4>5, <4>6, <4>7 DEF Agreed
    <3> QED  BY <3>5, <3>6
  <2> QED  BY <2>2, <2>3
<1> QED  BY <1>5, <1>6 DEF Pair

LEMMA FinishAgrees ==
    ASSUME ReaderTypeOK, Ahead, Finish, NEW f, Reads(f, file), Agreed(f)
    PROVE  Agreed(f)'
<1>1. /\ status = "reading" /\ work = <<>> /\ kv = 0 /\ status' = "done"
      /\ size' = size /\ spans' = spans /\ lost' = lost
      /\ size \in Nat /\ pos \in Nat \ {0} /\ spans \in Seq(Spans)
  BY DEF ReaderTypeOK, Finish
<1>2. ASSUME lost = {}  PROVE Format(f, size) = [verdict |-> Good, spans |-> spans]
  <2>1. pos \in 1 .. size + 1
    BY <1>1, <1>2 DEF Ahead
  <2>2. Tells(f, size, pos, 0, <<>>, spans)
    BY <1>1, <1>2 DEF Agreed
  <2>3. Cellular(f)
    BY DEF Reads
  <2> QED  BY <1>1, <2>1, <2>2, <2>3, AllIsRead
<1> QED  BY <1>1, <1>2 DEF Agreed

LEMMA EndValuesAgrees ==
    ASSUME ReaderTypeOK, Ahead, EndValues, NEW f, Reads(f, file), Agreed(f)
    PROVE  Agreed(f)'
<1>1. /\ work \in Seq(Frames) /\ work # <<>> /\ spans \in Seq(Spans)
      /\ size \in Nat /\ pos \in Nat \ {0} /\ kv \in Nat
      /\ status = "reading" /\ work' = Tail(work)
      /\ UNCHANGED <<size, file, pos, status, kv, lost>>
  BY DEF ReaderTypeOK, EndValues
<1>2. work[1].left = 0
  BY <1>1, HeadFrame DEF EndValues
<1>3. spans' = IF Len(work) = 1 THEN Closed(work, spans, pos) ELSE spans
  BY <1>1 DEF EndValues, Closed
<1>4. PICK v : v = Tail(work)
  OBVIOUS
<1>5. PICK r : r = IF Len(work) = 1 THEN Closed(work, spans, pos) ELSE spans
  OBVIOUS
<1>6. ASSUME lost = {}  PROVE Tells(f, size, pos, kv, v, r)
  <2>1. pos \in 1 .. size + 1
    BY <1>1, <1>6 DEF Ahead
  <2>2. Tells(f, size, pos, kv, work, spans)
    BY <1>1, <1>6 DEF Agreed
  <2>3. Cellular(f)
    BY DEF Reads
  <2> QED  BY <1>1, <1>2, <1>4, <1>5, <2>1, <2>2, <2>3, FrameEnds
<1>7. lost = {"past"} => Format(f, size).verdict = Bad
  BY <1>1 DEF Agreed
<1>8. /\ work' = v /\ spans' = r /\ size' = size /\ pos' = pos /\ kv' = kv
      /\ lost' = lost /\ status' = "reading"
  BY <1>1, <1>3, <1>4, <1>5
<1> QED  BY <1>6, <1>7, <1>8 DEF Agreed

\* Behind one value, which ends at e as the format says.
LEMMA AdvanceAgrees ==
    ASSUME ReaderTypeOK, Ahead, NEW T, Begins(T), NEW f, Cellular(f), Agreed(f),
           NEW n \in Nat \ {0}, NEW L \in SUBSET {"count"}, Advance(n, L), work' = Rest,
           UNCHANGED <<size, status, kv, spans>>,
           L = {} /\ lost = {} =>
               ValueEnd(f, size, Ends(f, size), pos, work[1].type) = Within(size, pos + n)
    PROVE  Agreed(f)'
<1>1. /\ status = "reading" /\ work # <<>> /\ work \in Seq(Frames) /\ work[1].left > 0
      /\ Rest = Shorter(work) /\ size \in Nat /\ pos \in Nat \ {0} /\ kv \in Nat
      /\ lost \subseteq {"count", "past"}
  BY BeginsAt
<1>2. PICK q \in Nat \ {0} : q = pos + n
  BY <1>1
<1>3. pos' = q /\ lost' = lost \cup L \cup (IF q > size + 1 THEN {"past"} ELSE {})
  BY <1>2 DEF Advance
<1>4. lost = {"past"} => Format(f, size).verdict = Bad
  BY <1>1 DEF Agreed
<1>5. PICK v : v = Shorter(work)
  OBVIOUS
<1>6. ASSUME lost = {}, L = {}
      PROVE  /\ q <= size + 1 => Tells(f, size, q, kv, v, spans)
             /\ q > size + 1 => Format(f, size).verdict = Bad
  <2>1. pos \in 1 .. size + 1
    BY <1>1, <1>6 DEF Ahead
  <2>2. Tells(f, size, pos, kv, work, spans)
    BY <1>1, <1>6 DEF Agreed
  <2>3. PICK e : e = ValueEnd(f, size, Ends(f, size), pos, work[1].type)
    OBVIOUS
  <2>4. e = Within(size, q)
    BY <1>2, <1>6, <2>3
  <2>5. CASE q <= size + 1
    <3>1. q = ValueEnd(f, size, Ends(f, size), pos, work[1].type) /\ q > 0
      BY <2>3, <2>4, <2>5 DEF Within
    <3>2. Tells(f, size, q, kv, v, spans)
      BY <1>1, <1>5, <2>1, <2>2, <3>1, ValueGoes
    <3> QED  BY <1>1, <1>2, <2>5, <3>2
  <2>6. CASE ~ (q <= size + 1)
    <3>1. e = Bad
      BY <2>4, <2>6 DEF Within
    <3>2. Format(f, size).verdict = Bad
      BY <1>1, <2>1, <2>2, <2>3, <3>1, ValueSpoils
    <3> QED  BY <2>6, <3>2
  <2> QED  BY <2>5, <2>6
<1>7. /\ work' = v /\ size' = size /\ kv' = kv /\ spans' = spans /\ status' = "reading"
  BY <1>1, <1>5
<1>8. lost' = {} => lost = {} /\ L = {} /\ q <= size + 1
  BY <1>1, <1>2, <1>3
<1>9. lost' = {"past"} => Format(f, size).verdict = Bad
  <2>1. lost' = {"past"} => L = {} /\ (lost = {"past"} \/ (lost = {} /\ q > size + 1))
    BY <1>1, <1>2, <1>3
  <2> QED  BY <1>4, <1>6, <2>1
<1> QED  BY <1>3, <1>6, <1>7, <1>8, <1>9 DEF Agreed

\* The reader gives up on a value that has no end.
LEMMA GivesUp ==
    ASSUME ReaderTypeOK, Ahead, NEW T, Begins(T), NEW f, Cellular(f), Agreed(f), Fail({}),
           lost = {} => ValueEnd(f, size, Ends(f, size), pos, work[1].type) = Bad
    PROVE  Agreed(f)'
<1>1. /\ status = "reading" /\ work # <<>> /\ work \in Seq(Frames) /\ work[1].left > 0
      /\ size \in Nat /\ pos \in Nat \ {0} /\ kv \in Nat /\ lost \subseteq {"count", "past"}
  BY BeginsAt
<1>2. ASSUME lost = {}  PROVE Format(f, size).verdict = Bad
  <2>1. pos \in 1 .. size + 1
    BY <1>1, <1>2 DEF Ahead
  <2>2. Tells(f, size, pos, kv, work, spans)
    BY <1>1, <1>2 DEF Agreed
  <2> QED  BY <1>1, <1>2, <2>1, <2>2, ValueSpoils
<1>3. UNCHANGED size
  BY DEF Fail
<1> QED  BY <1>1, <1>2, <1>3, FailAgrees

LEMMA NumberAgrees ==
    ASSUME ReaderTypeOK, Ahead, Number, NEW f, Reads(f, file), Agreed(f)
    PROVE  Agreed(f)'
<1>1. Begins({Narrow, Wide}) /\ Cellular(f)
  BY DEF Number, Reads
<1>2. /\ Head(work) = work[1] /\ work[1].type \in {Narrow, Wide}
      /\ pos \in Nat \ {0} /\ size \in Nat
  BY <1>1, BeginsAt
<1>3. PICK w \in {1, 2} :
          /\ w = IF work[1].type = Narrow THEN 1 ELSE 2
          /\ \/ pos + w > size + 1 /\ Fail({})
             \/ Advance(w, {}) /\ work' = Rest /\ UNCHANGED <<size, status, kv, spans>>
             \/ Fail({"bool"})
  BY Zenon, <1>2 DEF Number
<1>4. ValueEnd(f, size, Ends(f, size), pos, work[1].type) = Within(size, pos + w)
  BY <1>2, <1>3 DEF ValueEnd, Narrow, Wide, Str, Arr
<1>5. CASE pos + w > size + 1 /\ Fail({})
  <2>1. Within(size, pos + w) = Bad
    BY <1>2, <1>5 DEF Within
  <2> QED  BY <1>1, <1>4, <1>5, <2>1, GivesUp
<1>6. CASE Advance(w, {}) /\ work' = Rest /\ UNCHANGED <<size, status, kv, spans>>
  <2>1. w \in Nat \ {0} /\ {} \in SUBSET {"count"}
    OBVIOUS
  <2> QED  BY <1>1, <1>4, <1>6, <2>1, AdvanceAgrees
<1>7. CASE Fail({"bool"})
  BY <1>7 DEF Fail, Agreed
<1> QED  BY <1>3, <1>5, <1>6, <1>7

LEMMA StringAgrees ==
    ASSUME ReaderTypeOK, Ahead, String, NEW f, Reads(f, file'),
           Reads(f, file) => Agreed(f)
    PROVE  Agreed(f)'
<1>1. Begins({Str}) /\ Cellular(f)
  BY DEF String, Reads
<1>2. /\ Head(work) = work[1] /\ work[1].type = Str /\ pos \in Nat \ {0} /\ size \in Nat
      /\ pos \notin DOMAIN file /\ size <= MaxSize
  BY <1>1, BeginsAt DEF ReaderTypeOK
<1>3. ValueEnd(f, size, Ends(f, size), pos, work[1].type) =
          IF pos > size THEN Bad
          ELSE IF pos \notin DOMAIN f THEN Unread
          ELSE IF f[pos] < 0 THEN Bad ELSE Within(size, pos + 1 + f[pos])
  BY <1>2 DEF ValueEnd, Narrow, Wide, Str, Arr
<1>4. CASE pos > size /\ UNCHANGED file /\ Fail({})
  <2>1. Agreed(f)
    BY <1>4
  <2>2. ValueEnd(f, size, Ends(f, size), pos, work[1].type) = Bad
    BY <1>3, <1>4
  <2> QED  BY <1>1, <1>4, <2>1, <2>2, GivesUp
<1>5. ASSUME NEW l \in Cells, pos <= size, Learn(pos, l),
             \/ (l < 0 \/ l > MaxInt \/ pos + l > size) /\ Fail(LongLost(l, pos + l))
             \/ /\ Advance(1 + Times(l), IF l < 0 THEN {"count"} ELSE {})
                /\ work' = Rest
                /\ UNCHANGED <<size, status, kv, spans>>
      PROVE  Agreed(f)'
  <2>1. l \in Int
    BY CellsAssumption
  <2>2. Reads(f, file) /\ pos \in DOMAIN f /\ f[pos] = l
    BY <1>2, <1>5, ReadsOne
  <2>3. ValueEnd(f, size, Ends(f, size), pos, work[1].type) =
            IF l < 0 THEN Bad ELSE Within(size, pos + 1 + l)
    BY <1>2, <1>3, <1>5, <2>2
  <2>4. CASE (l < 0 \/ l > MaxInt \/ pos + l > size) /\ Fail(LongLost(l, pos + l))
    <3>1. CASE LongLost(l, pos + l) = {}
      <4>1. l < 0 \/ ~ (pos + 1 + l <= size + 1)
        BY <1>2, <2>1, <2>4, <3>1, Ints, LongIsLost
      <4>2. ValueEnd(f, size, Ends(f, size), pos, work[1].type) = Bad
        BY <2>3, <4>1 DEF Within
      <4>3. Fail({})
        BY <2>4, <3>1
      <4> QED  BY <1>1, <2>2, <4>2, <4>3, GivesUp
    <3>2. CASE LongLost(l, pos + l) # {}
      BY <2>4, <3>2, LongIsLost, LongAgrees
    <3> QED  BY <3>1, <3>2
  <2>5. CASE /\ Advance(1 + Times(l), IF l < 0 THEN {"count"} ELSE {})
             /\ work' = Rest /\ UNCHANGED <<size, status, kv, spans>>
    <3>1. PICK n \in Nat \ {0} : n = 1 + Times(l)
      BY <2>1 DEF Times
    <3>2. PICK L \in SUBSET {"count"} : L = IF l < 0 THEN {"count"} ELSE {}
      OBVIOUS
    <3>3. L = {} => ~ (l < 0) /\ pos + 1 + l = pos + n
      BY <1>2, <2>1, <3>1, <3>2 DEF Times
    <3>4. L = {} => ValueEnd(f, size, Ends(f, size), pos, work[1].type) = Within(size, pos + n)
      BY <2>3, <3>3
    <3>5. Advance(n, L) /\ work' = Rest /\ UNCHANGED <<size, status, kv, spans>>
      BY <2>5, <3>1, <3>2
    <3> QED  BY <1>1, <2>2, <3>4, <3>5, AdvanceAgrees
  <2> QED  BY <1>5, <2>4, <2>5
<1> QED  BY <1>4, <1>5 DEF String

LEMMA ArrayAgrees ==
    ASSUME ReaderTypeOK, Ahead, Array, NEW f, Reads(f, file'),
           Reads(f, file) => Agreed(f)
    PROVE  Agreed(f)'
<1>1. Begins({Arr}) /\ Cellular(f)
  BY DEF Array, Reads
<1>2. /\ Head(work) = work[1] /\ work[1].type = Arr /\ pos \in Nat \ {0} /\ size \in Nat
      /\ pos \notin DOMAIN file /\ kv \in Nat /\ status = "reading"
      /\ work \in Seq(Frames) /\ work # <<>> /\ work[1].left > 0 /\ Rest = Shorter(work)
      /\ work[1].skip \in BOOLEAN /\ lost \subseteq {"count", "past"}
      /\ \A p \in DOMAIN file : p \in Nat /\ p < pos
  BY <1>1, BeginsAt
<1>3. ValueEnd(f, size, Ends(f, size), pos, work[1].type) =
          IF pos > size THEN Bad
          ELSE IF pos \notin DOMAIN f THEN Unread
          ELSE IF f[pos] \notin Types \/ pos + 1 > size THEN Bad
          ELSE IF pos + 1 \notin DOMAIN f THEN Unread
          ELSE IF f[pos + 1] < 0 THEN Bad
          ELSE Ends(f, size)[pos + 2][f[pos]][f[pos + 1]]
  BY <1>2 DEF ValueEnd, Narrow, Wide, Str, Arr
<1>4. CASE pos > size /\ UNCHANGED file /\ Fail({})
  <2>1. Agreed(f)
    BY <1>4
  <2>2. ValueEnd(f, size, Ends(f, size), pos, work[1].type) = Bad
    BY <1>3, <1>4
  <2> QED  BY <1>1, <1>4, <2>1, <2>2, GivesUp
<1>5. ASSUME NEW t \in Cells, pos <= size, t \notin Types \/ pos + 1 > size,
             Learn(pos, t), Fail({})
      PROVE  Agreed(f)'
  <2>1. Reads(f, file) /\ pos \in DOMAIN f /\ f[pos] = t
    BY <1>2, <1>5, ReadsOne
  <2>2. ValueEnd(f, size, Ends(f, size), pos, work[1].type) = Bad
    BY <1>3, <1>5, <2>1
  <2> QED  BY <1>1, <1>5, <2>1, <2>2, GivesUp
<1>6. ASSUME NEW t \in Types, NEW n \in Cells, NEW skip \in BOOLEAN,
             pos + 1 <= size, LearnBoth(pos, t, pos + 1, n),
             \/ ToInt(n) < 0 /\ Fail(CountLost(n))
             \/ /\ Advance(2, CountLost(n))
                /\ work' = <<[type |-> t, left |-> Times(ToInt(n)), skip |-> skip]>> \o Rest
                /\ UNCHANGED <<size, status, kv, spans>>
      PROVE  Agreed(f)'
  <2>1. n \in Int /\ pos # pos + 1 /\ pos + 1 \notin DOMAIN file
    BY <1>2, CellsAssumption
  <2>2. /\ Reads(f, file) /\ pos \in DOMAIN f /\ f[pos] = t
        /\ pos + 1 \in DOMAIN f /\ f[pos + 1] = n
    BY <1>2, <1>6, <2>1, ReadsBoth
  <2>3. Agreed(f)
    BY <2>2
  <2>4. CASE ToInt(n) < 0 /\ Fail(CountLost(n))
    <3>1. "count" \in lost'
      BY <2>1, <2>4, CountIsLost DEF Fail
    <3>2. lost' # {} /\ lost' # {"past"} /\ status' = "failed"
      BY <2>4, <3>1 DEF Fail
    <3> QED  BY <3>2 DEF Agreed
  <2>5. CASE /\ Advance(2, CountLost(n))
             /\ work' = <<[type |-> t, left |-> Times(ToInt(n)), skip |-> skip]>> \o Rest
             /\ UNCHANGED <<size, status, kv, spans>>
    <3>1. PICK x \in Frames : x = [type |-> t, left |-> Times(ToInt(n)), skip |-> skip]
      BY <2>1, Ints DEF Frames
    <3>2. PICK v : v = Nested(x, work)
      OBVIOUS
    <3>3. work' = v
      BY <1>2, <2>5, <3>1, <3>2 DEF Nested
    <3>4. pos' = pos + 2 /\ lost' = lost \cup CountLost(n)
      BY <1>2, <1>6, <2>5 DEF Advance
    <3>5. lost = {"past"} => Format(f, size).verdict = Bad
      BY <1>2, <2>3 DEF Agreed
    <3>6. ASSUME lost = {}, CountLost(n) = {}  PROVE Tells(f, size, pos + 2, kv, v, spans)
      <4>1. n \in Nat /\ Times(ToInt(n)) = n
        BY <2>1, <3>6, CountKept
      <4>2. x.type = f[pos] /\ x.left = f[pos + 1] /\ f[pos + 1] >= 0 /\ f[pos] \in Types
        BY <2>2, <3>1, <4>1
      <4>3. pos \in 1 .. size + 1
        BY <1>2, <1>6
      <4>4. Tells(f, size, pos, kv, work, spans)
        BY <1>2, <2>3, <3>6 DEF Agreed
      <4> QED  BY <1>1, <1>2, <1>6, <2>2, <3>2, <4>2, <4>3, <4>4, ArrayBegins
    <3>7. CountLost(n) \in {{}, {"count"}}
      BY <2>1, CountIsLost
    <3>8. /\ lost' = {} => lost = {} /\ CountLost(n) = {}
          /\ lost' = {"past"} => lost = {"past"}
      BY <1>2, <3>4, <3>7
    <3>9. size' = size /\ kv' = kv /\ spans' = spans /\ status' = "reading"
      BY <1>2, <2>5
    <3> QED  BY <3>3, <3>4, <3>5, <3>6, <3>8, <3>9 DEF Agreed
  <2> QED  BY <1>6, <2>4, <2>5
<1>7. \/ pos > size /\ UNCHANGED file /\ Fail({})
      \/ \E t \in Cells : /\ pos <= size /\ (t \notin Types \/ pos + 1 > size)
                          /\ Learn(pos, t) /\ Fail({})
      \/ \E t \in Types, n \in Cells, skip \in BOOLEAN :
             /\ pos + 1 <= size /\ LearnBoth(pos, t, pos + 1, n)
             /\ \/ ToInt(n) < 0 /\ Fail(CountLost(n))
                \/ /\ Advance(2, CountLost(n))
                   /\ work' = <<[type |-> t, left |-> Times(ToInt(n)), skip |-> skip]>> \o Rest
                   /\ UNCHANGED <<size, status, kv, spans>>
  <2>1. Head(work).skip \in BOOLEAN /\ (~ (pos + 1 > size) => pos + 1 <= size)
    BY <1>2
  <2> QED  BY <2>1 DEF Array
<1> QED  BY <1>4, <1>5, <1>6, <1>7

\* The invariant holds whatever the file is.
LEMMA ReaderInvariant == ReaderSpec => []ReaderInv
<1>1. ReaderInit => ReaderInv
  <2> SUFFICES ASSUME ReaderInit  PROVE ReaderInv
    OBVIOUS
  <2>1. size \in Nat /\ size <= MaxSize
    BY CellsAssumption DEF ReaderInit
  <2>2. PICK g : g = file
    OBVIOUS
  <2>3. DOMAIN g = {}
    BY <2>2 DEF ReaderInit
  <2>4. FileOK(g)
    BY <2>3 DEF FileOK, Cellular
  <2>5. FileOK(file) /\ DOMAIN file = {}
    BY <2>2, <2>3, <2>4
  <2>6. ReaderTypeOK
    BY <2>1, <2>5 DEF ReaderInit, ReaderTypeOK
  <2>7. Ahead
    BY <2>5 DEF ReaderInit, Ahead
  <2>8. \A f : Agreed(f)
    BY DEF ReaderInit, Agreed
  <2> QED  BY <2>6, <2>7, <2>8 DEF ReaderInv
<1>2. ReaderInv /\ [ReaderNext]_readerVars => ReaderInv'
  <2> SUFFICES ASSUME ReaderInv, [ReaderNext]_readerVars  PROVE ReaderInv'
    OBVIOUS
  <2>1. ReaderTypeOK /\ Ahead
    BY DEF ReaderInv
  <2>2. ASSUME NEW f, Reads(f, file)  PROVE Agreed(f)
    BY <2>2 DEF ReaderInv
  <2>3. CASE Header
    <3>1. ReaderTypeOK' /\ Ahead'
      BY <2>1, <2>3, HeaderBase
    <3>2. ASSUME NEW f, Reads(f, file')  PROVE Agreed(f)'
      BY <2>1, <2>3, <3>2, HeaderAgrees
    <3> QED  BY <3>1, <3>2 DEF ReaderInv
  <2>4. CASE Pair
    <3>1. ReaderTypeOK' /\ Ahead'
      BY <2>1, <2>4, PairBase
    <3>2. ASSUME NEW f, Reads(f, file')  PROVE Agreed(f)'
      BY <2>1, <2>2, <2>4, <3>2, PairAgrees
    <3> QED  BY <3>1, <3>2 DEF ReaderInv
  <2>5. CASE Finish
    <3>1. ReaderTypeOK' /\ Ahead' /\ file' = file
      BY <2>1, <2>5, FinishBase DEF Finish
    <3>2. ASSUME NEW f, Reads(f, file')  PROVE Agreed(f)'
      BY <2>1, <2>2, <2>5, <3>1, <3>2, FinishAgrees
    <3> QED  BY <3>1, <3>2 DEF ReaderInv
  <2>6. CASE EndValues
    <3>1. ReaderTypeOK' /\ Ahead' /\ file' = file
      BY <2>1, <2>6, EndValuesBase DEF EndValues
    <3>2. ASSUME NEW f, Reads(f, file')  PROVE Agreed(f)'
      BY <2>1, <2>2, <2>6, <3>1, <3>2, EndValuesAgrees
    <3> QED  BY <3>1, <3>2 DEF ReaderInv
  <2>7. CASE Number
    <3>1. ReaderTypeOK' /\ Ahead' /\ file' = file
      BY <2>1, <2>7, NumberBase DEF Number
    <3>2. ASSUME NEW f, Reads(f, file')  PROVE Agreed(f)'
      BY <2>1, <2>2, <2>7, <3>1, <3>2, NumberAgrees
    <3> QED  BY <3>1, <3>2 DEF ReaderInv
  <2>8. CASE String
    <3>1. ReaderTypeOK' /\ Ahead'
      BY <2>1, <2>8, StringBase
    <3>2. ASSUME NEW f, Reads(f, file')  PROVE Agreed(f)'
      BY <2>1, <2>2, <2>8, <3>2, StringAgrees
    <3> QED  BY <3>1, <3>2 DEF ReaderInv
  <2>9. CASE Array
    <3>1. ReaderTypeOK' /\ Ahead'
      BY <2>1, <2>9, ArrayBase
    <3>2. ASSUME NEW f, Reads(f, file')  PROVE Agreed(f)'
      BY <2>1, <2>2, <2>9, <3>2, ArrayAgrees
    <3> QED  BY <3>1, <3>2 DEF ReaderInv
  <2>10. CASE UNCHANGED readerVars
    <3>1. ReaderTypeOK' /\ Ahead' /\ file' = file
      BY <2>1, <2>10 DEF readerVars, ReaderTypeOK, Ahead
    <3>2. ASSUME NEW f, Reads(f, file')  PROVE Agreed(f)'
      BY <2>2, <2>10, <3>2 DEF readerVars, Agreed
    <3> QED  BY <3>1, <3>2 DEF ReaderInv
  <2> QED  BY <2>3, <2>4, <2>5, <2>6, <2>7, <2>8, <2>9, <2>10 DEF ReaderNext
<1> QED  BY <1>1, <1>2, PTL DEF ReaderSpec

\* The cells that have been read are a file of their own.
LEMMA ReadsItself ==
    ASSUME ReaderInv
    PROVE  Agreed(file) /\ lost \subseteq {"count", "bool", "long", "past"}
<1>1. PICK g : g = file
  OBVIOUS
<1>2. Reads(g, g)
  BY <1>1 DEF ReaderInv, ReaderTypeOK, FileOK, Reads
<1>3. Agreed(g)
  BY <1>1, <1>2 DEF ReaderInv
<1> QED  BY <1>1, <1>3 DEF ReaderInv, ReaderTypeOK, Agreed

\* ReadsWellFormed, for files of any size: a file that follows the format is read
\* to the end, whatever is skipped or summarised in it, unless a boolean is
\* refused, a count does not fit an Int, or a key or a string that readString
\* is to return is longer than an Int counts.
THEOREM WellFormedIsRead == ReaderSpec => []ReadsWellFormed
<1>1. ReaderInv => ReadsWellFormed
  <2> SUFFICES ASSUME ReaderInv, status = "failed", lost \cap {"count", "bool", "long"} = {}
               PROVE  Format(file, size).verdict = Bad
    BY DEF ReadsWellFormed
  <2>1. lost = {} \/ lost = {"past"}
    BY ReadsItself
  <2> QED  BY <2>1, ReadsItself DEF Agreed
<1> QED  BY <1>1, ReaderInvariant, PTL

\* ReturnsWhatIsThere, for files of any size: what parseValue, skipValue and the
\* summaries go over are the values of the file, each from where it begins to
\* where it ends.
THEOREM ReturnedIsThere == ReaderSpec => []ReturnsWhatIsThere
<1>1. ReaderInv => ReturnsWhatIsThere
  BY ReadsItself DEF ReturnsWhatIsThere, Agreed
<1> QED  BY <1>1, ReaderInvariant, PTL
===============================================================================
