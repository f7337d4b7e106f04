------------------------- MODULE ModelDownloadProofs -------------------------
(***************************************************************************)
(* Proofs about ModelDownload, for any files of any sizes, any number of   *)
(* threads and attempts.  An inode that nothing spoiled has one writer,    *)
(* holds a beginning of its file, and is renamed when that is all of it.   *)
(***************************************************************************)
EXTENDS ModelDownload, TLAPS

USE DownloadAssumption

Clean(i) == taint[i] = {}

InvPrefix ==
    \A i \in DOMAIN content : Clean(i) =>
        \A k \in DOMAIN content[i] : content[i][k] = <<origin[i], k>>

InvLength ==
    \A i \in DOMAIN content : Clean(i) => Len(content[i]) <= Size[origin[i]]

InvWriter ==
    \A w \in DOMAIN dl : dl[w].pc = "copy" /\ Clean(dl[w].out) =>
        dl[w].file = origin[dl[w].out] /\ dl[w].copied = Len(content[dl[w].out])

InvSole ==
    \A v, w \in DOMAIN dl :
        dl[v].pc = "copy" /\ dl[w].pc = "copy" /\ dl[v].out = dl[w].out
            /\ Clean(dl[v].out) => v = w

InvRename ==
    \A w \in DOMAIN dl : dl[w].pc = "rename" /\ Clean(dl[w].out) =>
        Len(content[dl[w].out]) = Size[origin[dl[w].out]]

InvTarget ==
    Exists("target") /\ Clean(names["target"]) =>
        Len(content[names["target"]]) = Size[origin[names["target"]]]

IInv == /\ TypeOK /\ InvPrefix /\ InvLength /\ InvWriter
        /\ InvSole /\ InvRename /\ InvTarget

------------------------------------------------------------------------------
LEMMA UpdateSeq ==
    ASSUME NEW S, NEW s \in Seq(S), NEW i \in DOMAIN s, NEW x \in S
    PROVE  LET t == [s EXCEPT ![i] = x] IN
           /\ t \in Seq(S) /\ Len(t) = Len(s) /\ DOMAIN t = DOMAIN s
           /\ t[i] = x
           /\ \A j \in DOMAIN s : j # i => t[j] = s[j]
  OBVIOUS

LEMMA AppendSeq ==
    ASSUME NEW S, NEW s \in Seq(S), NEW x \in S
    PROVE  LET t == Append(s, x) IN
           /\ t \in Seq(S) /\ Len(t) = Len(s) + 1 /\ DOMAIN t = 1 .. (Len(s) + 1)
           /\ t[Len(s) + 1] = x
           /\ \A j \in DOMAIN s : t[j] = s[j]
  OBVIOUS

LEMMA DomainSeq ==
    ASSUME NEW S, NEW s \in Seq(S)
    PROVE  /\ DOMAIN s = 1 .. Len(s) /\ Len(s) \in Nat
           /\ \A i \in DOMAIN s : s[i] \in S
  OBVIOUS

(***************************************************************************)
(* What a step does to the threads: it ends some, sends one to its next    *)
(* attempt, leaves one as it is, or lets one finish copying.               *)
(***************************************************************************)
Kept(w) ==
    /\ w \in DOMAIN dl
    /\ dl'[w].pc = dl[w].pc /\ dl'[w].out = dl[w].out
    /\ dl'[w].file = dl[w].file /\ dl'[w].copied = dl[w].copied

Finishes(w) ==
    /\ w \in DOMAIN dl /\ dl[w].pc = "copy"
    /\ dl'[w].pc = "rename" /\ dl'[w].out = dl[w].out
    /\ dl[w].copied = Size[dl[w].file] \/ taint'[dl[w].out] # {}

Typed(w) == w \in Workers /\ dl'[w] \in Download /\ dl'[w].attempt < MaxAttempts

Moves ==
    \A w \in DOMAIN dl' :
        /\ Typed(w)
        /\ dl'[w].pc \in {"measure", "request"} \/ Kept(w) \/ Finishes(w)

LEMMA FailMoves ==
    ASSUME TypeOK, NEW w \in DOMAIN dl, Fail(w)
    PROVE  \A v \in DOMAIN dl' : v # w /\ v \in DOMAIN dl /\ dl'[v] = dl[v] /\ Typed(v)
  BY DEF Fail, Without, TypeOK, Typed

LEMMA RetryTyped ==
    ASSUME NEW r \in Download, NEW n \in Nat, NEW q,
           q = [r EXCEPT !.pc = "measure", !.attempt = n, !.sized = FALSE, !.out = 0]
    PROVE  q \in Download /\ q.pc = "measure" /\ q.attempt = n
  BY DEF Download

LEMMA NextAttemptMoves ==
    ASSUME TypeOK, NEW w \in DOMAIN dl, NextAttempt(w)
    PROVE  \A v \in DOMAIN dl' :
               /\ Typed(v) /\ v \in DOMAIN dl
               /\ v # w => dl'[v] = dl[v]
               /\ v = w => dl'[v].pc = "measure"
<1>1. CASE dl[w].attempt < MaxAttempts - 1
  <2>1. DOMAIN dl' = DOMAIN dl /\ \A v \in DOMAIN dl : v # w => dl'[v] = dl[v]
    BY <1>1 DEF NextAttempt
  <2>2. dl'[w] = [dl[w] EXCEPT !.pc = "measure", !.attempt = @ + 1,
                               !.sized = FALSE, !.out = 0]
    BY <1>1 DEF NextAttempt
  <2>3. dl'[w] \in Download /\ dl'[w].pc = "measure" /\ dl'[w].attempt < MaxAttempts
    <3>1. dl[w] \in Download /\ dl[w].attempt + 1 \in Nat
      BY DEF TypeOK, Download
    <3>2. dl'[w] \in Download /\ dl'[w].pc = "measure" /\ dl'[w].attempt = dl[w].attempt + 1
      <4> DEFINE n == dl[w].attempt + 1
      <4>1. dl' = [dl EXCEPT ![w].pc = "measure", ![w].attempt = n,
                             ![w].sized = FALSE, ![w].out = 0]
        BY <1>1 DEF NextAttempt
      <4> SUFFICES dl'[w] \in Download /\ dl'[w].pc = "measure" /\ dl'[w].attempt = n
        OBVIOUS
      <4>2. n \in Nat
        BY <3>1
      <4> HIDE DEF n
      <4> QED
        BY <3>1, <4>1, <4>2 DEF Download
    <3> QED
      BY <1>1, <3>1, <3>2 DEF Download
  <2> QED
    BY <2>1, <2>3 DEF TypeOK, Typed
<1>2. CASE ~(dl[w].attempt < MaxAttempts - 1)
  BY <1>2, FailMoves DEF NextAttempt
<1> QED
  BY <1>1, <1>2

(***************************************************************************)
(* Steps that write nothing: names move, taints are added.                 *)
(***************************************************************************)
LEMMA NoWriteStep ==
    ASSUME IInv, Moves,
           DOMAIN names' \subseteq {"tmp", "target"},
           \A n \in DOMAIN names' : names'[n] \in DOMAIN content,
           InvTarget',
           content' = content, origin' = origin,
           taint' \in Seq(SUBSET Taints), Len(taint') = Len(taint),
           \A i \in DOMAIN taint : taint[i] \subseteq taint'[i]
    PROVE  IInv'
<1> USE DEF IInv, Clean
<1>0. DOMAIN taint' = DOMAIN taint /\ DOMAIN taint = DOMAIN content
         /\ DOMAIN origin = DOMAIN content
  BY DomainSeq DEF TypeOK
<1>1. TypeOK'
  <2>1. \A w \in DOMAIN dl' : dl'[w].pc \in {"copy", "rename"} =>
            dl'[w].out \in DOMAIN content'
    BY DEF TypeOK, Moves, Kept, Finishes
  <2> QED
    BY <2>1 DEF TypeOK, Moves, Typed
<1>2. InvPrefix'
  BY <1>0 DEF InvPrefix
<1>3. InvLength'
  BY <1>0 DEF InvLength
<1>4. ASSUME NEW w \in DOMAIN dl', dl'[w].pc = "copy", taint'[dl'[w].out] = {}
      PROVE  Kept(w) /\ taint[dl[w].out] = {} /\ dl[w].out \in DOMAIN content
  <2>1. Kept(w)
    BY <1>4 DEF Moves, Kept, Finishes
  <2> QED
    BY <1>0, <1>4, <2>1 DEF Kept, TypeOK
<1>5. InvWriter'
  BY <1>4 DEF InvWriter, Kept
<1>6. InvSole'
  BY <1>4 DEF InvSole, Kept
<1>7. InvRename'
  <2> SUFFICES ASSUME NEW w \in DOMAIN dl', dl'[w].pc = "rename", taint'[dl'[w].out] = {}
               PROVE  Len(content[dl'[w].out]) = Size[origin[dl'[w].out]]
    BY DEF InvRename
  <2>1. CASE Kept(w)
    BY <2>1, <1>0 DEF Kept, InvRename, TypeOK
  <2>2. CASE Finishes(w)
    <3>1. taint'[dl[w].out] = {} /\ dl[w].out \in DOMAIN content
      BY <2>2 DEF Finishes, TypeOK
    <3>2. taint[dl[w].out] = {}
      BY <3>1, <1>0
    <3>3. dl[w].file = origin[dl[w].out] /\ dl[w].copied = Len(content[dl[w].out])
      BY <2>2, <3>2 DEF Finishes, InvWriter
    <3> QED
      BY <2>2, <3>1, <3>3 DEF Finishes
  <2> QED
    BY <2>1, <2>2 DEF Moves
<1> QED
  BY <1>1, <1>2, <1>3, <1>5, <1>6, <1>7

\* Steps that write nothing and only take names away.
LEMMA QuietStep ==
    ASSUME IInv, Moves,
           DOMAIN names' \subseteq DOMAIN names,
           \A n \in DOMAIN names' : names'[n] = names[n],
           content' = content, origin' = origin,
           taint' \in Seq(SUBSET Taints), Len(taint') = Len(taint),
           \A i \in DOMAIN taint : taint[i] \subseteq taint'[i]
    PROVE  IInv'
<1>1. DOMAIN taint = DOMAIN content
  BY DomainSeq DEF IInv, TypeOK
<1>2. InvTarget'
  BY <1>1 DEF IInv, InvTarget, Exists, TypeOK, Clean
<1> QED
  BY <1>2, NoWriteStep DEF IInv, TypeOK

\* Steps that change nothing but the threads.
LEMMA ThreadStep ==
    ASSUME IInv, Moves, UNCHANGED <<names, inodes>>
    PROVE  IInv'
  BY QuietStep DEF inodes, IInv, TypeOK

LEMMA BeginStep ==
    ASSUME IInv, NEW w \in Workers, NEW f \in Files, Begin(w, f)
    PROVE  IInv'
<1>1. Moves
  BY DEF Begin, With, IInv, TypeOK, Moves, Typed, Kept, Download
<1> QED
  BY <1>1, ThreadStep DEF Begin

LEMMA MeasureStep ==
    ASSUME IInv, NEW w \in Workers, Measure(w)
    PROVE  IInv'
<1>1. Exists("tmp") => Len(content[names["tmp"]]) \in Nat
  BY DomainSeq DEF IInv, TypeOK, Exists
<1>2. /\ DOMAIN dl' = DOMAIN dl /\ w \in DOMAIN dl
      /\ \A v \in DOMAIN dl : v # w => dl'[v] = dl[v]
  BY DEF Measure, At
<1>3. dl'[w] \in Download /\ dl'[w].pc = "request" /\ dl'[w].attempt = dl[w].attempt
  <2> DEFINE d == IF Exists("tmp") THEN Len(content[names["tmp"]]) ELSE 0
  <2>1. dl' = [dl EXCEPT ![w].pc = "request", ![w].copied = d] /\ d \in Nat
    BY <1>1 DEF Measure
  <2>2. dl[w] \in Download
    BY <1>2 DEF IInv, TypeOK
  <2> HIDE DEF d
  <2> QED
    BY <1>2, <2>1, <2>2 DEF Download
<1>4. Moves
  BY <1>2, <1>3 DEF IInv, TypeOK, Moves, Typed, Kept
<1> QED
  BY <1>4, ThreadStep DEF Measure

\* An attempt that ends without writing, or a download that does.
LEMMA AttemptEnds ==
    ASSUME IInv, NEW w \in DOMAIN dl, NextAttempt(w) \/ Fail(w),
           UNCHANGED inodes,
           DOMAIN names' \subseteq DOMAIN names,
           \A n \in DOMAIN names' : names'[n] = names[n]
    PROVE  IInv'
<1>1. Moves
  BY NextAttemptMoves, FailMoves DEF IInv, Moves, Kept
<1> QED
  BY <1>1, QuietStep DEF inodes, IInv, TypeOK

\* The end of a body, whole or not.
LEMMA FinishMoves ==
    ASSUME IInv, NEW w \in DOMAIN dl, dl[w].pc = "copy",
           dl' = [dl EXCEPT ![w].pc = "rename", ![w].sized = FALSE],
           dl[w].copied = Size[dl[w].file] \/ taint'[dl[w].out] # {}
    PROVE  Moves
<1>1. DOMAIN dl' = DOMAIN dl /\ \A v \in DOMAIN dl : v # w => dl'[v] = dl[v]
  OBVIOUS
<1>2. dl[w] \in Download
  BY DEF IInv, TypeOK
<1>3. /\ dl'[w] \in Download /\ dl'[w].pc = "rename" /\ dl'[w].out = dl[w].out
      /\ dl'[w].attempt = dl[w].attempt
  BY <1>2 DEF Download
<1>4. Finishes(w)
  BY <1>3 DEF Finishes
<1> QED
  BY <1>1, <1>3, <1>4 DEF IInv, TypeOK, Moves, Typed, Kept

LEMMA EndOfBodyStep ==
    ASSUME IInv, NEW w \in Workers, EndOfBody(w)
    PROVE  IInv'
<1>1. Moves
  BY FinishMoves DEF EndOfBody, At
<1> QED
  BY <1>1, ThreadStep DEF EndOfBody

LEMMA ShortBodyStep ==
    ASSUME IInv, NEW w \in Workers, ShortBody(w)
    PROVE  IInv'
<1> DEFINE i == dl[w].out
<1>1. /\ i \in DOMAIN taint /\ taint[i] \in SUBSET Taints
      /\ taint \in Seq(SUBSET Taints)
  BY DomainSeq DEF ShortBody, At, IInv, TypeOK
<1>2. /\ taint' \in Seq(SUBSET Taints) /\ Len(taint') = Len(taint)
      /\ \A j \in DOMAIN taint : taint[j] \subseteq taint'[j]
      /\ taint'[i] # {}
  BY <1>1, UpdateSeq, "short" \in Taints DEF ShortBody, Taints
<1>3. Moves
  BY <1>2, FinishMoves DEF ShortBody, At
<1> QED
  BY <1>2, <1>3, QuietStep DEF ShortBody

LEMMA CancelStep ==
    ASSUME IInv, CancelDownloads
    PROVE  IInv'
<1>1. Moves
  BY DEF CancelDownloads, IInv, TypeOK, Moves, Typed, Kept, Download
<1> QED
  BY <1>1, ThreadStep DEF CancelDownloads

LEMMA CrashStep ==
    ASSUME IInv, Crash
    PROVE  IInv'
<1>1. Moves
  BY DEF Crash, Moves
<1> QED
  BY <1>1, ThreadStep DEF Crash

LEMMA DeleteStep ==
    ASSUME IInv, DeleteTarget
    PROVE  IInv'
<1>1. Moves
  BY DEF DeleteTarget, IInv, TypeOK, Moves, Typed, Kept
<1> QED
  BY <1>1, QuietStep DEF DeleteTarget, Without, inodes, IInv, TypeOK

LEMMA RenameStep ==
    ASSUME IInv, NEW w \in Workers, Rename(w)
    PROVE  IInv'
<1> DEFINE t == names["tmp"]
<1>1. /\ t \in DOMAIN taint /\ taint[t] \in SUBSET Taints
      /\ taint \in Seq(SUBSET Taints) /\ DOMAIN taint = DOMAIN content
  BY DomainSeq DEF Rename, At, Exists, IInv, TypeOK
<1>2. /\ taint' \in Seq(SUBSET Taints) /\ Len(taint') = Len(taint)
      /\ \A j \in DOMAIN taint : taint[j] \subseteq taint'[j]
      /\ t # dl[w].out => taint'[t] # {}
  <2>1. CASE t = dl[w].out
    BY <1>1, <2>1 DEF Rename
  <2>2. CASE t # dl[w].out
    <3>1. taint' = [taint EXCEPT ![t] = taint[t] \cup {"shared"}]
      BY <2>2 DEF Rename
    <3>2. taint[t] \cup {"shared"} \in SUBSET Taints
      BY <1>1 DEF Taints
    <3> QED
      BY <1>1, <3>1, <3>2, UpdateSeq
  <2> QED
    BY <2>1, <2>2
<1>3. Moves
  BY FailMoves DEF Rename, At, Fail, IInv, Moves, Kept
<1>4. /\ DOMAIN names' \subseteq {"tmp", "target"} /\ names'["target"] = t
      /\ \A n \in DOMAIN names' : names'[n] \in DOMAIN content
  BY DEF Rename, With, Without, Exists, IInv, TypeOK
<1>5. InvTarget'
  <2> SUFFICES ASSUME taint'[t] = {}
               PROVE  Len(content[t]) = Size[origin[t]]
    BY <1>4 DEF InvTarget, Clean, Rename
  <2>1. t = dl[w].out /\ taint[t] = {}
    BY <1>1, <1>2
  <2> QED
    BY <2>1 DEF Rename, At, IInv, InvRename, Clean
<1> QED
  BY <1>2, <1>3, <1>4, <1>5, NoWriteStep DEF Rename

------------------------------------------------------------------------------
\* What a write does to the thread that makes it.
Advances(w) ==
    /\ dl'[w].pc = "copy" /\ dl'[w].out = dl[w].out
    /\ dl'[w].file = dl[w].file /\ dl'[w].copied = dl[w].copied + 1

LEMMA WriteStep ==
    ASSUME IInv, NEW w \in DOMAIN dl, Write(w),
           \A v \in DOMAIN dl' :
               /\ Typed(v) /\ v \in DOMAIN dl
               /\ v # w => dl'[v] = dl[v]
               /\ v = w => dl'[v].pc = "measure" \/ Advances(v)
    PROVE  IInv'
<1> DEFINE i == dl[w].out
           x == <<dl[w].file, dl[w].copied + 1>>
<1>1. /\ i \in DOMAIN content /\ content[i] \in Seq(Files \X Nat)
      /\ x \in Files \X Nat /\ content \in Seq(Seq(Files \X Nat))
      /\ origin[i] \in Files /\ Size[origin[i]] \in Nat \ {0}
      /\ dl[w].copied \in Nat /\ Size[dl[w].file] \in Nat
  <2>1. dl[w] \in Download /\ i \in DOMAIN content
    BY DEF Write, At, IInv, TypeOK
  <2>2. origin[i] \in Files /\ content[i] \in Seq(Files \X Nat)
    BY <2>1, DomainSeq DEF IInv, TypeOK
  <2> QED
    BY <2>1, <2>2 DEF Download, IInv, TypeOK
<1>2. /\ content'[i] = Append(content[i], x)
      /\ \A j \in DOMAIN content : j # i => content'[j] = content[j]
      /\ DOMAIN content' = DOMAIN content /\ Len(content') = Len(content)
      /\ content' \in Seq(Seq(Files \X Nat))
  <2>1. Append(content[i], x) \in Seq(Files \X Nat)
    BY <1>1
  <2>2. content' = [content EXCEPT ![i] = Append(content[i], x)]
    BY DEF Write
  <2> HIDE DEF x
  <2> QED
    BY <1>1, <2>1, <2>2, UpdateSeq
<1>3. /\ Len(content'[i]) = Len(content[i]) + 1
      /\ DOMAIN content'[i] = 1 .. (Len(content[i]) + 1)
      /\ content'[i][Len(content[i]) + 1] = x
      /\ \A k \in DOMAIN content[i] : content'[i][k] = content[i][k]
      /\ DOMAIN content[i] = 1 .. Len(content[i]) /\ Len(content[i]) \in Nat
  <2> HIDE DEF x
  <2>1. DOMAIN content[i] = 1 .. Len(content[i]) /\ Len(content[i]) \in Nat
    BY <1>1, DomainSeq
  <2> DEFINE s == content[i]
  <2>2. s \in Seq(Files \X Nat) /\ x \in Files \X Nat /\ content'[i] = Append(s, x)
    BY <1>1, <1>2
  <2> HIDE DEF s
  <2>3. /\ Len(content'[i]) = Len(s) + 1
        /\ DOMAIN content'[i] = 1 .. (Len(s) + 1)
        /\ content'[i][Len(s) + 1] = x
        /\ \A k \in DOMAIN s : content'[i][k] = s[k]
    BY <2>2, AppendSeq
  <2> QED
    BY <2>1, <2>3 DEF s
<1>4. ASSUME Clean(i)
      PROVE  /\ dl[w].file = origin[i] /\ dl[w].copied = Len(content[i])
             /\ Len(content[i]) < Size[origin[i]]
  BY <1>4 DEF IInv, InvWriter, Write, At
<1>5. UNCHANGED <<names, origin, taint>>
  BY DEF Write
<1> HIDE DEF x
<1>6. TypeOK'
  <2>1. \A v \in DOMAIN dl' : dl'[v].pc \in {"copy", "rename"} =>
            dl'[v].out \in DOMAIN content'
    <3> SUFFICES ASSUME NEW v \in DOMAIN dl', dl'[v].pc \in {"copy", "rename"}
                 PROVE  dl'[v].out \in DOMAIN content
      BY <1>2
    <3>1. CASE v = w
      BY <1>1, <3>1 DEF Advances
    <3>2. CASE v # w
      BY <3>2 DEF IInv, TypeOK
    <3> QED
      BY <3>1, <3>2
  <2> QED
    BY <1>2, <1>5, <2>1 DEF IInv, TypeOK, Typed
<1>7. InvPrefix'
  <2> SUFFICES ASSUME NEW j \in DOMAIN content, taint[j] = {}, NEW k \in DOMAIN content'[j]
               PROVE  content'[j][k] = <<origin[j], k>>
    BY <1>2, <1>5 DEF InvPrefix, Clean
  <2>1. CASE j # i
    BY <2>1, <1>2 DEF IInv, InvPrefix, Clean
  <2>2. CASE j = i /\ k \in DOMAIN content[i]
    BY <2>2, <1>3 DEF IInv, InvPrefix, Clean
  <2>3. CASE j = i /\ k = Len(content[i]) + 1
    BY <2>3, <1>3, <1>4 DEF Clean, x
  <2> QED
    BY <2>1, <2>2, <2>3, <1>3
<1>8. InvLength'
  <2> SUFFICES ASSUME NEW j \in DOMAIN content, taint[j] = {}
               PROVE  Len(content'[j]) <= Size[origin[j]]
    BY <1>2, <1>5 DEF InvLength, Clean
  <2>1. CASE j = i
    <3> DEFINE n == Len(content[i])
               m == Size[origin[i]]
    <3>1. n \in Nat /\ m \in Nat /\ n < m /\ Len(content'[i]) = n + 1
      BY <2>1, <1>1, <1>3, <1>4 DEF Clean
    <3> HIDE DEF n, m
    <3>2. Len(content'[i]) <= m
      BY <3>1
    <3> QED
      BY <2>1, <3>2 DEF m
  <2>2. CASE j # i
    BY <2>2, <1>2 DEF IInv, InvLength, Clean
  <2> QED
    BY <2>1, <2>2
<1>9. InvWriter'
  <2> SUFFICES ASSUME NEW v \in DOMAIN dl', dl'[v].pc = "copy", taint[dl'[v].out] = {}
               PROVE  /\ dl'[v].file = origin[dl'[v].out]
                      /\ dl'[v].copied = Len(content'[dl'[v].out])
    BY <1>5 DEF InvWriter, Clean
  <2>1. CASE v = w
    <3>1. Advances(w)
      BY <2>1
    <3>2. dl'[w].out = i /\ Clean(i)
      BY <2>1, <3>1 DEF Advances, Clean
    <3>3. dl[w].file = origin[i] /\ dl[w].copied = Len(content[i])
      BY <3>2, <1>4
    <3>4. Len(content'[i]) = Len(content[i]) + 1
      BY <1>3
    <3>5. dl'[w].file = dl[w].file /\ dl'[w].copied = dl[w].copied + 1
      BY <3>1 DEF Advances
    <3> QED
      BY <2>1, <3>2, <3>3, <3>4, <3>5
  <2>2. CASE v # w
    <3>1. dl'[v] = dl[v] /\ v \in DOMAIN dl
      BY <2>2
    <3>2. dl[v].out \in DOMAIN content /\ dl[v].out # i
      BY <2>2, <3>1 DEF IInv, TypeOK, InvSole, Clean, Write, At
    <3>3. /\ dl[v].file = origin[dl[v].out]
          /\ dl[v].copied = Len(content[dl[v].out])
      BY <3>1 DEF IInv, InvWriter, Clean
    <3> QED
      BY <3>1, <3>2, <3>3, <1>2
  <2> QED
    BY <2>1, <2>2
<1>10. InvSole'
  BY <1>5 DEF IInv, InvSole, Clean, Advances, Write, At
<1>11. InvRename'
  <2> SUFFICES ASSUME NEW v \in DOMAIN dl', dl'[v].pc = "rename", taint[dl'[v].out] = {}
               PROVE  Len(content'[dl'[v].out]) = Size[origin[dl'[v].out]]
    BY <1>5 DEF InvRename, Clean
  <2>1. dl'[v] = dl[v] /\ dl[v].out \in DOMAIN content
    BY DEF Advances, IInv, TypeOK
  <2>2. Len(content[dl[v].out]) = Size[origin[dl[v].out]]
    BY <2>1 DEF IInv, InvRename, Clean
  <2>3. dl[v].out # i
    BY <2>1, <2>2, <1>1, <1>3, <1>4 DEF Clean
  <2> QED
    BY <2>1, <2>2, <2>3, <1>2
<1>12. InvTarget'
  <2> DEFINE t == names["target"]
  <2> SUFFICES ASSUME Exists("target"), taint[t] = {}
               PROVE  Len(content'[t]) = Size[origin[t]]
    BY <1>5 DEF InvTarget, Exists, Clean
  <2>1. t \in DOMAIN content /\ Len(content[t]) = Size[origin[t]]
    BY DEF IInv, InvTarget, TypeOK, Exists, Clean
  <2>2. t # i
    <3> HIDE DEF t
    <3>1. CASE t = i
      BY <3>1, <2>1, <1>1, <1>3, <1>4 DEF Clean
    <3> QED
      BY <3>1
  <2> QED
    BY <2>1, <2>2, <1>2
<1> QED
  BY <1>6, <1>7, <1>8, <1>9, <1>10, <1>11, <1>12 DEF IInv

LEMMA CopyPieceStep ==
    ASSUME IInv, NEW w \in Workers, CopyPiece(w)
    PROVE  IInv'
<1>1. /\ w \in DOMAIN dl /\ dl[w].pc = "copy" /\ dl[w] \in Download
      /\ dl[w].attempt < MaxAttempts /\ dl[w].copied \in Nat
  BY DEF CopyPiece, Write, At, IInv, TypeOK, Download
<1>2. /\ DOMAIN dl' = DOMAIN dl /\ \A v \in DOMAIN dl : v # w => dl'[v] = dl[v]
      /\ dl'[w] = [dl[w] EXCEPT !.copied = dl[w].copied + 1]
  BY <1>1 DEF CopyPiece
<1>3. Advances(w) /\ Typed(w)
  BY <1>1, <1>2 DEF Advances, Typed, Download
<1>4. \A v \in DOMAIN dl' :
          /\ Typed(v) /\ v \in DOMAIN dl
          /\ v # w => dl'[v] = dl[v]
          /\ v = w => dl'[v].pc = "measure" \/ Advances(v)
  BY <1>2, <1>3 DEF IInv, TypeOK, Typed
<1> QED
  BY <1>1, <1>4, WriteStep DEF CopyPiece

LEMMA LastPieceStep ==
    ASSUME IInv, NEW w \in Workers, ReadStalls(w) \/ ProgressCancelled(w)
    PROVE  IInv'
<1>1. w \in DOMAIN dl /\ Write(w) /\ (NextAttempt(w) \/ Fail(w))
  BY DEF ReadStalls, ProgressCancelled, Write, At
<1> QED
  BY <1>1, NextAttemptMoves, FailMoves, WriteStep DEF IInv

------------------------------------------------------------------------------
\* A thread begins to copy: the others keep their places.
LEMMA AcceptMoves ==
    ASSUME TypeOK, NEW w \in DOMAIN dl, NEW sized \in BOOLEAN, NEW i \in Nat,
           dl' = [dl EXCEPT ![w].pc = "copy", ![w].sized = sized, ![w].out = i]
    PROVE  /\ DOMAIN dl' = DOMAIN dl
           /\ \A v \in DOMAIN dl : v # w => dl'[v] = dl[v]
           /\ dl'[w].pc = "copy" /\ dl'[w].out = i
           /\ dl'[w].file = dl[w].file /\ dl'[w].copied = dl[w].copied
           /\ \A v \in DOMAIN dl' : Typed(v)
<1>1. dl[w] \in Download
  BY DEF TypeOK
<1>2. DOMAIN dl' = DOMAIN dl /\ \A v \in DOMAIN dl : v # w => dl'[v] = dl[v]
  OBVIOUS
<1>3. /\ dl'[w] \in Download /\ dl'[w].pc = "copy" /\ dl'[w].out = i
      /\ dl'[w].file = dl[w].file /\ dl'[w].copied = dl[w].copied
      /\ dl'[w].attempt = dl[w].attempt
  BY <1>1 DEF Download
<1> QED
  BY <1>2, <1>3 DEF TypeOK, Typed

LEMMA ResumeStep ==
    ASSUME IInv, NEW w \in Workers, NEW sized \in BOOLEAN, Accept(w, sized),
           Exists("tmp")
    PROVE  IInv'
<1> DEFINE i == names["tmp"]
           t == taint[i] \cup Spoils(w, i)
           f == dl[w].file
<1>1. /\ i \in DOMAIN content /\ i \in DOMAIN taint /\ i \in DOMAIN origin
      /\ taint[i] \in SUBSET Taints /\ taint \in Seq(SUBSET Taints)
      /\ origin \in Seq(Files) /\ i \in Nat /\ w \in DOMAIN dl /\ f \in Files
      /\ content[i] \in Seq(Files \X Nat)
  BY DomainSeq DEF IInv, TypeOK, Exists, Accept, At, Download
<1>2. /\ UNCHANGED <<names, content>> /\ taint' = [taint EXCEPT ![i] = t]
      /\ origin' = IF content[i] = <<>> THEN [origin EXCEPT ![i] = f] ELSE origin
      /\ dl' = [dl EXCEPT ![w].pc = "copy", ![w].sized = sized, ![w].out = i]
  BY DEF Accept, OpenTmp
<1>3. t \in SUBSET Taints
  BY <1>1 DEF Spoils, Taints
<1>4. t = {} => /\ taint[i] = {} /\ Writers(i) = {}
                /\ Len(content[i]) = dl[w].copied
                /\ content[i] # <<>> => origin[i] = f
  BY DEF Spoils
<1> HIDE DEF t, f
<1>5. /\ taint' \in Seq(SUBSET Taints) /\ Len(taint') = Len(taint)
      /\ taint'[i] = t /\ \A j \in DOMAIN taint : j # i => taint'[j] = taint[j]
  BY <1>1, <1>2, <1>3, UpdateSeq
<1>6. /\ origin' \in Seq(Files) /\ Len(origin') = Len(origin)
      /\ \A j \in DOMAIN origin : j # i => origin'[j] = origin[j]
      /\ content[i] # <<>> => origin'[i] = origin[i]
      /\ content[i] = <<>> => origin'[i] = f
  BY <1>1, <1>2, UpdateSeq
<1>7. /\ DOMAIN dl' = DOMAIN dl
      /\ \A v \in DOMAIN dl : v # w => dl'[v] = dl[v]
      /\ dl'[w].pc = "copy" /\ dl'[w].out = i
      /\ dl'[w].file = f /\ dl'[w].copied = dl[w].copied
      /\ \A v \in DOMAIN dl' : Typed(v)
  BY <1>1, <1>2, AcceptMoves DEF f, IInv
<1>8. ASSUME t = {}
      PROVE  /\ taint[i] = {} /\ Writers(i) = {} /\ origin'[i] = f
             /\ Len(content[i]) = dl[w].copied
  BY <1>8, <1>4, <1>6
<1>9. DOMAIN content = DOMAIN taint /\ DOMAIN content = DOMAIN origin
  BY DomainSeq DEF IInv, TypeOK
<1>10. ASSUME NEW j \in DOMAIN content, taint'[j] = {}
       PROVE  taint[j] = {} /\ (content[j] # <<>> => origin'[j] = origin[j])
  BY <1>10, <1>1, <1>5, <1>6, <1>8, <1>9
<1>11. /\ Len(<<>>) = 0 /\ \A g \in Files : Size[g] \in Nat \ {0}
       /\ \A j \in DOMAIN content : Len(content[j]) \in Nat
       /\ \A j \in DOMAIN content : origin[j] \in Files /\ origin'[j] \in Files
  BY <1>6, <1>9, DomainSeq DEF IInv, TypeOK
\* An inode that holds all of its file is not empty, and keeps its origin.
<1>12. ASSUME NEW j \in DOMAIN content, taint'[j] = {},
              Len(content[j]) = Size[origin[j]]
       PROVE  Len(content[j]) = Size[origin'[j]]
  <2>1. content[j] # <<>>
    BY <1>11, <1>12
  <2> QED
    BY <1>10, <1>12, <2>1
<1>13. TypeOK'
  <2>1. \A v \in DOMAIN dl' : dl'[v].pc \in {"copy", "rename"} =>
            dl'[v].out \in DOMAIN content'
    <3> SUFFICES ASSUME NEW v \in DOMAIN dl', dl'[v].pc \in {"copy", "rename"}
                 PROVE  dl'[v].out \in DOMAIN content
      BY <1>2
    <3>1. CASE v = w
      BY <3>1, <1>1, <1>7
    <3>2. CASE v # w
      BY <3>2, <1>7 DEF IInv, TypeOK
    <3> QED
      BY <3>1, <3>2
  <2> QED
    BY <1>2, <1>5, <1>6, <1>7, <2>1 DEF IInv, TypeOK, Typed
<1>14. InvPrefix'
  <2> SUFFICES ASSUME NEW j \in DOMAIN content, taint'[j] = {}, NEW k \in DOMAIN content[j]
               PROVE  content[j][k] = <<origin'[j], k>>
    BY <1>2 DEF InvPrefix, Clean
  <2>1. content[j] # <<>>
    OBVIOUS
  <2> QED
    BY <2>1, <1>10 DEF IInv, InvPrefix, Clean
<1>15. InvLength'
  <2> SUFFICES ASSUME NEW j \in DOMAIN content, taint'[j] = {}
               PROVE  Len(content[j]) <= Size[origin'[j]]
    BY <1>2 DEF InvLength, Clean
  <2>1. CASE content[j] = <<>>
    BY <2>1, <1>11
  <2>2. CASE content[j] # <<>>
    BY <2>2, <1>10 DEF IInv, InvLength, Clean
  <2> QED
    BY <2>1, <2>2
<1>16. ASSUME NEW v \in DOMAIN dl', dl'[v].pc = "copy", taint'[dl'[v].out] = {}, v # w
       PROVE  /\ dl'[v] = dl[v] /\ v \in DOMAIN dl /\ dl[v].out \in DOMAIN content
              /\ dl[v].out # i
  <2>1. dl'[v] = dl[v] /\ v \in DOMAIN dl /\ dl[v].out \in DOMAIN content
    BY <1>16, <1>7 DEF IInv, TypeOK
  <2>2. dl[v].out = i => v \in Writers(i) /\ t = {}
    BY <1>16, <1>5, <2>1 DEF Writers
  <2> QED
    BY <2>1, <2>2, <1>8
<1>17. InvWriter'
  <2> SUFFICES ASSUME NEW v \in DOMAIN dl', dl'[v].pc = "copy", taint'[dl'[v].out] = {}
               PROVE  /\ dl'[v].file = origin'[dl'[v].out]
                      /\ dl'[v].copied = Len(content[dl'[v].out])
    BY <1>2 DEF InvWriter, Clean
  <2>1. CASE v = w
    BY <2>1, <1>5, <1>7, <1>8
  <2>2. CASE v # w
    <3>1. /\ dl'[v] = dl[v] /\ v \in DOMAIN dl /\ dl[v].out \in DOMAIN content
          /\ dl[v].out # i
      BY <2>2, <1>16
    <3>2. taint[dl[v].out] = {} /\ origin'[dl[v].out] = origin[dl[v].out]
      BY <3>1, <1>5, <1>6, <1>9
    <3> QED
      BY <3>1, <3>2 DEF IInv, InvWriter, Clean
  <2> QED
    BY <2>1, <2>2
<1>18. InvSole'
  <2> SUFFICES ASSUME NEW u \in DOMAIN dl', NEW v \in DOMAIN dl',
                      dl'[u].pc = "copy", dl'[v].pc = "copy", dl'[u].out = dl'[v].out,
                      taint'[dl'[u].out] = {}
               PROVE  u = v
    BY DEF InvSole, Clean
  <2>1. CASE u = w \/ v = w
    BY <2>1, <1>7, <1>16
  <2>2. CASE u # w /\ v # w
    <3>1. /\ dl'[u] = dl[u] /\ u \in DOMAIN dl /\ dl[u].out \in DOMAIN content
          /\ dl'[v] = dl[v] /\ v \in DOMAIN dl
      BY <2>2, <1>16
    <3>2. taint[dl[u].out] = {}
      BY <3>1, <1>10
    <3> QED
      BY <3>1, <3>2 DEF IInv, InvSole, Clean
  <2> QED
    BY <2>1, <2>2
<1>19. InvRename'
  <2> SUFFICES ASSUME NEW v \in DOMAIN dl', dl'[v].pc = "rename", taint'[dl'[v].out] = {}
               PROVE  Len(content[dl'[v].out]) = Size[origin'[dl'[v].out]]
    BY <1>2 DEF InvRename, Clean
  <2>1. dl'[v] = dl[v] /\ v \in DOMAIN dl /\ dl[v].out \in DOMAIN content
    BY <1>7 DEF IInv, TypeOK
  <2>2. Len(content[dl[v].out]) = Size[origin[dl[v].out]]
    BY <2>1, <1>10 DEF IInv, InvRename, Clean
  <2> QED
    BY <2>1, <2>2, <1>12
<1>20. InvTarget'
  <2> DEFINE tg == names["target"]
  <2> SUFFICES ASSUME Exists("target"), taint'[tg] = {}
               PROVE  Len(content[tg]) = Size[origin'[tg]]
    BY <1>2 DEF InvTarget, Exists, Clean
  <2>1. tg \in DOMAIN content
    BY DEF IInv, TypeOK, Exists
  <2>2. Len(content[tg]) = Size[origin[tg]]
    BY <2>1, <1>10 DEF IInv, InvTarget, Clean
  <2> QED
    BY <2>1, <2>2, <1>12
<1> QED
  BY <1>13, <1>14, <1>15, <1>17, <1>18, <1>19, <1>20 DEF IInv

LEMMA CreateStep ==
    ASSUME IInv, NEW w \in Workers, NEW sized \in BOOLEAN, Accept(w, sized),
           ~Exists("tmp")
    PROVE  IInv'
<1> DEFINE i == Len(content) + 1
           f == dl[w].file
           t == IF dl[w].copied = 0 THEN {} ELSE {"shared"}
<1>1. /\ w \in DOMAIN dl /\ f \in Files /\ i \in Nat /\ t \in SUBSET Taints
      /\ content \in Seq(Seq(Files \X Nat)) /\ origin \in Seq(Files)
      /\ taint \in Seq(SUBSET Taints) /\ <<>> \in Seq(Files \X Nat)
      /\ DOMAIN content = 1 .. Len(content) /\ Len(content) \in Nat
      /\ DOMAIN origin = DOMAIN content /\ DOMAIN taint = DOMAIN content
      /\ Len(origin) = Len(content) /\ Len(taint) = Len(content)
  BY DomainSeq DEF Accept, At, IInv, TypeOK, Download, Taints
<1>2. /\ names' = With(names, "tmp", i)
      /\ content' = Append(content, <<>>) /\ origin' = Append(origin, f)
      /\ taint' = Append(taint, t)
      /\ dl' = [dl EXCEPT ![w].pc = "copy", ![w].sized = sized, ![w].out = i]
  BY DEF Accept, OpenTmp, With
<1> HIDE DEF t, f
<1>3. /\ content' \in Seq(Seq(Files \X Nat)) /\ Len(content') = i
      /\ DOMAIN content' = 1 .. i /\ content'[i] = <<>>
      /\ \A j \in DOMAIN content : content'[j] = content[j]
  BY <1>1, <1>2, AppendSeq
<1>4. /\ origin' \in Seq(Files) /\ Len(origin') = i /\ origin'[i] = f
      /\ \A j \in DOMAIN content : origin'[j] = origin[j]
  BY <1>1, <1>2, AppendSeq
<1>5. /\ taint' \in Seq(SUBSET Taints) /\ Len(taint') = i /\ taint'[i] = t
      /\ \A j \in DOMAIN content : taint'[j] = taint[j]
  BY <1>1, <1>2, AppendSeq
<1>6. /\ DOMAIN dl' = DOMAIN dl
      /\ \A v \in DOMAIN dl : v # w => dl'[v] = dl[v]
      /\ dl'[w].pc = "copy" /\ dl'[w].out = i
      /\ dl'[w].file = f /\ dl'[w].copied = dl[w].copied
      /\ \A v \in DOMAIN dl' : Typed(v)
  BY <1>1, <1>2, AcceptMoves DEF f, IInv
<1>7. /\ DOMAIN names' = DOMAIN names \cup {"tmp"} /\ names'["tmp"] = i
      /\ \A n \in DOMAIN names : n # "tmp" => names'[n] = names[n]
  BY <1>2 DEF With
<1>8. i \notin DOMAIN content /\ DOMAIN content' = DOMAIN content \cup {i}
  BY <1>1, <1>3
<1>9. ASSUME NEW v \in DOMAIN dl', v # w, dl'[v].pc \in {"copy", "rename"}
      PROVE  /\ dl'[v] = dl[v] /\ v \in DOMAIN dl /\ dl[v].out \in DOMAIN content
             /\ content'[dl[v].out] = content[dl[v].out]
             /\ origin'[dl[v].out] = origin[dl[v].out]
             /\ taint'[dl[v].out] = taint[dl[v].out]
  BY <1>9, <1>3, <1>4, <1>5, <1>6 DEF IInv, TypeOK
<1>10. /\ Len(<<>>) = 0 /\ DOMAIN <<>> = {} /\ Size[f] \in Nat \ {0}
       /\ t = {} => dl[w].copied = 0
  BY <1>1 DEF t
<1> HIDE DEF i
<1>11. TypeOK'
  <2>1. \A v \in DOMAIN dl' : dl'[v].pc \in {"copy", "rename"} =>
            dl'[v].out \in DOMAIN content'
    BY <1>6, <1>8, <1>9
  <2>2. /\ DOMAIN names' \subseteq {"tmp", "target"}
        /\ \A n \in DOMAIN names' : names'[n] \in DOMAIN content'
    BY <1>7, <1>8 DEF IInv, TypeOK
  <2> QED
    BY <1>3, <1>4, <1>5, <1>6, <2>1, <2>2 DEF IInv, TypeOK, Typed
<1>12. InvPrefix'
  <2> SUFFICES ASSUME NEW j \in DOMAIN content', taint'[j] = {}, NEW k \in DOMAIN content'[j]
               PROVE  content'[j][k] = <<origin'[j], k>>
    BY DEF InvPrefix, Clean
  <2>1. j \in DOMAIN content
    BY <1>3, <1>8, <1>10
  <2> QED
    BY <2>1, <1>3, <1>4, <1>5 DEF IInv, InvPrefix, Clean
<1>13. InvLength'
  <2> SUFFICES ASSUME NEW j \in DOMAIN content', taint'[j] = {}
               PROVE  Len(content'[j]) <= Size[origin'[j]]
    BY DEF InvLength, Clean
  <2>1. CASE j = i
    BY <2>1, <1>3, <1>4, <1>10
  <2>2. CASE j \in DOMAIN content
    BY <2>2, <1>3, <1>4, <1>5 DEF IInv, InvLength, Clean
  <2> QED
    BY <2>1, <2>2, <1>8
<1>14. InvWriter'
  <2> SUFFICES ASSUME NEW v \in DOMAIN dl', dl'[v].pc = "copy", taint'[dl'[v].out] = {}
               PROVE  /\ dl'[v].file = origin'[dl'[v].out]
                      /\ dl'[v].copied = Len(content'[dl'[v].out])
    BY DEF InvWriter, Clean
  <2>1. CASE v = w
    BY <2>1, <1>3, <1>4, <1>5, <1>6, <1>10
  <2>2. CASE v # w
    BY <2>2, <1>9 DEF IInv, InvWriter, Clean
  <2> QED
    BY <2>1, <2>2
<1>15. InvSole'
  <2> SUFFICES ASSUME NEW u \in DOMAIN dl', NEW v \in DOMAIN dl',
                      dl'[u].pc = "copy", dl'[v].pc = "copy", dl'[u].out = dl'[v].out,
                      taint'[dl'[u].out] = {}
               PROVE  u = v
    BY DEF InvSole, Clean
  <2>1. CASE u = w \/ v = w
    BY <2>1, <1>6, <1>8, <1>9
  <2>2. CASE u # w /\ v # w
    BY <2>2, <1>9 DEF IInv, InvSole, Clean
  <2> QED
    BY <2>1, <2>2
<1>16. InvRename'
  <2> SUFFICES ASSUME NEW v \in DOMAIN dl', dl'[v].pc = "rename", taint'[dl'[v].out] = {}
               PROVE  Len(content'[dl'[v].out]) = Size[origin'[dl'[v].out]]
    BY DEF InvRename, Clean
  <2> QED
    BY <1>6, <1>9 DEF IInv, InvRename, Clean
<1>17. InvTarget'
  <2> SUFFICES ASSUME Exists("target")', taint'[names'["target"]] = {}
               PROVE  Len(content'[names'["target"]]) = Size[origin'[names'["target"]]]
    BY DEF InvTarget, Clean
  <2>1. /\ Exists("target") /\ names'["target"] = names["target"]
        /\ names["target"] \in DOMAIN content
    BY <1>7 DEF Exists, IInv, TypeOK
  <2> QED
    BY <2>1, <1>3, <1>4, <1>5 DEF IInv, InvTarget, Clean
<1> QED
  BY <1>11, <1>12, <1>13, <1>14, <1>15, <1>16, <1>17 DEF IInv

------------------------------------------------------------------------------
LEMMA InitInv == Init => IInv
  BY DEF Init, IInv, TypeOK, InvPrefix, InvLength, InvWriter, InvSole, InvRename,
         InvTarget, Exists

LEMMA WorkStep ==
    ASSUME IInv, NEW w \in Workers, Work(w)
    PROVE  IInv'
<1>1. CASE Measure(w)
  BY <1>1, MeasureStep
<1>2. CASE ConnectionFails(w) \/ HttpError(w)
  BY <1>2, AttemptEnds DEF ConnectionFails, HttpError, At
<1>3. CASE ServerRestarts(w)
  BY <1>3, AttemptEnds DEF ServerRestarts, At, Without
<1>4. ASSUME NEW sized \in BOOLEAN, Accept(w, sized)
      PROVE  IInv'
  BY <1>4, ResumeStep, CreateStep
<1>5. CASE CopyPiece(w)
  BY <1>5, CopyPieceStep
<1>6. CASE ProgressCancelled(w) \/ ReadStalls(w)
  BY <1>6, LastPieceStep
<1>7. CASE ReadFails(w)
  BY <1>7, AttemptEnds DEF ReadFails, At
<1>8. CASE EndOfBody(w)
  BY <1>8, EndOfBodyStep
<1>9. CASE ShortBody(w)
  BY <1>9, ShortBodyStep
<1>10. CASE Rename(w)
  BY <1>10, RenameStep
<1>11. CASE RenameFails(w)
  BY <1>11, AttemptEnds DEF RenameFails, At
<1> QED
  BY <1>1, <1>2, <1>3, <1>4, <1>5, <1>6, <1>7, <1>8, <1>9, <1>10, <1>11 DEF Work

LEMMA StepInv == IInv /\ [Next]_vars => IInv'
<1> SUFFICES ASSUME IInv, [Next]_vars
             PROVE  IInv'
  OBVIOUS
<1>1. ASSUME NEW w \in Workers, NEW f \in Files, Begin(w, f)
      PROVE  IInv'
  BY <1>1, BeginStep
<1>2. ASSUME NEW w \in Workers, Work(w)
      PROVE  IInv'
  BY <1>2, WorkStep
<1>3. CASE CancelDownloads
  BY <1>3, CancelStep
<1>4. CASE Crash
  BY <1>4, CrashStep
<1>5. CASE DeleteTarget
  BY <1>5, DeleteStep
<1>6. CASE UNCHANGED vars
  BY <1>6 DEF vars, IInv, TypeOK, InvPrefix, InvLength, InvWriter, InvSole,
              InvRename, InvTarget, Exists, Clean
<1> QED
  BY <1>1, <1>2, <1>3, <1>4, <1>5, <1>6 DEF Next

LEMMA Inductive == Spec => []IInv
  BY InitInv, StepInv, PTL DEF Spec

(***************************************************************************)
(* Types hold in every execution; in particular no attempt is numbered     *)
(* beyond the last one, and every name and open file has an inode.         *)
(***************************************************************************)
THEOREM TypeCorrect == Spec => []TypeOK
<1>1. IInv => TypeOK
  BY DEF IInv
<1> QED
  BY <1>1, Inductive, PTL

(***************************************************************************)
(* What a thread resumes is a beginning of its file, and what it writes    *)
(* next is the piece that follows.                                         *)
(***************************************************************************)
THEOREM PartialsArePrefixes == Spec => []PartialIsPrefix
<1>1. IInv => PartialIsPrefix
  BY DEF IInv, PartialIsPrefix, InvPrefix, InvWriter, Clean, Writers
<1> QED
  BY <1>1, Inductive, PTL

(***************************************************************************)
(* An installed model that no accident touched is the whole file.          *)
(***************************************************************************)
THEOREM InstalledModelsAreWhole == Spec => []TargetWhole
<1>1. IInv => TargetWhole
  <2> DEFINE t == names["target"]
             s == content[t]
             n == Size[origin[t]]
  <2> SUFFICES ASSUME IInv, Exists("target"), taint[t] = {}
               PROVE  s = Whole(origin[t])
    BY DEF TargetWhole
  <2>1. t \in DOMAIN content
    BY DEF IInv, TypeOK, Exists
  <2>2. s \in Seq(Files \X Nat)
    BY <2>1, DomainSeq DEF IInv, TypeOK
  <2>3. Len(s) = n
    BY DEF IInv, InvTarget, Clean
  <2>4. \A k \in DOMAIN s : s[k] = <<origin[t], k>>
    BY <2>1 DEF IInv, InvPrefix, Clean
  <2> HIDE DEF t, s
  <2>5. s = [k \in 1 .. n |-> <<origin[t], k>>]
    BY <2>2, <2>3, <2>4
  <2> QED
    BY <2>5 DEF Whole
<1> QED
  BY <1>1, Inductive, PTL
==============================================================================
