---------------------------- MODULE ModelDownload ----------------------------
(***************************************************************************)
(* downloadFromHuggingFace of ModelRepository.kt: several attempts at one  *)
(* file, each resuming the temporary file the last one left, and a rename  *)
(* at the end.                                                             *)
(*                                                                         *)
(* All files of the hub here end in the same name, so that they share the  *)
(* temporary file and the target.  A cancelled download is a thread that   *)
(* goes on until it next reports progress; meanwhile a new screen may      *)
(* start another.  Files are inodes: an open file survives its name.       *)
(***************************************************************************)
EXTENDS Integers, Sequences

CONSTANTS
    Files,        \* files of the hub with one last path component
    Size,         \* their sizes, in pieces of one read
    Workers,      \* threads that download
    MaxAttempts,  \* maxAttempts
    MaxInodes     \* bound of the model: temporary files created

ASSUME DownloadAssumption ==
    /\ Size \in [Files -> Nat \ {0}]
    /\ MaxAttempts \in Nat \ {0}
    /\ MaxInodes \in Nat

VARIABLES
    names,    \* the directory: names to inodes
    content,  \* inodes to the pieces written to them
    origin,   \* history: the file an inode was created for
    taint,    \* history: what may have spoiled an inode
    dl        \* the running downloads: threads to their local variables

vars == <<names, content, origin, taint, dl>>

inodes == <<content, origin, taint>>

Whole(f) == [i \in 1 .. Size[f] |-> <<f, i>>]

Without(fn, x) == [y \in DOMAIN fn \ {x} |-> fn[y]]
With(fn, x, v) == [y \in DOMAIN fn \cup {x} |-> IF y = x THEN v ELSE fn[y]]

Exists(n) == n \in DOMAIN names
At(w, pc) == w \in DOMAIN dl /\ dl[w].pc = pc
Writers(i) == {w \in DOMAIN dl : dl[w].pc = "copy" /\ dl[w].out = i}

Init ==
    /\ names = [n \in {} |-> 0]
    /\ content = <<>> /\ origin = <<>> /\ taint = <<>>
    /\ dl = [w \in {} |-> 0]

\* The screen starts a download: its own last one has ended, but one that was
\* cancelled with an earlier screen may still run.
Begin(w, f) ==
    /\ w \notin DOMAIN dl
    /\ \A v \in DOMAIN dl : dl[v].cancelled
    /\ dl' = With(dl, w, [file |-> f, pc |-> "measure", attempt |-> 0, copied |-> 0,
                          sized |-> FALSE, out |-> 0, cancelled |-> FALSE])
    /\ UNCHANGED <<names, inodes>>

\* An attempt begins with the length of the temporary file.
Measure(w) ==
    /\ At(w, "measure")
    /\ dl' = [dl EXCEPT ![w].pc = "request",
                        ![w].copied = IF Exists("tmp") THEN Len(content[names["tmp"]]) ELSE 0]
    /\ UNCHANGED <<names, inodes>>

\* The download fails: the exception goes to the screen.
Fail(w) == dl' = Without(dl, w)

\* The attempt ended with an IOException: the next one, if there is one left.
NextAttempt(w) ==
    IF dl[w].attempt < MaxAttempts - 1
    THEN dl' = [dl EXCEPT ![w].pc = "measure", ![w].attempt = @ + 1,
                          ![w].sized = FALSE, ![w].out = 0]
    ELSE Fail(w)

ConnectionFails(w) ==
    /\ At(w, "request")
    /\ NextAttempt(w)
    /\ UNCHANGED <<names, inodes>>

\* Any code but the expected ones, 416 if there is nothing left to ask for.
HttpError(w) ==
    /\ At(w, "request")
    /\ Fail(w)
    /\ UNCHANGED <<names, inodes>>

\* 200 for a range: the temporary file is deleted and an attempt used up.
ServerRestarts(w) ==
    /\ At(w, "request") /\ dl[w].copied > 0
    /\ names' = Without(names, "tmp")
    /\ NextAttempt(w)
    /\ UNCHANGED inodes

\* What opening inode i for thread w may spoil.
Spoils(w, i) ==
    (IF content[i] # <<>> /\ origin[i] # dl[w].file THEN {"mixed"} ELSE {})
        \cup (IF Writers(i) # {} \/ Len(content[i]) # dl[w].copied THEN {"shared"} ELSE {})

\* The temporary file is opened for appending, and created if need be.
OpenTmp(w) ==
    IF Exists("tmp")
    THEN LET i == names["tmp"] IN
         /\ taint' = [taint EXCEPT ![i] = @ \cup Spoils(w, i)]
         /\ origin' = IF content[i] = <<>> THEN [origin EXCEPT ![i] = dl[w].file] ELSE origin
         /\ UNCHANGED <<names, content>>
    ELSE /\ Len(content) < MaxInodes
         /\ names' = With(names, "tmp", Len(content) + 1)
         /\ content' = Append(content, <<>>)
         /\ origin' = Append(origin, dl[w].file)
         /\ taint' = Append(taint, IF dl[w].copied = 0 THEN {} ELSE {"shared"})

\* Mutant: a body that starts at the beginning is taken for the rest.
Accept_WholeBody(w, sized) ==
    /\ At(w, "request")
    /\ OpenTmp(w)
    /\ dl' = [dl EXCEPT ![w].pc = "copy", ![w].copied = 0,
                        ![w].sized = sized, ![w].out = names'["tmp"]]

\* 206 for a range, 200 for the file; the response may state its length.
Accept(w, sized) ==
    /\ At(w, "request") /\ dl[w].copied < Size[dl[w].file]
    /\ OpenTmp(w)
    /\ dl' = [dl EXCEPT ![w].pc = "copy", ![w].sized = sized,
                        ![w].out = names'["tmp"]]

\* One read and the write of what it got.
Write(w) ==
    /\ At(w, "copy") /\ dl[w].copied < Size[dl[w].file]
    /\ content' = [content EXCEPT ![dl[w].out] = Append(@, <<dl[w].file, dl[w].copied + 1>>)]
    /\ UNCHANGED <<names, origin, taint>>

CopyPiece(w) ==
    /\ Write(w)
    /\ ~(dl[w].sized /\ dl[w].cancelled)
    /\ dl' = [dl EXCEPT ![w].copied = @ + 1]

\* Progress is reported when the length is known: there a cancelled download
\* ends.
ProgressCancelled(w) ==
    /\ Write(w)
    /\ dl[w].sized /\ dl[w].cancelled
    /\ Fail(w)

\* 30 seconds without progress: since the last read if the length is known,
\* since the response if it is not.
ReadStalls(w) ==
    /\ Write(w)
    /\ NextAttempt(w)

ReadFails(w) ==
    /\ At(w, "copy")
    /\ ~dl[w].sized \/ dl[w].copied < Size[dl[w].file]
    /\ NextAttempt(w)
    /\ UNCHANGED <<names, inodes>>

\* Mutant: the end of the stream is the end of the file.
EndOfBody_Early(w) ==
    /\ At(w, "copy")
    /\ dl' = [dl EXCEPT ![w].pc = "rename", ![w].sized = FALSE]
    /\ UNCHANGED <<names, inodes>>

EndOfBody(w) ==
    /\ At(w, "copy") /\ dl[w].copied = Size[dl[w].file]
    /\ dl' = [dl EXCEPT ![w].pc = "rename", ![w].sized = FALSE]
    /\ UNCHANGED <<names, inodes>>

\* A body of unknown length that ends early looks like one that ends.
ShortBody(w) ==
    /\ At(w, "copy") /\ ~dl[w].sized /\ dl[w].copied < Size[dl[w].file]
    /\ dl' = [dl EXCEPT ![w].pc = "rename", ![w].sized = FALSE]
    /\ taint' = [taint EXCEPT ![dl[w].out] = @ \cup {"short"}]
    /\ UNCHANGED <<names, content, origin>>

\* Whatever has the name of the temporary file becomes the target.
Rename(w) ==
    /\ At(w, "rename") /\ Exists("tmp")
    /\ names' = With(Without(names, "tmp"), "target", names["tmp"])
    /\ taint' = IF names["tmp"] = dl[w].out THEN taint
                ELSE [taint EXCEPT ![names["tmp"]] = @ \cup {"shared"}]
    /\ dl' = Without(dl, w)
    /\ UNCHANGED <<content, origin>>

RenameFails(w) ==
    /\ At(w, "rename")
    /\ Fail(w)
    /\ UNCHANGED <<names, inodes>>

\* The screen is destroyed: its download is cancelled, which its thread does
\* not notice.
CancelDownloads ==
    /\ \E w \in DOMAIN dl : ~dl[w].cancelled
    /\ dl' = [w \in DOMAIN dl |-> [dl[w] EXCEPT !.cancelled = TRUE]]
    /\ UNCHANGED <<names, inodes>>

\* The process dies: the files stay.
Crash ==
    /\ DOMAIN dl # {}
    /\ dl' = [w \in {} |-> 0]
    /\ UNCHANGED <<names, inodes>>

\* deleteInstalledModel
DeleteTarget ==
    /\ Exists("target")
    /\ names' = Without(names, "target")
    /\ UNCHANGED <<inodes, dl>>

Work(w) ==
    \/ Measure(w)
    \/ ConnectionFails(w) \/ HttpError(w) \/ ServerRestarts(w)
    \/ \E sized \in BOOLEAN : Accept(w, sized)
    \/ CopyPiece(w) \/ ProgressCancelled(w) \/ ReadStalls(w) \/ ReadFails(w)
    \/ EndOfBody(w) \/ ShortBody(w)
    \/ Rename(w) \/ RenameFails(w)

Next ==
    \/ \E w \in Workers, f \in Files : Begin(w, f)
    \/ \E w \in Workers : Work(w)
    \/ CancelDownloads \/ Crash \/ DeleteTarget

Spec == Init /\ [][Next]_vars

------------------------------------------------------------------------------
Taints == {"mixed", "shared", "short"}

Download == [file : Files, pc : {"measure", "request", "copy", "rename"},
             attempt : Nat, copied : Nat, sized : BOOLEAN, out : Nat,
             cancelled : BOOLEAN]

\* Types; a name and a thread that copies have an inode; attempts are numbered.
TypeOK ==
    /\ DOMAIN names \subseteq {"tmp", "target"}
    /\ content \in Seq(Seq(Files \X Nat))
    /\ origin \in Seq(Files) /\ taint \in Seq(SUBSET Taints)
    /\ Len(origin) = Len(content) /\ Len(taint) = Len(content)
    /\ \A n \in DOMAIN names : names[n] \in DOMAIN content
    /\ DOMAIN dl \subseteq Workers
    /\ \A w \in DOMAIN dl :
           /\ dl[w] \in Download
           /\ dl[w].attempt < MaxAttempts
           /\ dl[w].pc \in {"copy", "rename"} => dl[w].out \in DOMAIN content

(***************************************************************************)
(* An installed model is the whole file that was asked for, through every  *)
(* sequence of retries, resumptions, restarts by the server, crashes and   *)
(* cancellations, unless its temporary file was begun for another file,    *)
(* was written by two threads, or came from a body that stated no length   *)
(* and ended early.                                                        *)
(***************************************************************************)
TargetWhole ==
    Exists("target") /\ taint[names["target"]] = {} =>
        content[names["target"]] = Whole(origin[names["target"]])

(***************************************************************************)
(* What is resumed is a beginning of the file: without these accidents the *)
(* temporary file holds the first pieces of its file and nothing else, and *)
(* every thread that writes to it writes the piece that comes next.        *)
(***************************************************************************)
PartialIsPrefix ==
    \A i \in DOMAIN content : taint[i] = {} =>
        /\ \A k \in DOMAIN content[i] : content[i][k] = <<origin[i], k>>
        /\ \A w \in Writers(i) : dl[w].file = origin[i] /\ dl[w].copied = Len(content[i])

(***************************************************************************)
(* What the repository says of this code and the code does not do.         *)
(***************************************************************************)
\* "Partial content - resume ok": the partial file is one of the same file.
ResumesSameFile == \A i \in DOMAIN taint : "mixed" \notin taint[i]
==============================================================================
