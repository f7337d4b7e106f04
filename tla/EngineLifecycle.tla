--------------------------- MODULE EngineLifecycle ---------------------------
(***************************************************************************)
(* What the interface InferenceEngine promises to its callers, without the *)
(* dispatcher, the queue, the flow of a reply and the handles: the phases  *)
(* its State goes through, which model answers, and when a system prompt   *)
(* is still accepted.  One operation has the model at a time; the model it *)
(* has is the one loaded last, and it keeps it to the end.  After destroy  *)
(* the interface promises nothing.                                         *)
(***************************************************************************)
EXTENDS Naturals

VARIABLES
    phase,   \* the public state; "gone" once the engine is destroyed
    model,   \* the model in memory that can answer, 0 for none
    read,    \* models read into memory so far
    fresh    \* is a system prompt still accepted?

vars == <<phase, model, read, fresh>>

\* isModelLoaded
LoadedPhases == {"ready", "system", "prompt", "reply", "bench"}
Phases == LoadedPhases \cup {"starting", "empty", "loading", "unloading", "failed", "gone"}

Init == phase = "starting" /\ model = 0 /\ read = 0 /\ fresh = FALSE

Go(from, to) == phase = from /\ phase' = to

Start == Go("starting", "empty") /\ UNCHANGED <<model, read, fresh>>

\* loadModel: refused, or the model is read and then given a context, or not.
RefuseModel == Go("empty", "failed") /\ UNCHANGED <<model, read, fresh>>
BeginLoad == Go("empty", "loading") /\ fresh' = FALSE /\ UNCHANGED <<model, read>>
ReadModel ==
    /\ phase = "loading" /\ UNCHANGED <<phase, fresh>>
    /\ read' = read + 1 /\ model' = 0
FailLoad == Go("loading", "failed") /\ UNCHANGED <<model, read, fresh>>
EndLoad ==
    /\ Go("loading", "ready")
    /\ model' = read /\ model' # 0 /\ fresh' = TRUE
    /\ UNCHANGED read

\* setSystemPrompt: only right after the model was loaded.
BeginSystem == fresh /\ Go("ready", "system") /\ fresh' = FALSE /\ UNCHANGED <<model, read>>
EndSystem ==
    /\ Go("system", "ready") \/ Go("system", "failed")
    /\ UNCHANGED <<model, read, fresh>>

\* sendUserPrompt and bench
BeginPrompt == Go("ready", "prompt") /\ fresh' = FALSE /\ UNCHANGED <<model, read>>
BeginReply == Go("prompt", "reply") /\ UNCHANGED <<model, read, fresh>>
EndReply == Go("reply", "ready") /\ UNCHANGED <<model, read, fresh>>
BeginBench == Go("ready", "bench") /\ fresh' = FALSE /\ UNCHANGED <<model, read>>
EndBench == Go("bench", "ready") /\ UNCHANGED <<model, read, fresh>>

\* cleanUp of a model, or of an error.
BeginUnload == Go("ready", "unloading") /\ fresh' = FALSE /\ UNCHANGED <<model, read>>
EndUnload == Go("unloading", "empty") /\ model' = 0 /\ UNCHANGED <<read, fresh>>
Reset == Go("failed", "empty") /\ UNCHANGED <<model, read, fresh>>

\* destroy comes in any phase.
Destroy == phase' = "gone" /\ model' = 0 /\ read' = 0 /\ fresh' = FALSE

Next ==
    \/ Start
    \/ RefuseModel \/ BeginLoad \/ ReadModel \/ FailLoad \/ EndLoad
    \/ BeginSystem \/ EndSystem
    \/ BeginPrompt \/ BeginReply \/ EndReply
    \/ BeginBench \/ EndBench
    \/ BeginUnload \/ EndUnload \/ Reset
    \/ phase # "gone" /\ Destroy

Spec == Init /\ [][Next]_vars
==============================================================================
