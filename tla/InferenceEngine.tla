--------------------------- MODULE InferenceEngine ---------------------------
(***************************************************************************)
(* InferenceEngineImpl.kt: the state of the engine, its single threaded    *)
(* dispatcher and the native model and context that its operations create, *)
(* use and free (ai_chat.cpp).                                             *)
(*                                                                         *)
(* Callers are any coroutines and threads of the app: they put work in the *)
(* queue of the dispatcher, set the cancel flag, and collect the flow of a *)
(* reply.  The dispatcher runs one piece of work at a time; a reply that   *)
(* suspends in emit gives the dispatcher to the work behind it.            *)
(***************************************************************************)
EXTENDS Naturals, Sequences, FiniteSets

CONSTANTS
    MaxLoads,   \* bound of the model: models loaded in one process
    MaxQueue    \* bound of the model: calls waiting for the dispatcher

ASSUME BoundsAssumption == MaxLoads \in Nat /\ MaxQueue \in Nat \ {0}

VARIABLES
    st,          \* _state
    readySys,    \* _readyForSystemPrompt
    cancel,      \* _cancelGeneration
    queue,       \* work waiting for llamaDispatcher, in order
    running,     \* what the dispatcher's thread is doing
    reply,       \* the reply whose flow was started: is it suspended in emit?
    collector,   \* the collector of that flow
    gModel,      \* g_model: a handle, 0 for null
    gCtx,        \* g_context, with the batch, sampler and templates made with it
    models,      \* the models that are allocated
    ctxs,        \* the contexts that are allocated
    loads,       \* handles given out so far
    used,        \* history: has the loaded context processed anything?
    leaked,      \* history: did cleanUp reset an Error over an allocated model?
    destroyed,   \* history: was destroy executed?
    fault        \* a native function touched a freed handle: undefined behaviour

vars == <<st, readySys, cancel, queue, running, reply, collector, gModel, gCtx,
          models, ctxs, loads, used, leaked, destroyed, fault>>

native  == <<gModel, gCtx, models, ctxs, loads>>
history == <<used, leaked, destroyed>>

States == {"Uninitialized", "Initializing", "Initialized", "LoadingModel",
           "UnloadingModel", "ModelReady", "Benchmarking",
           "ProcessingSystemPrompt", "ProcessingUserPrompt", "Generating", "Error"}

\* isModelLoaded
LoadedStates == {"ModelReady", "Benchmarking", "ProcessingSystemPrompt",
                 "ProcessingUserPrompt", "Generating"}

Calls == {"load", "system", "user", "bench"}
Work  == Calls \cup {"init", "cleanUp", "destroy", "resume"}
Pcs   == {"idle", "init", "load", "prepare", "system", "user", "generate", "emit",
          "bench", "unload", "destroy"}

Handles == 1 .. MaxLoads

\* The handles of a loaded model, and what unload may be called with.
Live == gModel \in models /\ gCtx \in ctxs
Freeable == (gModel # 0 => gModel \in models) /\ (gCtx # 0 => gCtx \in ctxs)

------------------------------------------------------------------------------
\* The constructor launches the initialisation before anybody has the engine.
Init ==
    /\ st = "Uninitialized" /\ readySys = FALSE /\ cancel = FALSE
    /\ queue = <<"init">> /\ running = "idle"
    /\ reply = "none" /\ collector = "active"
    /\ gModel = 0 /\ gCtx = 0 /\ models = {} /\ ctxs = {} /\ loads = 0
    /\ used = FALSE /\ leaked = FALSE /\ destroyed = FALSE
    /\ fault = FALSE

(***************************************************************************)
(* Callers                                                                 *)
(***************************************************************************)
Call(op) ==
    /\ Len(queue) < MaxQueue
    /\ queue' = Append(queue, op)
    /\ UNCHANGED <<st, readySys, cancel, running, reply, collector, native, history, fault>>

CancelGeneration ==
    /\ cancel' = TRUE
    /\ UNCHANGED <<st, readySys, queue, running, reply, collector, native, history, fault>>

\* cleanUp and destroy: set the flag, then block until the dispatcher ran them.
CallBlocking(op) ==
    /\ Len(queue) < MaxQueue
    /\ cancel' = TRUE
    /\ queue' = Append(queue, op)
    /\ UNCHANGED <<st, readySys, running, reply, collector, native, history, fault>>

\* The collector takes the tokens in the buffer: a suspended emit goes on.
CollectorTakes ==
    /\ reply = "suspended" /\ collector = "active"
    /\ reply' = "resuming"
    /\ queue' = Append(queue, "resume")
    /\ UNCHANGED <<st, readySys, cancel, running, collector, native, history, fault>>

\* The collector's job is cancelled: a suspended emit ends with an exception,
\* any other at the next emit.
CollectorCancelled ==
    /\ reply # "none" /\ collector = "active"
    /\ collector' = "cancelled"
    /\ IF reply = "suspended"
       THEN reply' = "resuming" /\ queue' = Append(queue, "resume")
       ELSE UNCHANGED <<reply, queue>>
    /\ UNCHANGED <<st, readySys, cancel, running, native, history, fault>>

(***************************************************************************)
(* The dispatcher                                                          *)
(***************************************************************************)
Take(op) ==
    /\ ~fault /\ running = "idle"
    /\ queue # <<>> /\ Head(queue) = op
    /\ queue' = Tail(queue)

\* A check of the state fails: the caller gets an IllegalStateException.
Refuse(op, expected) ==
    /\ Take(op)
    /\ st # expected
    /\ UNCHANGED <<st, readySys, cancel, running, reply, collector, native, history, fault>>

StartInit ==
    /\ Take("init")
    /\ st = "Uninitialized"
    /\ st' = "Initializing" /\ running' = "init"
    /\ UNCHANGED <<readySys, cancel, reply, collector, native, history, fault>>

FinishInit ==
    /\ running = "init"
    /\ st' = "Initialized" /\ running' = "idle"
    /\ UNCHANGED <<readySys, cancel, queue, reply, collector, native, history, fault>>

\* loadModel: the options or the file are refused before anything is loaded.
LoadInvalid ==
    /\ Take("load")
    /\ st = "Initialized"
    /\ st' = "Error"
    /\ UNCHANGED <<readySys, cancel, running, reply, collector, native, history, fault>>

StartLoad ==
    /\ Take("load")
    /\ st = "Initialized"
    /\ readySys' = FALSE
    /\ st' = "LoadingModel" /\ running' = "load"
    /\ UNCHANGED <<cancel, reply, collector, native, history, fault>>

\* load: the model replaces g_model, whatever that was.
NativeLoad ==
    /\ running = "load"
    /\ loads < MaxLoads
    /\ loads' = loads + 1
    /\ gModel' = loads + 1 /\ models' = models \cup {loads + 1}
    /\ running' = "prepare"
    /\ UNCHANGED <<st, readySys, cancel, queue, reply, collector, gCtx, ctxs, history, fault>>

\* Mutant: the result of prepare is ignored.
LoadFails_Unchecked ==
    /\ running \in {"load", "prepare"}
    /\ st' = (IF running = "load" THEN "Error" ELSE "ModelReady") /\ running' = "idle"
    /\ UNCHANGED <<readySys, cancel, queue, reply, collector, native, history, fault>>

LoadFails ==
    /\ running \in {"load", "prepare"}
    /\ st' = "Error" /\ running' = "idle"
    /\ UNCHANGED <<readySys, cancel, queue, reply, collector, native, history, fault>>

\* prepare: a context for the model (the handle of the model names it too).
NativePrepare ==
    /\ running = "prepare"
    /\ gCtx' = gModel /\ ctxs' = ctxs \cup {gModel}
    /\ readySys' = TRUE /\ cancel' = FALSE /\ used' = FALSE
    /\ st' = "ModelReady" /\ running' = "idle"
    /\ UNCHANGED <<queue, reply, collector, gModel, models, loads, leaked, destroyed, fault>>

\* setSystemPrompt
RefuseSystemPrompt ==
    /\ Take("system")
    /\ ~readySys \/ st # "ModelReady"
    /\ UNCHANGED <<st, readySys, cancel, running, reply, collector, native, history, fault>>

StartSystemPrompt ==
    /\ Take("system")
    /\ readySys /\ st = "ModelReady"
    /\ readySys' = FALSE
    /\ st' = "ProcessingSystemPrompt" /\ running' = "system"
    /\ UNCHANGED <<cancel, reply, collector, native, history, fault>>

FinishSystemPrompt ==
    /\ running = "system" /\ Live
    /\ st' \in {"ModelReady", "Error"} /\ running' = "idle"
    /\ used' = TRUE
    /\ UNCHANGED <<readySys, cancel, queue, reply, collector, native, leaked, destroyed, fault>>

\* The flow of sendUserPrompt starts even when its collector is gone already.
StartUserPrompt ==
    /\ Take("user")
    /\ st = "ModelReady"
    /\ cancel' = FALSE /\ readySys' = FALSE
    /\ st' = "ProcessingUserPrompt" /\ running' = "user"
    /\ reply' = "running" /\ collector' \in {"active", "cancelled"}
    /\ UNCHANGED <<native, history, fault>>

UserPromptProcessed ==
    /\ running = "user" /\ Live
    /\ st' = "Generating" /\ running' = "generate"
    /\ used' = TRUE
    /\ UNCHANGED <<readySys, cancel, queue, reply, collector, native, leaked, destroyed, fault>>

\* processUserPrompt fails: the flow just returns.
UserPromptFails ==
    /\ running = "user" /\ Live
    /\ running' = "idle" /\ reply' = "none"
    /\ used' = TRUE
    /\ UNCHANGED <<st, readySys, cancel, queue, collector, native, leaked, destroyed, fault>>

EndReply ==
    /\ st' = "ModelReady" /\ running' = "idle" /\ reply' = "none"
    /\ UNCHANGED <<readySys, cancel, queue, collector, native, history, fault>>

\* The loop sees the cancel flag.
StopRequested ==
    /\ running = "generate" /\ cancel
    /\ EndReply

\* generateNextToken returns null.
GenerationEnds ==
    /\ running = "generate" /\ ~cancel /\ Live
    /\ EndReply

\* Mutant: the loop does not look at the cancel flag.
GenerateToken_Deaf ==
    /\ running = "generate" /\ Live
    /\ running' = "emit"
    /\ UNCHANGED <<st, readySys, cancel, queue, reply, collector, native, history, fault>>

\* generateNextToken returns a token, which may be empty.
GenerateToken ==
    /\ running = "generate" /\ ~cancel /\ Live
    /\ running' = "emit"
    /\ UNCHANGED <<st, readySys, cancel, queue, reply, collector, native, history, fault>>

\* An empty token is not emitted, any other finds room in the flow's buffer.
TokenBuffered ==
    /\ running = "emit"
    /\ running' = "generate"
    /\ UNCHANGED <<st, readySys, cancel, queue, reply, collector, native, history, fault>>

\* The buffer is full: emit suspends and the dispatcher is free.
EmitSuspends ==
    /\ running = "emit"
    /\ collector = "active"
    /\ running' = "idle" /\ reply' = "suspended"
    /\ UNCHANGED <<st, readySys, cancel, queue, collector, native, history, fault>>

\* emit throws the CancellationException of the collector.
EmitCancelled ==
    /\ running = "emit"
    /\ collector = "cancelled"
    /\ EndReply

\* Mutant: the flag is cleared when the reply goes on.
ResumeReply_ClearsCancel ==
    /\ Take("resume")
    /\ collector = "active"
    /\ reply' = "running" /\ running' = "generate" /\ cancel' = FALSE
    /\ UNCHANGED <<st, readySys, collector, native, history, fault>>

ResumeReply ==
    /\ Take("resume")
    /\ collector = "active"
    /\ reply' = "running" /\ running' = "generate"
    /\ UNCHANGED <<st, readySys, cancel, collector, native, history, fault>>

\* Mutant: the cancellation is taken for an error of the generation.
ResumeCancelled_IsError ==
    /\ Take("resume")
    /\ collector = "cancelled"
    /\ st' = "Error" /\ reply' = "none"
    /\ UNCHANGED <<readySys, cancel, running, collector, native, history, fault>>

ResumeCancelled ==
    /\ Take("resume")
    /\ collector = "cancelled"
    /\ st' = "ModelReady" /\ reply' = "none"
    /\ UNCHANGED <<readySys, cancel, running, collector, native, history, fault>>

\* Mutant: any state with a loaded model will do.
StartBench_AnyLoaded ==
    /\ Take("bench")
    /\ st \in LoadedStates
    /\ readySys' = FALSE
    /\ st' = "Benchmarking" /\ running' = "bench"
    /\ UNCHANGED <<cancel, reply, collector, native, history, fault>>

\* bench
StartBench ==
    /\ Take("bench")
    /\ st = "ModelReady"
    /\ readySys' = FALSE
    /\ st' = "Benchmarking" /\ running' = "bench"
    /\ UNCHANGED <<cancel, reply, collector, native, history, fault>>

FinishBench ==
    /\ running = "bench" /\ Live
    /\ st' = "ModelReady" /\ running' = "idle"
    /\ UNCHANGED <<readySys, cancel, queue, reply, collector, native, history, fault>>

\* Mutant: a reply that is suspended does not keep cleanUp out.
StartUnload_DuringReply ==
    /\ Take("cleanUp")
    /\ st \in {"ModelReady", "Generating"}
    /\ readySys' = FALSE
    /\ st' = "UnloadingModel" /\ running' = "unload"
    /\ UNCHANGED <<cancel, reply, collector, native, history, fault>>

\* cleanUp
StartUnload ==
    /\ Take("cleanUp")
    /\ st = "ModelReady"
    /\ readySys' = FALSE
    /\ st' = "UnloadingModel" /\ running' = "unload"
    /\ UNCHANGED <<cancel, reply, collector, native, history, fault>>

ResetError ==
    /\ Take("cleanUp")
    /\ st = "Error"
    /\ st' = "Initialized"
    /\ leaked' = (leaked \/ models # {})
    /\ UNCHANGED <<readySys, cancel, running, reply, collector, native, used, destroyed, fault>>

RefuseCleanUp ==
    /\ Take("cleanUp")
    /\ st \notin {"ModelReady", "Error"}
    /\ UNCHANGED <<st, readySys, cancel, running, reply, collector, native, history, fault>>

\* Mutant: the model is not freed with its context.
NativeUnload_KeepsModel ==
    /\ Freeable
    /\ ctxs' = ctxs \ {gCtx}
    /\ UNCHANGED <<gModel, gCtx, models, loads>>

\* unload: the handles are freed and keep their values.
NativeUnload ==
    /\ Freeable
    /\ models' = models \ {gModel} /\ ctxs' = ctxs \ {gCtx}
    /\ UNCHANGED <<gModel, gCtx, loads>>

FinishUnload ==
    /\ running = "unload"
    /\ NativeUnload
    /\ st' = "Initialized" /\ running' = "idle"
    /\ UNCHANGED <<readySys, cancel, queue, reply, collector, history, fault>>

\* destroy: the state of the engine stays as it is.
DestroyUnloaded ==
    /\ Take("destroy")
    /\ st \in {"Uninitialized", "Initialized"}
    /\ readySys' = FALSE /\ destroyed' = TRUE
    /\ UNCHANGED <<st, cancel, running, reply, collector, native, used, leaked, fault>>

StartDestroy ==
    /\ Take("destroy")
    /\ st \notin {"Uninitialized", "Initialized"}
    /\ readySys' = FALSE /\ running' = "destroy"
    /\ UNCHANGED <<st, cancel, reply, collector, native, history, fault>>

FinishDestroy ==
    /\ running = "destroy"
    /\ NativeUnload
    /\ destroyed' = TRUE /\ running' = "idle"
    /\ UNCHANGED <<st, readySys, cancel, queue, reply, collector, used, leaked, fault>>

\* The native function that is about to run would touch a freed handle.
StaleHandle ==
    /\ ~fault
    /\ \/ running \in {"system", "user", "bench"} /\ ~Live
       \/ running = "generate" /\ ~cancel /\ ~Live
       \/ running \in {"unload", "destroy"} /\ ~Freeable
    /\ fault' = TRUE
    /\ UNCHANGED <<st, readySys, cancel, queue, running, reply, collector, native, history>>

Caller ==
    \/ \E op \in Calls : Call(op)
    \/ CancelGeneration
    \/ \E op \in {"cleanUp", "destroy"} : CallBlocking(op)

Collector == CollectorTakes \/ CollectorCancelled

Dispatcher ==
    \/ StartInit \/ FinishInit
    \/ Refuse("load", "Initialized") \/ LoadInvalid \/ StartLoad
    \/ NativeLoad \/ LoadFails \/ NativePrepare
    \/ RefuseSystemPrompt \/ StartSystemPrompt \/ FinishSystemPrompt
    \/ Refuse("user", "ModelReady") \/ StartUserPrompt
    \/ UserPromptProcessed \/ UserPromptFails
    \/ StopRequested \/ GenerationEnds
    \/ GenerateToken \/ TokenBuffered \/ EmitSuspends \/ EmitCancelled
    \/ ResumeReply \/ ResumeCancelled
    \/ Refuse("bench", "ModelReady") \/ StartBench \/ FinishBench
    \/ StartUnload \/ ResetError \/ RefuseCleanUp \/ FinishUnload
    \/ DestroyUnloaded \/ StartDestroy \/ FinishDestroy
    \/ StaleHandle

Next == ~fault /\ (Caller \/ Collector \/ Dispatcher)

Spec == Init /\ [][Next]_vars

\* The dispatcher's thread keeps running, and collectors keep collecting.
FairSpec == Spec /\ WF_vars(~fault /\ Dispatcher) /\ WF_vars(~fault /\ CollectorTakes)

------------------------------------------------------------------------------
\* Types; the flow that runs on the dispatcher is the reply's, and it is in
\* the queue once when it is about to resume.
TypeOK ==
    /\ st \in States /\ readySys \in BOOLEAN /\ cancel \in BOOLEAN
    /\ queue \in Seq(Work) /\ running \in Pcs
    /\ reply \in {"none", "running", "suspended", "resuming"}
    /\ collector \in {"active", "cancelled"}
    /\ gModel \in Nat /\ gCtx \in Nat /\ loads \in Nat
    /\ models \subseteq Nat /\ ctxs \subseteq Nat
    /\ used \in BOOLEAN /\ leaked \in BOOLEAN /\ destroyed \in BOOLEAN
    /\ fault \in BOOLEAN
    /\ running \in {"user", "generate", "emit"} <=> reply = "running"
    /\ (\E i \in DOMAIN queue : queue[i] = "resume") <=> reply = "resuming"
    /\ \A i, j \in DOMAIN queue : queue[i] = "resume" /\ queue[j] = "resume" => i = j

(***************************************************************************)
(* Until destroy, a state in which isModelLoaded holds has a model and a   *)
(* context behind it: no interleaving of cleanUp, a suspended reply and    *)
(* other calls frees them under a state that says they are usable.         *)
(***************************************************************************)
LoadedIsLive == ~destroyed /\ st \in LoadedStates => Live

(***************************************************************************)
(* Until destroy is executed no native function meets a freed handle,      *)
(* unless it is destroy itself after a failed load.                        *)
(***************************************************************************)
NoStaleUse == fault => destroyed \/ running = "destroy"

(***************************************************************************)
(* A reply suspended in emit keeps the engine for itself: the state stays  *)
(* Generating, so nothing but destroy touches the context between two of   *)
(* its tokens.                                                             *)
(***************************************************************************)
SuspendedOwnsEngine ==
    reply \in {"suspended", "resuming"} =>
        /\ st = "Generating"
        /\ running \in {"idle", "destroy"}

(***************************************************************************)
(* A system prompt is accepted only for a context that processed nothing   *)
(* yet ("System prompt must be set RIGHT AFTER model loaded").             *)
(***************************************************************************)
SystemPromptFirst == readySys => ~used /\ Live /\ st = "ModelReady"

(***************************************************************************)
(* Memory is lost only when an Error is reset over an allocated model: in  *)
(* every other run the global pointers name all that is allocated, and in  *)
(* Initialized there is nothing.                                           *)
(***************************************************************************)
NothingLeaks ==
    ~leaked =>
        /\ models \subseteq {gModel} /\ ctxs \subseteq {gCtx}
        /\ st = "Initialized" => models = {} /\ ctxs = {}

(***************************************************************************)
(* The cancel flag is not withdrawn while a reply is being generated: a    *)
(* request made during the generation reaches its loop.                    *)
(***************************************************************************)
CancelSticks ==
    [][st = "Generating" /\ cancel => cancel']_vars

(***************************************************************************)
(* A reply that is asked to stop stops, also when it is suspended in emit, *)
(* as long as its collector collects.                                      *)
(***************************************************************************)
CancelEndsReply ==
    (st = "Generating" /\ cancel) ~> (st # "Generating" \/ destroyed \/ fault)

(***************************************************************************)
(* The engine implements the life cycle its interface describes: whatever  *)
(* the queue, a suspended reply and its collector do, callers see one      *)
(* operation at a time, on the model that was loaded last, with the        *)
(* context that was made for it, from its first to its last step.          *)
(***************************************************************************)
Gone == destroyed \/ running = "destroy"

PhaseOf(s) ==
    CASE s \in {"Uninitialized", "Initializing"} -> "starting"
      [] s = "Initialized"            -> "empty"
      [] s = "LoadingModel"           -> "loading"
      [] s = "ModelReady"             -> "ready"
      [] s = "ProcessingSystemPrompt" -> "system"
      [] s = "ProcessingUserPrompt"   -> "prompt"
      [] s = "Generating"             -> "reply"
      [] s = "Benchmarking"           -> "bench"
      [] s = "UnloadingModel"         -> "unloading"
      [] s = "Error"                  -> "failed"

Lifecycle == INSTANCE EngineLifecycle WITH
    phase <- IF Gone THEN "gone" ELSE PhaseOf(st),
    model <- IF ~Gone /\ Live /\ gCtx = gModel THEN gModel ELSE 0,
    read  <- IF Gone THEN 0 ELSE loads,
    fresh <- ~Gone /\ readySys

ImplementsLifecycle == Lifecycle!Spec

(***************************************************************************)
(* What the repository says of this code and the code does not do.         *)
(***************************************************************************)
\* State transitions are managed: no operation leaves its own state behind
\* when it is over.
NoOperationLeftBehind ==
    running = "idle" /\ reply = "none" /\ ~destroyed =>
        st \in {"Uninitialized", "Initialized", "ModelReady", "Error"}
==============================================================================
