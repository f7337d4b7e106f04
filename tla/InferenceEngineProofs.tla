------------------------ MODULE InferenceEngineProofs ------------------------
(***************************************************************************)
(* Proofs about InferenceEngine, for any number of loads and any length of *)
(* the dispatcher's queue.  IInv adds to the invariants how the state of   *)
(* the engine follows from what the dispatcher is doing.                   *)
(***************************************************************************)
EXTENDS InferenceEngine, Integers, TLAPS

\* What the dispatcher is doing determines the state it shows.
PcState ==
    /\ running = "init" => st = "Initializing"
    /\ running \in {"load", "prepare"} => st = "LoadingModel"
    /\ running = "system" => st = "ProcessingSystemPrompt"
    /\ running = "user" => st = "ProcessingUserPrompt"
    /\ running \in {"generate", "emit"} => st = "Generating"
    /\ running = "bench" => st = "Benchmarking"
    /\ running = "unload" => st = "UnloadingModel"
    /\ running = "destroy" => st # "Initialized"

\* A state of an operation in progress belongs to the one that is running.
StatePc ==
    /\ st = "LoadingModel" => running \in {"load", "prepare"}
    /\ st = "UnloadingModel" => running = "unload"
    /\ st = "Generating" =>
           running \in {"generate", "emit"} \/ reply \in {"suspended", "resuming"}

\* Until destroy, there is a model wherever one is going to be used.
LiveInv ==
    /\ LoadedIsLive
    /\ ~destroyed /\ running = "unload" => Live
    /\ running = "prepare" => gModel \in models
    /\ running = "destroy" => ~readySys

LeakInv ==
    ~leaked =>
        /\ ctxs \subseteq models
        /\ st \in {"Uninitialized", "Initializing"} => models = {}
        /\ st = "LoadingModel" => ctxs = {}
        /\ running = "load" => models = {}

IInv == TypeOK /\ PcState /\ StatePc /\ SuspendedOwnsEngine /\ LiveInv
          /\ SystemPromptFirst /\ NothingLeaks /\ LeakInv /\ NoStaleUse

------------------------------------------------------------------------------
(***************************************************************************)
(* The queue of the dispatcher: what TypeOK says of it, for any queue q    *)
(* and state r of the reply.                                               *)
(***************************************************************************)
QueueOK(q, r) ==
    /\ q \in Seq(Work)
    /\ (\E i \in DOMAIN q : q[i] = "resume") <=> r = "resuming"
    /\ \A i, j \in DOMAIN q : q[i] = "resume" /\ q[j] = "resume" => i = j

\* The rest of TypeOK.
PlainTypes ==
    /\ st \in States /\ readySys \in BOOLEAN /\ cancel \in BOOLEAN
    /\ running \in Pcs
    /\ reply \in {"none", "running", "suspended", "resuming"}
    /\ collector \in {"active", "cancelled"}
    /\ gModel \in Nat /\ gCtx \in Nat /\ loads \in Nat
    /\ models \subseteq Nat /\ ctxs \subseteq Nat
    /\ used \in BOOLEAN /\ leaked \in BOOLEAN /\ destroyed \in BOOLEAN
    /\ fault \in BOOLEAN
    /\ running \in {"user", "generate", "emit"} <=> reply = "running"

LEMMA TypeParts == TypeOK <=> PlainTypes /\ QueueOK(queue, reply)
  BY DEF TypeOK, PlainTypes, QueueOK

LEMMA TypePartsPrimed == PlainTypes' /\ QueueOK(queue', reply') => TypeOK'
  BY DEF TypeOK, PlainTypes, QueueOK

\* Appending a call keeps the place of the reply that is about to resume.
LEMMA AppendCall ==
    ASSUME NEW q, NEW r, NEW op \in Work \ {"resume"}, QueueOK(q, r)
    PROVE  QueueOK(Append(q, op), r)
<1> DEFINE a == Append(q, op)
<1>1. q \in Seq(Work)
  BY DEF QueueOK
<1>2. a \in Seq(Work) /\ DOMAIN a = 1 .. Len(q) + 1 /\ Len(q) \in Nat /\ DOMAIN q = 1 .. Len(q)
         /\ a[Len(q) + 1] = op /\ \A i \in 1 .. Len(q) : a[i] = q[i]
  BY <1>1
<1>3. \A i \in DOMAIN a : a[i] = "resume" => i \in DOMAIN q /\ q[i] = "resume"
  BY <1>2
<1>4. \A i \in DOMAIN q : i \in DOMAIN a /\ a[i] = q[i]
  BY <1>2
<1> HIDE DEF a
<1>5. QueueOK(a, r)
  BY <1>2, <1>3, <1>4 DEF QueueOK
<1>6. QED
  BY <1>5 DEF a

\* A suspended reply enters the queue once.
LEMMA AppendResume ==
    ASSUME NEW q, QueueOK(q, "suspended")
    PROVE  QueueOK(Append(q, "resume"), "resuming")
<1> DEFINE a == Append(q, "resume")
<1>1. q \in Seq(Work) /\ \A i \in DOMAIN q : q[i] # "resume"
  BY DEF QueueOK
<1>2. a \in Seq(Work) /\ DOMAIN a = 1 .. Len(q) + 1 /\ Len(q) \in Nat /\ DOMAIN q = 1 .. Len(q)
         /\ a[Len(q) + 1] = "resume" /\ \A i \in 1 .. Len(q) : a[i] = q[i]
  BY <1>1 DEF Work, Calls
<1>3. \A i \in DOMAIN a : a[i] = "resume" <=> i = Len(q) + 1
  BY <1>1, <1>2
<1>4. Len(q) + 1 \in DOMAIN a
  BY <1>2
<1> HIDE DEF a
<1>5. QueueOK(a, "resuming")
  BY <1>2, <1>3, <1>4 DEF QueueOK
<1>6. QED
  BY <1>5 DEF a

\* Taking a call leaves the reply in the queue ...
LEMMA TakeCall ==
    ASSUME NEW op \in Work \ {"resume"}, QueueOK(queue, reply), Take(op)
    PROVE  QueueOK(queue', reply)
<1>1. queue \in Seq(Work) /\ queue # <<>> /\ Len(queue) \in Nat /\ DOMAIN queue = 1 .. Len(queue)
         /\ Len(queue) >= 1 /\ queue[1] # "resume"
  BY DEF QueueOK, Take
<1>2. queue' \in Seq(Work) /\ DOMAIN queue' = 1 .. Len(queue) - 1
         /\ \A i \in 1 .. Len(queue) - 1 : queue'[i] = queue[i + 1]
  BY <1>1 DEF Take
<1>3. \A i \in DOMAIN queue : queue[i] = "resume" =>
          i - 1 \in DOMAIN queue' /\ queue'[i - 1] = "resume"
  BY <1>1, <1>2
<1>4. \A i \in DOMAIN queue' : i + 1 \in DOMAIN queue /\ queue[i + 1] = queue'[i] /\ i \in Int
  BY <1>1, <1>2
<1>5. (\E i \in DOMAIN queue' : queue'[i] = "resume") <=> reply = "resuming"
  BY <1>3, <1>4 DEF QueueOK
<1>6. ASSUME NEW i \in DOMAIN queue', NEW j \in DOMAIN queue',
             queue'[i] = "resume", queue'[j] = "resume"
      PROVE  i = j
  <2>1. i + 1 = j + 1
    BY <1>4, <1>6 DEF QueueOK
  <2>2. QED
    BY <1>4, <2>1
<1>7. QED
  BY <1>2, <1>5, <1>6 DEF QueueOK

\* ... and taking the reply leaves none.
LEMMA TakeResume ==
    ASSUME QueueOK(queue, reply), Take("resume"), NEW r, r # "resuming"
    PROVE  reply = "resuming" /\ QueueOK(queue', r)
<1>1. queue \in Seq(Work) /\ queue # <<>> /\ Len(queue) \in Nat /\ DOMAIN queue = 1 .. Len(queue)
         /\ Len(queue) >= 1 /\ queue[1] = "resume"
  BY DEF QueueOK, Take
<1>2. queue' \in Seq(Work) /\ DOMAIN queue' = 1 .. Len(queue) - 1
         /\ \A i \in 1 .. Len(queue) - 1 : queue'[i] = queue[i + 1]
  BY <1>1 DEF Take
<1>3. 1 \in DOMAIN queue
  BY <1>1
<1>4. reply = "resuming" /\ \A i \in DOMAIN queue : queue[i] = "resume" => i = 1
  BY <1>1, <1>3 DEF QueueOK
<1>5. ASSUME NEW i \in DOMAIN queue' PROVE queue'[i] # "resume"
  <2>1. i + 1 \in DOMAIN queue /\ i + 1 # 1 /\ queue'[i] = queue[i + 1]
    BY <1>1, <1>2
  <2>2. QED
    BY <1>4, <2>1
<1>6. QED
  BY <1>2, <1>4, <1>5 DEF QueueOK

------------------------------------------------------------------------------
LEMMA InitInv == Init => IInv
<1> SUFFICES ASSUME Init PROVE IInv
  OBVIOUS
<1>1. PlainTypes
  BY DEF Init, PlainTypes, States, Pcs
<1>2. QueueOK(queue, reply)
  <2>1. queue \in Seq(Work) /\ DOMAIN queue = {1} /\ queue[1] = "init"
    BY DEF Init, Work, Calls
  <2>2. QED
    BY <2>1 DEF Init, QueueOK
<1>3. TypeOK
  BY <1>1, <1>2, TypeParts
<1>4. PcState /\ StatePc /\ SuspendedOwnsEngine /\ LiveInv /\ SystemPromptFirst
         /\ NothingLeaks /\ LeakInv /\ NoStaleUse
  BY DEF Init, PcState, StatePc, SuspendedOwnsEngine, LiveInv, LoadedIsLive,
     LoadedStates,
     SystemPromptFirst, NothingLeaks, LeakInv, NoStaleUse
<1>5. QED
  BY <1>3, <1>4 DEF IInv

\* Everything IInv says besides the types.
Rest == PcState /\ StatePc /\ SuspendedOwnsEngine /\ LiveInv
          /\ SystemPromptFirst /\ NothingLeaks /\ LeakInv /\ NoStaleUse

LEMMA CancelGenerationInv == IInv /\ CancelGeneration => IInv'
<1> SUFFICES ASSUME IInv, CancelGeneration PROVE IInv'
  OBVIOUS
<1>1. PlainTypes /\ QueueOK(queue, reply) /\ Rest
  BY TypeParts DEF IInv, Rest
<1>2. QueueOK(queue', reply')
  BY <1>1 DEF CancelGeneration
<1>3. PlainTypes'
  BY <1>1, <1>2 DEF PlainTypes, CancelGeneration, States, Pcs, native, history,
     vars, Rest, SuspendedOwnsEngine
<1>4. Rest'
  BY <1>1, <1>2 DEF PlainTypes, CancelGeneration, native, history, vars, Rest,
     PcState, StatePc, SuspendedOwnsEngine, LiveInv, LoadedIsLive,
     SystemPromptFirst, NothingLeaks, LeakInv, NoStaleUse, LoadedStates, Live
<1>5. QED
  BY <1>2, <1>3, <1>4, TypePartsPrimed DEF IInv, Rest

LEMMA CollectorTakesInv == IInv /\ CollectorTakes => IInv'
<1> SUFFICES ASSUME IInv, CollectorTakes PROVE IInv'
  OBVIOUS
<1>1. PlainTypes /\ QueueOK(queue, reply) /\ Rest
  BY TypeParts DEF IInv, Rest
<1>2. QueueOK(queue', reply')
  BY <1>1, AppendResume DEF CollectorTakes
<1>3. PlainTypes'
  BY <1>1, <1>2 DEF PlainTypes, CollectorTakes, States, Pcs, native, history,
     vars, Rest, SuspendedOwnsEngine
<1>4. Rest'
  BY <1>1, <1>2 DEF PlainTypes, CollectorTakes, native, history, vars, Rest,
     PcState, StatePc, SuspendedOwnsEngine, LiveInv, LoadedIsLive,
     SystemPromptFirst, NothingLeaks, LeakInv, NoStaleUse, LoadedStates, Live
<1>5. QED
  BY <1>2, <1>3, <1>4, TypePartsPrimed DEF IInv, Rest

LEMMA CollectorCancelledInv == IInv /\ CollectorCancelled => IInv'
<1> SUFFICES ASSUME IInv, CollectorCancelled PROVE IInv'
  OBVIOUS
<1>1. PlainTypes /\ QueueOK(queue, reply) /\ Rest
  BY TypeParts DEF IInv, Rest
<1>2. QueueOK(queue', reply')
  <2>1. CASE reply = "suspended"
    BY <1>1, <2>1, AppendResume DEF CollectorCancelled
  <2>2. CASE reply # "suspended"
    BY <1>1, <2>2 DEF CollectorCancelled
  <2>3. QED
    BY <2>1, <2>2
<1>3. PlainTypes'
  BY <1>1, <1>2 DEF PlainTypes, CollectorCancelled, States, Pcs, native,
     history, vars, Rest, SuspendedOwnsEngine
<1>4. Rest'
  BY <1>1, <1>2 DEF PlainTypes, CollectorCancelled, native, history, vars, Rest,
     PcState, StatePc, SuspendedOwnsEngine, LiveInv, LoadedIsLive,
     SystemPromptFirst, NothingLeaks, LeakInv, NoStaleUse, LoadedStates, Live
<1>5. QED
  BY <1>2, <1>3, <1>4, TypePartsPrimed DEF IInv, Rest

LEMMA StartInitInv == IInv /\ StartInit => IInv'
<1> SUFFICES ASSUME IInv, StartInit PROVE IInv'
  OBVIOUS
<1>1. PlainTypes /\ QueueOK(queue, reply) /\ Rest
  BY TypeParts DEF IInv, Rest
<1>2. QueueOK(queue', reply')
  <2>1. "init" \in Work \ {"resume"} /\ Take("init") /\ reply' = reply
    BY DEF StartInit, Work, Calls
  <2>2. QED
    BY <1>1, <2>1, TakeCall
<1>3. PlainTypes'
  BY <1>1, <1>2 DEF PlainTypes, StartInit, Take, States, Pcs, native, history,
     vars, Rest, SuspendedOwnsEngine
<1>4. Rest'
  BY <1>1, <1>2 DEF PlainTypes, StartInit, Take, native, history, vars, Rest,
     PcState, StatePc, SuspendedOwnsEngine, LiveInv, LoadedIsLive,
     SystemPromptFirst, NothingLeaks, LeakInv, NoStaleUse, LoadedStates, Live
<1>5. QED
  BY <1>2, <1>3, <1>4, TypePartsPrimed DEF IInv, Rest

LEMMA FinishInitInv == IInv /\ FinishInit => IInv'
<1> SUFFICES ASSUME IInv, FinishInit PROVE IInv'
  OBVIOUS
<1>1. PlainTypes /\ QueueOK(queue, reply) /\ Rest
  BY TypeParts DEF IInv, Rest
<1>2. QueueOK(queue', reply')
  BY <1>1 DEF FinishInit
<1>3. PlainTypes'
  BY <1>1, <1>2 DEF PlainTypes, FinishInit, States, Pcs, native, history, vars,
     Rest, SuspendedOwnsEngine
<1>4. Rest'
  BY <1>1, <1>2 DEF PlainTypes, FinishInit, native, history, vars, Rest,
     PcState, StatePc, SuspendedOwnsEngine, LiveInv, LoadedIsLive,
     SystemPromptFirst, NothingLeaks, LeakInv, NoStaleUse, LoadedStates, Live
<1>5. QED
  BY <1>2, <1>3, <1>4, TypePartsPrimed DEF IInv, Rest

LEMMA LoadInvalidInv == IInv /\ LoadInvalid => IInv'
<1> SUFFICES ASSUME IInv, LoadInvalid PROVE IInv'
  OBVIOUS
<1>1. PlainTypes /\ QueueOK(queue, reply) /\ Rest
  BY TypeParts DEF IInv, Rest
<1>2. QueueOK(queue', reply')
  <2>1. "load" \in Work \ {"resume"} /\ Take("load") /\ reply' = reply
    BY DEF LoadInvalid, Work, Calls
  <2>2. QED
    BY <1>1, <2>1, TakeCall
<1>3. PlainTypes'
  BY <1>1, <1>2 DEF PlainTypes, LoadInvalid, Take, States, Pcs, native, history,
     vars, Rest, SuspendedOwnsEngine
<1>4. Rest'
  BY <1>1, <1>2 DEF PlainTypes, LoadInvalid, Take, native, history, vars, Rest,
     PcState, StatePc, SuspendedOwnsEngine, LiveInv, LoadedIsLive,
     SystemPromptFirst, NothingLeaks, LeakInv, NoStaleUse, LoadedStates, Live
<1>5. QED
  BY <1>2, <1>3, <1>4, TypePartsPrimed DEF IInv, Rest

LEMMA StartLoadInv == IInv /\ StartLoad => IInv'
<1> SUFFICES ASSUME IInv, StartLoad PROVE IInv'
  OBVIOUS
<1>1. PlainTypes /\ QueueOK(queue, reply) /\ Rest
  BY TypeParts DEF IInv, Rest
<1>2. QueueOK(queue', reply')
  <2>1. "load" \in Work \ {"resume"} /\ Take("load") /\ reply' = reply
    BY DEF StartLoad, Work, Calls
  <2>2. QED
    BY <1>1, <2>1, TakeCall
<1>3. PlainTypes'
  BY <1>1, <1>2 DEF PlainTypes, StartLoad, Take, States, Pcs, native, history,
     vars, Rest, SuspendedOwnsEngine
<1>4. Rest'
  BY <1>1, <1>2 DEF PlainTypes, StartLoad, Take, native, history, vars, Rest,
     PcState, StatePc, SuspendedOwnsEngine, LiveInv, LoadedIsLive,
     SystemPromptFirst, NothingLeaks, LeakInv, NoStaleUse, LoadedStates, Live
<1>5. QED
  BY <1>2, <1>3, <1>4, TypePartsPrimed DEF IInv, Rest

LEMMA NativeLoadInv == IInv /\ NativeLoad => IInv'
<1> SUFFICES ASSUME IInv, NativeLoad PROVE IInv'
  OBVIOUS
<1>1. PlainTypes /\ QueueOK(queue, reply) /\ Rest
  BY TypeParts DEF IInv, Rest
<1>2. QueueOK(queue', reply')
  BY <1>1 DEF NativeLoad
<1>3. PlainTypes'
  BY <1>1, <1>2 DEF PlainTypes, NativeLoad, States, Pcs, native, history, vars,
     Rest, SuspendedOwnsEngine
<1>4. Rest'
  BY <1>1, <1>2 DEF PlainTypes, NativeLoad, native, history, vars, Rest,
     PcState, StatePc, SuspendedOwnsEngine, LiveInv, LoadedIsLive,
     SystemPromptFirst, NothingLeaks, LeakInv, NoStaleUse, LoadedStates, Live
<1>5. QED
  BY <1>2, <1>3, <1>4, TypePartsPrimed DEF IInv, Rest

LEMMA LoadFailsInv == IInv /\ LoadFails => IInv'
<1> SUFFICES ASSUME IInv, LoadFails PROVE IInv'
  OBVIOUS
<1>1. PlainTypes /\ QueueOK(queue, reply) /\ Rest
  BY TypeParts DEF IInv, Rest
<1>2. QueueOK(queue', reply')
  BY <1>1 DEF LoadFails
<1>3. PlainTypes'
  BY <1>1, <1>2 DEF PlainTypes, LoadFails, States, Pcs, native, history, vars,
     Rest, SuspendedOwnsEngine
<1>4. Rest'
  BY <1>1, <1>2 DEF PlainTypes, LoadFails, native, history, vars, Rest, PcState,
     StatePc, SuspendedOwnsEngine, LiveInv, LoadedIsLive, SystemPromptFirst,
     NothingLeaks, LeakInv, NoStaleUse, LoadedStates, Live
<1>5. QED
  BY <1>2, <1>3, <1>4, TypePartsPrimed DEF IInv, Rest

LEMMA NativePrepareInv == IInv /\ NativePrepare => IInv'
<1> SUFFICES ASSUME IInv, NativePrepare PROVE IInv'
  OBVIOUS
<1>1. PlainTypes /\ QueueOK(queue, reply) /\ Rest
  BY TypeParts DEF IInv, Rest
<1>2. QueueOK(queue', reply')
  BY <1>1 DEF NativePrepare
<1>3. PlainTypes'
  BY <1>1, <1>2 DEF PlainTypes, NativePrepare, States, Pcs, native, history,
     vars, Rest, SuspendedOwnsEngine
<1>4. Rest'
  BY <1>1, <1>2 DEF PlainTypes, NativePrepare, native, history, vars, Rest,
     PcState, StatePc, SuspendedOwnsEngine, LiveInv, LoadedIsLive,
     SystemPromptFirst, NothingLeaks, LeakInv, NoStaleUse, LoadedStates, Live
<1>5. QED
  BY <1>2, <1>3, <1>4, TypePartsPrimed DEF IInv, Rest

LEMMA RefuseSystemPromptInv == IInv /\ RefuseSystemPrompt => IInv'
<1> SUFFICES ASSUME IInv, RefuseSystemPrompt PROVE IInv'
  OBVIOUS
<1>1. PlainTypes /\ QueueOK(queue, reply) /\ Rest
  BY TypeParts DEF IInv, Rest
<1>2. QueueOK(queue', reply')
  <2>1. "system" \in Work \ {"resume"} /\ Take("system") /\ reply' = reply
    BY DEF RefuseSystemPrompt, Work, Calls
  <2>2. QED
    BY <1>1, <2>1, TakeCall
<1>3. PlainTypes'
  BY <1>1, <1>2 DEF PlainTypes, RefuseSystemPrompt, Take, States, Pcs, native,
     history, vars, Rest, SuspendedOwnsEngine
<1>4. Rest'
  BY <1>1, <1>2 DEF PlainTypes, RefuseSystemPrompt, Take, native, history, vars,
     Rest, PcState, StatePc, SuspendedOwnsEngine, LiveInv, LoadedIsLive,
     SystemPromptFirst, NothingLeaks, LeakInv, NoStaleUse, LoadedStates, Live
<1>5. QED
  BY <1>2, <1>3, <1>4, TypePartsPrimed DEF IInv, Rest

LEMMA StartSystemPromptInv == IInv /\ StartSystemPrompt => IInv'
<1> SUFFICES ASSUME IInv, StartSystemPrompt PROVE IInv'
  OBVIOUS
<1>1. PlainTypes /\ QueueOK(queue, reply) /\ Rest
  BY TypeParts DEF IInv, Rest
<1>2. QueueOK(queue', reply')
  <2>1. "system" \in Work \ {"resume"} /\ Take("system") /\ reply' = reply
    BY DEF StartSystemPrompt, Work, Calls
  <2>2. QED
    BY <1>1, <2>1, TakeCall
<1>3. PlainTypes'
  BY <1>1, <1>2 DEF PlainTypes, StartSystemPrompt, Take, States, Pcs, native,
     history, vars, Rest, SuspendedOwnsEngine
<1>4. Rest'
  BY <1>1, <1>2 DEF PlainTypes, StartSystemPrompt, Take, native, history, vars,
     Rest, PcState, StatePc, SuspendedOwnsEngine, LiveInv, LoadedIsLive,
     SystemPromptFirst, NothingLeaks, LeakInv, NoStaleUse, LoadedStates, Live
<1>5. QED
  BY <1>2, <1>3, <1>4, TypePartsPrimed DEF IInv, Rest

LEMMA FinishSystemPromptInv == IInv /\ FinishSystemPrompt => IInv'
<1> SUFFICES ASSUME IInv, FinishSystemPrompt PROVE IInv'
  OBVIOUS
<1>1. PlainTypes /\ QueueOK(queue, reply) /\ Rest
  BY TypeParts DEF IInv, Rest
<1>2. QueueOK(queue', reply')
  BY <1>1 DEF FinishSystemPrompt
<1>3. PlainTypes'
  BY <1>1, <1>2 DEF PlainTypes, FinishSystemPrompt, States, Pcs, native,
     history, vars, Rest, SuspendedOwnsEngine
<1>4. Rest'
  BY <1>1, <1>2 DEF PlainTypes, FinishSystemPrompt, native, history, vars, Rest,
     PcState, StatePc, SuspendedOwnsEngine, LiveInv, LoadedIsLive,
     SystemPromptFirst, NothingLeaks, LeakInv, NoStaleUse, LoadedStates, Live
<1>5. QED
  BY <1>2, <1>3, <1>4, TypePartsPrimed DEF IInv, Rest

LEMMA StartUserPromptInv == IInv /\ StartUserPrompt => IInv'
<1> SUFFICES ASSUME IInv, StartUserPrompt PROVE IInv'
  OBVIOUS
<1>1. PlainTypes /\ QueueOK(queue, reply) /\ Rest
  BY TypeParts DEF IInv, Rest
<1>2. QueueOK(queue', reply')
  <2>1. "user" \in Work \ {"resume"} /\ Take("user") /\ reply' = "running"
    BY DEF StartUserPrompt, Work, Calls
  <2>2. reply # "resuming"
    BY <1>1 DEF StartUserPrompt, Rest, SuspendedOwnsEngine
  <2>3. QED
    BY <1>1, <2>1, <2>2, TakeCall DEF QueueOK
<1>3. PlainTypes'
  BY <1>1, <1>2 DEF PlainTypes, StartUserPrompt, Take, States, Pcs, native,
     history, vars, Rest, SuspendedOwnsEngine
<1>4. Rest'
  BY <1>1, <1>2 DEF PlainTypes, StartUserPrompt, Take, native, history, vars,
     Rest, PcState, StatePc, SuspendedOwnsEngine, LiveInv, LoadedIsLive,
     SystemPromptFirst, NothingLeaks, LeakInv, NoStaleUse, LoadedStates, Live
<1>5. QED
  BY <1>2, <1>3, <1>4, TypePartsPrimed DEF IInv, Rest

LEMMA UserPromptProcessedInv == IInv /\ UserPromptProcessed => IInv'
<1> SUFFICES ASSUME IInv, UserPromptProcessed PROVE IInv'
  OBVIOUS
<1>1. PlainTypes /\ QueueOK(queue, reply) /\ Rest
  BY TypeParts DEF IInv, Rest
<1>2. QueueOK(queue', reply')
  BY <1>1 DEF UserPromptProcessed
<1>3. PlainTypes'
  BY <1>1, <1>2 DEF PlainTypes, UserPromptProcessed, States, Pcs, native,
     history, vars, Rest, SuspendedOwnsEngine
<1>4. Rest'
  BY <1>1, <1>2 DEF PlainTypes, UserPromptProcessed, native, history, vars,
     Rest, PcState, StatePc, SuspendedOwnsEngine, LiveInv, LoadedIsLive,
     SystemPromptFirst, NothingLeaks, LeakInv, NoStaleUse, LoadedStates, Live
<1>5. QED
  BY <1>2, <1>3, <1>4, TypePartsPrimed DEF IInv, Rest

LEMMA UserPromptFailsInv == IInv /\ UserPromptFails => IInv'
<1> SUFFICES ASSUME IInv, UserPromptFails PROVE IInv'
  OBVIOUS
<1>1. PlainTypes /\ QueueOK(queue, reply) /\ Rest
  BY TypeParts DEF IInv, Rest
<1>2. QueueOK(queue', reply')
  <2>1. queue' = queue /\ reply = "running" /\ reply' # "resuming"
    BY <1>1 DEF UserPromptFails, PlainTypes
  <2>2. QED
    BY <1>1, <2>1 DEF QueueOK
<1>3. PlainTypes'
  BY <1>1, <1>2 DEF PlainTypes, UserPromptFails, States, Pcs, native, history,
     vars, Rest, SuspendedOwnsEngine
<1>4. Rest'
  BY <1>1, <1>2 DEF PlainTypes, UserPromptFails, native, history, vars, Rest,
     PcState, StatePc, SuspendedOwnsEngine, LiveInv, LoadedIsLive,
     SystemPromptFirst, NothingLeaks, LeakInv, NoStaleUse, LoadedStates, Live
<1>5. QED
  BY <1>2, <1>3, <1>4, TypePartsPrimed DEF IInv, Rest

LEMMA StopRequestedInv == IInv /\ StopRequested => IInv'
<1> SUFFICES ASSUME IInv, StopRequested PROVE IInv'
  OBVIOUS
<1>1. PlainTypes /\ QueueOK(queue, reply) /\ Rest
  BY TypeParts DEF IInv, Rest
<1>2. QueueOK(queue', reply')
  <2>1. queue' = queue /\ reply = "running" /\ reply' # "resuming"
    BY <1>1 DEF StopRequested, EndReply, PlainTypes
  <2>2. QED
    BY <1>1, <2>1 DEF QueueOK
<1>3. PlainTypes'
  BY <1>1, <1>2 DEF PlainTypes, StopRequested, EndReply, States, Pcs, native,
     history, vars, Rest, SuspendedOwnsEngine
<1>4. Rest'
  BY <1>1, <1>2 DEF PlainTypes, StopRequested, EndReply, native, history, vars,
     Rest, PcState, StatePc, SuspendedOwnsEngine, LiveInv, LoadedIsLive,
     SystemPromptFirst, NothingLeaks, LeakInv, NoStaleUse, LoadedStates, Live
<1>5. QED
  BY <1>2, <1>3, <1>4, TypePartsPrimed DEF IInv, Rest

LEMMA GenerationEndsInv == IInv /\ GenerationEnds => IInv'
<1> SUFFICES ASSUME IInv, GenerationEnds PROVE IInv'
  OBVIOUS
<1>1. PlainTypes /\ QueueOK(queue, reply) /\ Rest
  BY TypeParts DEF IInv, Rest
<1>2. QueueOK(queue', reply')
  <2>1. queue' = queue /\ reply = "running" /\ reply' # "resuming"
    BY <1>1 DEF GenerationEnds, EndReply, PlainTypes
  <2>2. QED
    BY <1>1, <2>1 DEF QueueOK
<1>3. PlainTypes'
  BY <1>1, <1>2 DEF PlainTypes, GenerationEnds, EndReply, States, Pcs, native,
     history, vars, Rest, SuspendedOwnsEngine
<1>4. Rest'
  BY <1>1, <1>2 DEF PlainTypes, GenerationEnds, EndReply, native, history, vars,
     Rest, PcState, StatePc, SuspendedOwnsEngine, LiveInv, LoadedIsLive,
     SystemPromptFirst, NothingLeaks, LeakInv, NoStaleUse, LoadedStates, Live
<1>5. QED
  BY <1>2, <1>3, <1>4, TypePartsPrimed DEF IInv, Rest

LEMMA GenerateTokenInv == IInv /\ GenerateToken => IInv'
<1> SUFFICES ASSUME IInv, GenerateToken PROVE IInv'
  OBVIOUS
<1>1. PlainTypes /\ QueueOK(queue, reply) /\ Rest
  BY TypeParts DEF IInv, Rest
<1>2. QueueOK(queue', reply')
  BY <1>1 DEF GenerateToken
<1>3. PlainTypes'
  BY <1>1, <1>2 DEF PlainTypes, GenerateToken, States, Pcs, native, history,
     vars, Rest, SuspendedOwnsEngine
<1>4. Rest'
  BY <1>1, <1>2 DEF PlainTypes, GenerateToken, native, history, vars, Rest,
     PcState, StatePc, SuspendedOwnsEngine, LiveInv, LoadedIsLive,
     SystemPromptFirst, NothingLeaks, LeakInv, NoStaleUse, LoadedStates, Live
<1>5. QED
  BY <1>2, <1>3, <1>4, TypePartsPrimed DEF IInv, Rest

LEMMA TokenBufferedInv == IInv /\ TokenBuffered => IInv'
<1> SUFFICES ASSUME IInv, TokenBuffered PROVE IInv'
  OBVIOUS
<1>1. PlainTypes /\ QueueOK(queue, reply) /\ Rest
  BY TypeParts DEF IInv, Rest
<1>2. QueueOK(queue', reply')
  BY <1>1 DEF TokenBuffered
<1>3. PlainTypes'
  BY <1>1, <1>2 DEF PlainTypes, TokenBuffered, States, Pcs, native, history,
     vars, Rest, SuspendedOwnsEngine
<1>4. Rest'
  BY <1>1, <1>2 DEF PlainTypes, TokenBuffered, native, history, vars, Rest,
     PcState, StatePc, SuspendedOwnsEngine, LiveInv, LoadedIsLive,
     SystemPromptFirst, NothingLeaks, LeakInv, NoStaleUse, LoadedStates, Live
<1>5. QED
  BY <1>2, <1>3, <1>4, TypePartsPrimed DEF IInv, Rest

LEMMA EmitSuspendsInv == IInv /\ EmitSuspends => IInv'
<1> SUFFICES ASSUME IInv, EmitSuspends PROVE IInv'
  OBVIOUS
<1>1. PlainTypes /\ QueueOK(queue, reply) /\ Rest
  BY TypeParts DEF IInv, Rest
<1>2. QueueOK(queue', reply')
  <2>1. queue' = queue /\ reply = "running" /\ reply' # "resuming"
    BY <1>1 DEF EmitSuspends, PlainTypes
  <2>2. QED
    BY <1>1, <2>1 DEF QueueOK
<1>3. PlainTypes'
  BY <1>1, <1>2 DEF PlainTypes, EmitSuspends, States, Pcs, native, history,
     vars, Rest, SuspendedOwnsEngine
<1>4. Rest'
  BY <1>1, <1>2 DEF PlainTypes, EmitSuspends, native, history, vars, Rest,
     PcState, StatePc, SuspendedOwnsEngine, LiveInv, LoadedIsLive,
     SystemPromptFirst, NothingLeaks, LeakInv, NoStaleUse, LoadedStates, Live
<1>5. QED
  BY <1>2, <1>3, <1>4, TypePartsPrimed DEF IInv, Rest

LEMMA EmitCancelledInv == IInv /\ EmitCancelled => IInv'
<1> SUFFICES ASSUME IInv, EmitCancelled PROVE IInv'
  OBVIOUS
<1>1. PlainTypes /\ QueueOK(queue, reply) /\ Rest
  BY TypeParts DEF IInv, Rest
<1>2. QueueOK(queue', reply')
  <2>1. queue' = queue /\ reply = "running" /\ reply' # "resuming"
    BY <1>1 DEF EmitCancelled, EndReply, PlainTypes
  <2>2. QED
    BY <1>1, <2>1 DEF QueueOK
<1>3. PlainTypes'
  BY <1>1, <1>2 DEF PlainTypes, EmitCancelled, EndReply, States, Pcs, native,
     history, vars, Rest, SuspendedOwnsEngine
<1>4. Rest'
  BY <1>1, <1>2 DEF PlainTypes, EmitCancelled, EndReply, native, history, vars,
     Rest, PcState, StatePc, SuspendedOwnsEngine, LiveInv, LoadedIsLive,
     SystemPromptFirst, NothingLeaks, LeakInv, NoStaleUse, LoadedStates, Live
<1>5. QED
  BY <1>2, <1>3, <1>4, TypePartsPrimed DEF IInv, Rest

LEMMA ResumeReplyInv == IInv /\ ResumeReply => IInv'
<1> SUFFICES ASSUME IInv, ResumeReply PROVE IInv'
  OBVIOUS
<1>1. PlainTypes /\ QueueOK(queue, reply) /\ Rest
  BY TypeParts DEF IInv, Rest
<1>2. QueueOK(queue', reply') /\ reply = "resuming"
  <2>1. Take("resume") /\ reply' # "resuming"
    BY DEF ResumeReply
  <2>2. QED
    BY <1>1, <2>1, TakeResume
<1>3. PlainTypes'
  BY <1>1, <1>2 DEF PlainTypes, ResumeReply, Take, States, Pcs, native, history,
     vars, Rest, SuspendedOwnsEngine
<1>4. Rest'
  BY <1>1, <1>2 DEF PlainTypes, ResumeReply, Take, native, history, vars, Rest,
     PcState, StatePc, SuspendedOwnsEngine, LiveInv, LoadedIsLive,
     SystemPromptFirst, NothingLeaks, LeakInv, NoStaleUse, LoadedStates, Live
<1>5. QED
  BY <1>2, <1>3, <1>4, TypePartsPrimed DEF IInv, Rest

LEMMA ResumeCancelledInv == IInv /\ ResumeCancelled => IInv'
<1> SUFFICES ASSUME IInv, ResumeCancelled PROVE IInv'
  OBVIOUS
<1>1. PlainTypes /\ QueueOK(queue, reply) /\ Rest
  BY TypeParts DEF IInv, Rest
<1>2. QueueOK(queue', reply') /\ reply = "resuming"
  <2>1. Take("resume") /\ reply' # "resuming"
    BY DEF ResumeCancelled
  <2>2. QED
    BY <1>1, <2>1, TakeResume
<1>3. PlainTypes'
  BY <1>1, <1>2 DEF PlainTypes, ResumeCancelled, Take, States, Pcs, native,
     history, vars, Rest, SuspendedOwnsEngine
<1>4. Rest'
  BY <1>1, <1>2 DEF PlainTypes, ResumeCancelled, Take, native, history, vars,
     Rest, PcState, StatePc, SuspendedOwnsEngine, LiveInv, LoadedIsLive,
     SystemPromptFirst, NothingLeaks, LeakInv, NoStaleUse, LoadedStates, Live
<1>5. QED
  BY <1>2, <1>3, <1>4, TypePartsPrimed DEF IInv, Rest

LEMMA StartBenchInv == IInv /\ StartBench => IInv'
<1> SUFFICES ASSUME IInv, StartBench PROVE IInv'
  OBVIOUS
<1>1. PlainTypes /\ QueueOK(queue, reply) /\ Rest
  BY TypeParts DEF IInv, Rest
<1>2. QueueOK(queue', reply')
  <2>1. "bench" \in Work \ {"resume"} /\ Take("bench") /\ reply' = reply
    BY DEF StartBench, Work, Calls
  <2>2. QED
    BY <1>1, <2>1, TakeCall
<1>3. PlainTypes'
  BY <1>1, <1>2 DEF PlainTypes, StartBench, Take, States, Pcs, native, history,
     vars, Rest, SuspendedOwnsEngine
<1>4. Rest'
  BY <1>1, <1>2 DEF PlainTypes, StartBench, Take, native, history, vars, Rest,
     PcState, StatePc, SuspendedOwnsEngine, LiveInv, LoadedIsLive,
     SystemPromptFirst, NothingLeaks, LeakInv, NoStaleUse, LoadedStates, Live
<1>5. QED
  BY <1>2, <1>3, <1>4, TypePartsPrimed DEF IInv, Rest

LEMMA FinishBenchInv == IInv /\ FinishBench => IInv'
<1> SUFFICES ASSUME IInv, FinishBench PROVE IInv'
  OBVIOUS
<1>1. PlainTypes /\ QueueOK(queue, reply) /\ Rest
  BY TypeParts DEF IInv, Rest
<1>2. QueueOK(queue', reply')
  BY <1>1 DEF FinishBench
<1>3. PlainTypes'
  BY <1>1, <1>2 DEF PlainTypes, FinishBench, States, Pcs, native, history, vars,
     Rest, SuspendedOwnsEngine
<1>4. Rest'
  BY <1>1, <1>2 DEF PlainTypes, FinishBench, native, history, vars, Rest,
     PcState, StatePc, SuspendedOwnsEngine, LiveInv, LoadedIsLive,
     SystemPromptFirst, NothingLeaks, LeakInv, NoStaleUse, LoadedStates, Live
<1>5. QED
  BY <1>2, <1>3, <1>4, TypePartsPrimed DEF IInv, Rest

LEMMA StartUnloadInv == IInv /\ StartUnload => IInv'
<1> SUFFICES ASSUME IInv, StartUnload PROVE IInv'
  OBVIOUS
<1>1. PlainTypes /\ QueueOK(queue, reply) /\ Rest
  BY TypeParts DEF IInv, Rest
<1>2. QueueOK(queue', reply')
  <2>1. "cleanUp" \in Work \ {"resume"} /\ Take("cleanUp") /\ reply' = reply
    BY DEF StartUnload, Work, Calls
  <2>2. QED
    BY <1>1, <2>1, TakeCall
<1>3. PlainTypes'
  BY <1>1, <1>2 DEF PlainTypes, StartUnload, Take, States, Pcs, native, history,
     vars, Rest, SuspendedOwnsEngine
<1>4. Rest'
  BY <1>1, <1>2 DEF PlainTypes, StartUnload, Take, native, history, vars, Rest,
     PcState, StatePc, SuspendedOwnsEngine, LiveInv, LoadedIsLive,
     SystemPromptFirst, NothingLeaks, LeakInv, NoStaleUse, LoadedStates, Live
<1>5. QED
  BY <1>2, <1>3, <1>4, TypePartsPrimed DEF IInv, Rest

LEMMA ResetErrorInv == IInv /\ ResetError => IInv'
<1> SUFFICES ASSUME IInv, ResetError PROVE IInv'
  OBVIOUS
<1>1. PlainTypes /\ QueueOK(queue, reply) /\ Rest
  BY TypeParts DEF IInv, Rest
<1>2. QueueOK(queue', reply')
  <2>1. "cleanUp" \in Work \ {"resume"} /\ Take("cleanUp") /\ reply' = reply
    BY DEF ResetError, Work, Calls
  <2>2. QED
    BY <1>1, <2>1, TakeCall
<1>3. PlainTypes'
  BY <1>1, <1>2 DEF PlainTypes, ResetError, Take, States, Pcs, native, history,
     vars, Rest, SuspendedOwnsEngine
<1>4. Rest'
  BY <1>1, <1>2 DEF PlainTypes, ResetError, Take, native, history, vars, Rest,
     PcState, StatePc, SuspendedOwnsEngine, LiveInv, LoadedIsLive,
     SystemPromptFirst, NothingLeaks, LeakInv, NoStaleUse, LoadedStates, Live
<1>5. QED
  BY <1>2, <1>3, <1>4, TypePartsPrimed DEF IInv, Rest

LEMMA RefuseCleanUpInv == IInv /\ RefuseCleanUp => IInv'
<1> SUFFICES ASSUME IInv, RefuseCleanUp PROVE IInv'
  OBVIOUS
<1>1. PlainTypes /\ QueueOK(queue, reply) /\ Rest
  BY TypeParts DEF IInv, Rest
<1>2. QueueOK(queue', reply')
  <2>1. "cleanUp" \in Work \ {"resume"} /\ Take("cleanUp") /\ reply' = reply
    BY DEF RefuseCleanUp, Work, Calls
  <2>2. QED
    BY <1>1, <2>1, TakeCall
<1>3. PlainTypes'
  BY <1>1, <1>2 DEF PlainTypes, RefuseCleanUp, Take, States, Pcs, native,
     history, vars, Rest, SuspendedOwnsEngine
<1>4. Rest'
  BY <1>1, <1>2 DEF PlainTypes, RefuseCleanUp, Take, native, history, vars,
     Rest, PcState, StatePc, SuspendedOwnsEngine, LiveInv, LoadedIsLive,
     SystemPromptFirst, NothingLeaks, LeakInv, NoStaleUse, LoadedStates, Live
<1>5. QED
  BY <1>2, <1>3, <1>4, TypePartsPrimed DEF IInv, Rest

LEMMA FinishUnloadInv == IInv /\ FinishUnload => IInv'
<1> SUFFICES ASSUME IInv, FinishUnload PROVE IInv'
  OBVIOUS
<1>1. PlainTypes /\ QueueOK(queue, reply) /\ Rest
  BY TypeParts DEF IInv, Rest
<1>2. QueueOK(queue', reply')
  BY <1>1 DEF FinishUnload, NativeUnload, Freeable
<1>3. PlainTypes'
  BY <1>1, <1>2 DEF PlainTypes, FinishUnload, NativeUnload, Freeable, States,
     Pcs, native, history, vars, Rest, SuspendedOwnsEngine
<1>4. Rest'
  BY <1>1, <1>2 DEF PlainTypes, FinishUnload, NativeUnload, Freeable, native,
     history, vars, Rest, PcState, StatePc, SuspendedOwnsEngine, LiveInv,
     LoadedIsLive, SystemPromptFirst, NothingLeaks, LeakInv, NoStaleUse,
     LoadedStates, Live
<1>5. QED
  BY <1>2, <1>3, <1>4, TypePartsPrimed DEF IInv, Rest

LEMMA DestroyUnloadedInv == IInv /\ DestroyUnloaded => IInv'
<1> SUFFICES ASSUME IInv, DestroyUnloaded PROVE IInv'
  OBVIOUS
<1>1. PlainTypes /\ QueueOK(queue, reply) /\ Rest
  BY TypeParts DEF IInv, Rest
<1>2. QueueOK(queue', reply')
  <2>1. "destroy" \in Work \ {"resume"} /\ Take("destroy") /\ reply' = reply
    BY DEF DestroyUnloaded, Work, Calls
  <2>2. QED
    BY <1>1, <2>1, TakeCall
<1>3. PlainTypes'
  BY <1>1, <1>2 DEF PlainTypes, DestroyUnloaded, Take, States, Pcs, native,
     history, vars, Rest, SuspendedOwnsEngine
<1>4. Rest'
  BY <1>1, <1>2 DEF PlainTypes, DestroyUnloaded, Take, native, history, vars,
     Rest, PcState, StatePc, SuspendedOwnsEngine, LiveInv, LoadedIsLive,
     SystemPromptFirst, NothingLeaks, LeakInv, NoStaleUse, LoadedStates, Live
<1>5. QED
  BY <1>2, <1>3, <1>4, TypePartsPrimed DEF IInv, Rest

LEMMA StartDestroyInv == IInv /\ StartDestroy => IInv'
<1> SUFFICES ASSUME IInv, StartDestroy PROVE IInv'
  OBVIOUS
<1>1. PlainTypes /\ QueueOK(queue, reply) /\ Rest
  BY TypeParts DEF IInv, Rest
<1>2. QueueOK(queue', reply')
  <2>1. "destroy" \in Work \ {"resume"} /\ Take("destroy") /\ reply' = reply
    BY DEF StartDestroy, Work, Calls
  <2>2. QED
    BY <1>1, <2>1, TakeCall
<1>3. PlainTypes'
  BY <1>1, <1>2 DEF PlainTypes, StartDestroy, Take, States, Pcs, native,
     history, vars, Rest, SuspendedOwnsEngine
<1>4. Rest'
  BY <1>1, <1>2 DEF PlainTypes, StartDestroy, Take, native, history, vars, Rest,
     PcState, StatePc, SuspendedOwnsEngine, LiveInv, LoadedIsLive,
     SystemPromptFirst, NothingLeaks, LeakInv, NoStaleUse, LoadedStates, Live
<1>5. QED
  BY <1>2, <1>3, <1>4, TypePartsPrimed DEF IInv, Rest

LEMMA FinishDestroyInv == IInv /\ FinishDestroy => IInv'
<1> SUFFICES ASSUME IInv, FinishDestroy PROVE IInv'
  OBVIOUS
<1>1. PlainTypes /\ QueueOK(queue, reply) /\ Rest
  BY TypeParts DEF IInv, Rest
<1>2. QueueOK(queue', reply')
  BY <1>1 DEF FinishDestroy, NativeUnload, Freeable
<1>3. PlainTypes'
  BY <1>1, <1>2 DEF PlainTypes, FinishDestroy, NativeUnload, Freeable, States,
     Pcs, native, history, vars, Rest, SuspendedOwnsEngine
<1>4. Rest'
  BY <1>1, <1>2 DEF PlainTypes, FinishDestroy, NativeUnload, Freeable, native,
     history, vars, Rest, PcState, StatePc, SuspendedOwnsEngine, LiveInv,
     LoadedIsLive, SystemPromptFirst, NothingLeaks, LeakInv, NoStaleUse,
     LoadedStates, Live
<1>5. QED
  BY <1>2, <1>3, <1>4, TypePartsPrimed DEF IInv, Rest

LEMMA StaleHandleInv == IInv /\ StaleHandle => IInv'
<1> SUFFICES ASSUME IInv, StaleHandle PROVE IInv'
  OBVIOUS
<1>1. PlainTypes /\ QueueOK(queue, reply) /\ Rest
  BY TypeParts DEF IInv, Rest
<1>2. QueueOK(queue', reply')
  BY <1>1 DEF StaleHandle, Freeable
<1>3. PlainTypes'
  BY <1>1, <1>2 DEF PlainTypes, StaleHandle, Freeable, States, Pcs, native,
     history, vars, Rest, SuspendedOwnsEngine
<1>4. Rest'
  BY <1>1, <1>2 DEF PlainTypes, StaleHandle, Freeable, native, history, vars,
     Rest, PcState, StatePc, SuspendedOwnsEngine, LiveInv, LoadedIsLive,
     SystemPromptFirst, NothingLeaks, LeakInv, NoStaleUse, LoadedStates, Live
<1>5. QED
  BY <1>2, <1>3, <1>4, TypePartsPrimed DEF IInv, Rest

LEMMA CallInv ==
    ASSUME NEW op \in Calls, IInv, Call(op)
    PROVE  IInv'
<1>1. PlainTypes /\ QueueOK(queue, reply) /\ Rest
  BY TypeParts DEF IInv, Rest
<1>2. QueueOK(queue', reply')
  BY <1>1, AppendCall DEF Call, Work, Calls
<1>3. PlainTypes'
  BY <1>1, <1>2 DEF PlainTypes, Call, States, Pcs, native, history
<1>4. Rest'
  BY <1>1, <1>2 DEF Call, native, history, Rest, PcState, StatePc,
     SuspendedOwnsEngine, LiveInv, LoadedIsLive, SystemPromptFirst,
     NothingLeaks, LeakInv, NoStaleUse, LoadedStates, Live
<1>5. QED
  BY <1>2, <1>3, <1>4, TypePartsPrimed DEF IInv, Rest

LEMMA CallBlockingInv ==
    ASSUME NEW op \in {"cleanUp", "destroy"}, IInv, CallBlocking(op)
    PROVE  IInv'
<1>1. PlainTypes /\ QueueOK(queue, reply) /\ Rest
  BY TypeParts DEF IInv, Rest
<1>2. QueueOK(queue', reply')
  BY <1>1, AppendCall DEF CallBlocking, Work, Calls
<1>3. PlainTypes'
  BY <1>1, <1>2 DEF PlainTypes, CallBlocking, States, Pcs, native, history
<1>4. Rest'
  BY <1>1, <1>2 DEF CallBlocking, native, history, Rest, PcState, StatePc,
     SuspendedOwnsEngine, LiveInv, LoadedIsLive, SystemPromptFirst,
     NothingLeaks, LeakInv, NoStaleUse, LoadedStates, Live
<1>5. QED
  BY <1>2, <1>3, <1>4, TypePartsPrimed DEF IInv, Rest

LEMMA RefuseInv ==
    ASSUME NEW op \in Calls, NEW expected, IInv, Refuse(op, expected)
    PROVE  IInv'
<1>1. PlainTypes /\ QueueOK(queue, reply) /\ Rest
  BY TypeParts DEF IInv, Rest
<1>2. QueueOK(queue', reply')
  <2>1. op \in Work \ {"resume"} /\ Take(op) /\ reply' = reply
    BY DEF Refuse, Work, Calls
  <2>2. QED
    BY <1>1, <2>1, TakeCall
<1>3. PlainTypes'
  BY <1>1, <1>2 DEF PlainTypes, Refuse, Take, States, Pcs, native, history
<1>4. Rest'
  BY <1>1, <1>2 DEF Refuse, Take, native, history, Rest, PcState, StatePc,
     SuspendedOwnsEngine, LiveInv, LoadedIsLive, SystemPromptFirst,
     NothingLeaks, LeakInv, NoStaleUse, LoadedStates, Live
<1>5. QED
  BY <1>2, <1>3, <1>4, TypePartsPrimed DEF IInv, Rest

LEMMA StepInv == IInv /\ [Next]_vars => IInv'
<1> SUFFICES ASSUME IInv, [Next]_vars PROVE IInv'
  OBVIOUS
<1>1. CASE Caller
  BY <1>1, CallInv, CallBlockingInv, CancelGenerationInv DEF Caller
<1>2. CASE Collector
  BY <1>2, CollectorTakesInv, CollectorCancelledInv DEF Collector
<1>3. CASE Dispatcher
  <2>1. "load" \in Calls /\ "user" \in Calls /\ "bench" \in Calls
    BY DEF Calls
  <2>2. ASSUME Refuse("load", "Initialized") \/ Refuse("user", "ModelReady")
                 \/ Refuse("bench", "ModelReady")
        PROVE  IInv'
    BY <2>1, <2>2, RefuseInv
  <2>3. ASSUME \/ StartInit
                 \/ FinishInit
                 \/ LoadInvalid
                 \/ StartLoad
                 \/ NativeLoad
                 \/ LoadFails
                 \/ NativePrepare
        PROVE  IInv'
    BY <2>3, StartInitInv, FinishInitInv, LoadInvalidInv,
       StartLoadInv, NativeLoadInv, LoadFailsInv,
       NativePrepareInv
  <2>4. ASSUME \/ RefuseSystemPrompt
                 \/ StartSystemPrompt
                 \/ FinishSystemPrompt
                 \/ StartUserPrompt
                 \/ UserPromptProcessed
                 \/ UserPromptFails
        PROVE  IInv'
    BY <2>4, RefuseSystemPromptInv, StartSystemPromptInv, FinishSystemPromptInv,
       StartUserPromptInv, UserPromptProcessedInv, UserPromptFailsInv
  <2>5. ASSUME \/ StopRequested
                 \/ GenerationEnds
                 \/ GenerateToken
                 \/ TokenBuffered
                 \/ EmitSuspends
                 \/ EmitCancelled
                 \/ ResumeReply
                 \/ ResumeCancelled
        PROVE  IInv'
    BY <2>5, StopRequestedInv, GenerationEndsInv, GenerateTokenInv,
       TokenBufferedInv, EmitSuspendsInv, EmitCancelledInv,
       ResumeReplyInv, ResumeCancelledInv
  <2>6. ASSUME \/ StartBench
                 \/ FinishBench
                 \/ StartUnload
                 \/ ResetError
                 \/ RefuseCleanUp
                 \/ FinishUnload
                 \/ DestroyUnloaded
                 \/ StartDestroy
                 \/ FinishDestroy
                 \/ StaleHandle
        PROVE  IInv'
    BY <2>6, StartBenchInv, FinishBenchInv, StartUnloadInv,
       ResetErrorInv, RefuseCleanUpInv, FinishUnloadInv,
       DestroyUnloadedInv, StartDestroyInv, FinishDestroyInv,
       StaleHandleInv
  <2>7. QED
    BY <1>3, <2>2, <2>3, <2>4, <2>5, <2>6 DEF Dispatcher
<1>4. CASE UNCHANGED vars
  BY <1>4 DEF vars, IInv, TypeOK, PcState, StatePc, SuspendedOwnsEngine,
     LiveInv, LoadedIsLive, SystemPromptFirst, NothingLeaks, LeakInv,
     NoStaleUse, LoadedStates, Live
<1>5. QED
  BY <1>1, <1>2, <1>3, <1>4 DEF Next

LEMMA AlwaysIInv == Spec => []IInv
  BY InitInv, StepInv, PTL DEF Spec

(***************************************************************************)
(* Every state is well typed; the flow that runs is that of the reply, and *)
(* a reply about to resume is in the dispatcher's queue exactly once.      *)
(***************************************************************************)
THEOREM TypeCorrect == Spec => []TypeOK
<1>1. IInv => TypeOK
  BY DEF IInv
<1>2. QED
  BY <1>1, AlwaysIInv, PTL

(***************************************************************************)
(* Until destroy, whenever isModelLoaded holds the model and the context   *)
(* are allocated, in whatever order the calls came.                        *)
(***************************************************************************)
THEOREM LoadedMeansLive == Spec => []LoadedIsLive
<1>1. IInv => LoadedIsLive
  BY DEF IInv, LiveInv
<1>2. QED
  BY <1>1, AlwaysIInv, PTL

(***************************************************************************)
(* Before destroy no native function touches a freed handle, unless it is  *)
(* destroy itself.                                                         *)
(***************************************************************************)
THEOREM NoUseAfterFree == Spec => []NoStaleUse
<1>1. IInv => NoStaleUse
  BY DEF IInv
<1>2. QED
  BY <1>1, AlwaysIInv, PTL

(***************************************************************************)
(* A reply suspended in emit keeps the state Generating, and nothing but   *)
(* destroy runs on the context meanwhile.                                  *)
(***************************************************************************)
THEOREM SuspendedReplyOwnsEngine == Spec => []SuspendedOwnsEngine
<1>1. IInv => SuspendedOwnsEngine
  BY DEF IInv
<1>2. QED
  BY <1>1, AlwaysIInv, PTL

(***************************************************************************)
(* setSystemPrompt is accepted only right after a model was loaded.        *)
(***************************************************************************)
THEOREM SystemPromptComesFirst == Spec => []SystemPromptFirst
<1>1. IInv => SystemPromptFirst
  BY DEF IInv
<1>2. QED
  BY <1>1, AlwaysIInv, PTL

(***************************************************************************)
(* Native memory is lost only by resetting an Error over an allocated      *)
(* model.                                                                  *)
(***************************************************************************)
THEOREM LeaksOnlyThroughError == Spec => []NothingLeaks
<1>1. IInv => NothingLeaks
  BY DEF IInv
<1>2. QED
  BY <1>1, AlwaysIInv, PTL

(***************************************************************************)
(* A request to stop that was made during a generation is not withdrawn    *)
(* before the generation has seen it.                                      *)
(***************************************************************************)
THEOREM CancelIsNotWithdrawn == Spec => CancelSticks
<1>1. IInv /\ [Next]_vars => [st = "Generating" /\ cancel => cancel']_vars
  <2> SUFFICES ASSUME IInv, Next, st = "Generating", cancel PROVE cancel'
    BY DEF vars
  <2>1. running \notin {"load", "prepare"}
    BY DEF IInv, PcState
  <2>2. CASE Caller
    BY <2>2 DEF Caller, Call, CancelGeneration, CallBlocking
  <2>3. CASE Collector
    BY <2>3 DEF Collector, CollectorTakes, CollectorCancelled
  <2>4. CASE Dispatcher
    BY <2>1, <2>4 DEF Dispatcher, StartInit, FinishInit, LoadInvalid, StartLoad,
       NativeLoad, LoadFails, NativePrepare, RefuseSystemPrompt,
       StartSystemPrompt, FinishSystemPrompt, StartUserPrompt,
       UserPromptProcessed, UserPromptFails, StopRequested, GenerationEnds,
       GenerateToken, TokenBuffered, EmitSuspends, EmitCancelled, ResumeReply,
       ResumeCancelled, StartBench, FinishBench, StartUnload, ResetError,
       RefuseCleanUp, FinishUnload, DestroyUnloaded, StartDestroy,
       FinishDestroy, StaleHandle, Refuse, EndReply, NativeUnload, Take, native,
       history, vars
  <2>5. QED
    BY <2>2, <2>3, <2>4 DEF Next
<1>2. QED
  BY <1>1, AlwaysIInv, PTL DEF Spec, CancelSticks

------------------------------------------------------------------------------
(***************************************************************************)
(* InferenceEngine implements EngineLifecycle, for any number of loads and *)
(* any length of the queue.                                                *)
(***************************************************************************)

\* Which handles there are, and that a loaded model has the context made for
\* it and is the last one that was read.
HandleInv ==
    /\ gModel <= loads /\ gCtx <= loads
    /\ running = "prepare" => gModel = loads /\ gModel # 0
    /\ ~destroyed /\ st \in LoadedStates => gCtx = gModel

LEMMA HandleStep == IInv /\ HandleInv /\ [Next]_vars => HandleInv'
<1> SUFFICES ASSUME IInv, HandleInv, [Next]_vars PROVE HandleInv'
  OBVIOUS
<1>1. /\ gModel \in Nat /\ gCtx \in Nat /\ loads \in Nat
      /\ destroyed \in BOOLEAN
      /\ PcState /\ StatePc /\ SuspendedOwnsEngine
      /\ reply = "resuming" <=> \E i \in DOMAIN queue : queue[i] = "resume"
      /\ running = "user" <=> reply = "running" /\ running \notin {"generate", "emit"}
  BY DEF IInv, TypeOK
<1>2. CASE NativeLoad
  BY <1>1, <1>2 DEF NativeLoad, HandleInv, PcState, LoadedStates, native, history
<1>3. CASE NativePrepare
  BY <1>1, <1>3 DEF NativePrepare, HandleInv, LoadedStates, native, history
<1>4. ASSUME Caller \/ Collector PROVE HandleInv'
  BY <1>4 DEF Caller, Collector, Call, CancelGeneration, CallBlocking,
     CollectorTakes, CollectorCancelled, HandleInv, native, history
<1>5. ASSUME \/ StartInit \/ FinishInit
             \/ Refuse("load", "Initialized") \/ LoadInvalid \/ StartLoad \/ LoadFails
             \/ RefuseSystemPrompt \/ StartSystemPrompt \/ FinishSystemPrompt
             \/ Refuse("user", "ModelReady") \/ StartUserPrompt
             \/ UserPromptProcessed \/ UserPromptFails
      PROVE  HandleInv'
  BY <1>1, <1>5 DEF StartInit, FinishInit, LoadInvalid, StartLoad, LoadFails,
     RefuseSystemPrompt, StartSystemPrompt, FinishSystemPrompt, StartUserPrompt,
     UserPromptProcessed, UserPromptFails, Refuse, Take, native, history,
     HandleInv, PcState, LoadedStates
<1>6. ASSUME \/ StopRequested \/ GenerationEnds
             \/ GenerateToken \/ TokenBuffered \/ EmitSuspends \/ EmitCancelled
             \/ ResumeReply
      PROVE  HandleInv'
  BY <1>1, <1>6 DEF StopRequested, GenerationEnds, GenerateToken, TokenBuffered,
     EmitSuspends, EmitCancelled, ResumeReply, EndReply, Take, native, history,
     HandleInv, PcState, LoadedStates
<1>7. CASE ResumeCancelled
  <2>1. QueueOK(queue, reply)
    BY TypeParts DEF IInv
  <2>2. reply = "resuming"
    BY <1>7, <2>1, TakeResume DEF ResumeCancelled
  <2>3. st = "Generating"
    BY <1>1, <2>2 DEF SuspendedOwnsEngine
  <2>4. QED
    BY <1>1, <1>7, <2>3 DEF ResumeCancelled, Take, native, history, HandleInv, LoadedStates
<1>8. ASSUME \/ Refuse("bench", "ModelReady") \/ StartBench \/ FinishBench
             \/ StartUnload \/ ResetError \/ RefuseCleanUp \/ FinishUnload
             \/ DestroyUnloaded \/ StartDestroy \/ FinishDestroy
             \/ StaleHandle
      PROVE  HandleInv'
  BY <1>1, <1>8 DEF StartBench, FinishBench, StartUnload, ResetError, RefuseCleanUp,
     FinishUnload, DestroyUnloaded, StartDestroy, FinishDestroy, StaleHandle,
     NativeUnload, Refuse, Take, native, history, HandleInv, PcState, LoadedStates
<1>9. CASE UNCHANGED vars
  BY <1>9 DEF vars, HandleInv
<1>10. QED
  BY <1>2, <1>3, <1>4, <1>5, <1>6, <1>7, <1>8, <1>9 DEF Next, Dispatcher

------------------------------------------------------------------------------
\* The initial states map to the initial state.
LEMMA InitMaps == Init => Lifecycle!Init
  BY DEF Init, Gone, PhaseOf, Live, Lifecycle!Init

\* Once the engine is gone it stays so, and everything maps to a stutter.
LEMMA GoneMaps ==
    ASSUME IInv, Gone, [Next]_vars
    PROVE  UNCHANGED Lifecycle!vars
<1>1. Gone'
  <2>1. CASE Caller \/ Collector
    BY <2>1 DEF Caller, Collector, Call, CancelGeneration, CallBlocking,
       CollectorTakes, CollectorCancelled, Gone, history
  <2>2. CASE Dispatcher
    BY <2>2 DEF Gone, Dispatcher, StartInit, FinishInit, LoadInvalid, StartLoad,
       NativeLoad, LoadFails, NativePrepare, RefuseSystemPrompt,
       StartSystemPrompt, FinishSystemPrompt, StartUserPrompt,
       UserPromptProcessed, UserPromptFails, StopRequested, GenerationEnds,
       GenerateToken, TokenBuffered, EmitSuspends, EmitCancelled, ResumeReply,
       ResumeCancelled, StartBench, FinishBench, StartUnload, ResetError,
       RefuseCleanUp, FinishUnload, DestroyUnloaded, StartDestroy,
       FinishDestroy, StaleHandle, Refuse, EndReply, NativeUnload, Take, native,
       history
  <2>3. CASE UNCHANGED vars
    BY <2>3 DEF vars, Gone
  <2>4. QED
    BY <2>1, <2>2, <2>3 DEF Next
<1>2. QED
  BY <1>1 DEF Lifecycle!vars

\* Before that, every step maps to a step of the life cycle or a stutter.
LEMMA StepMaps ==
    ASSUME IInv, HandleInv, ~Gone, [Next]_vars
    PROVE  [Lifecycle!Next]_(Lifecycle!vars)
<1> DEFINE Same == UNCHANGED Lifecycle!vars
<1>1. /\ gModel \in Nat /\ gCtx \in Nat /\ loads \in Nat
      /\ st \in States /\ readySys \in BOOLEAN
      /\ ~destroyed /\ running # "destroy"
      /\ PcState /\ StatePc /\ SuspendedOwnsEngine /\ LiveInv
      /\ SystemPromptFirst
  BY DEF IInv, TypeOK, Gone
<1>2. ASSUME Caller \/ Collector PROVE Same
  BY <1>1, <1>2 DEF Caller, Collector, Call, CancelGeneration, CallBlocking,
     CollectorTakes, CollectorCancelled, Gone, Live, native, history, Lifecycle!vars
<1>3. ASSUME \/ Refuse("load", "Initialized") \/ Refuse("user", "ModelReady")
             \/ Refuse("bench", "ModelReady") \/ RefuseSystemPrompt \/ RefuseCleanUp
             \/ UserPromptFails \/ GenerateToken \/ TokenBuffered \/ EmitSuspends
             \/ ResumeReply \/ StaleHandle
      PROVE  Same
  BY <1>1, <1>3 DEF Refuse, RefuseSystemPrompt, RefuseCleanUp, UserPromptFails,
     GenerateToken, TokenBuffered, EmitSuspends, ResumeReply, StaleHandle, Take,
     Gone, Live, native, history, Lifecycle!vars
<1>4. CASE StartInit
  BY <1>1, <1>4 DEF StartInit, Take, Gone, Live, PhaseOf, native, history, Lifecycle!vars
<1>5. CASE FinishInit
  <2>1. Lifecycle!Start
    BY <1>1, <1>5 DEF FinishInit, Gone, Live, PhaseOf, PcState, native, history,
       Lifecycle!Start, Lifecycle!Go
  <2>2. QED
    BY <2>1 DEF Lifecycle!Next
<1>6. CASE LoadInvalid
  <2>1. Lifecycle!RefuseModel
    BY <1>1, <1>6 DEF LoadInvalid, Take, Gone, Live, PhaseOf, native, history,
       Lifecycle!RefuseModel, Lifecycle!Go
  <2>2. QED
    BY <2>1 DEF Lifecycle!Next
<1>7. CASE StartLoad
  <2>1. Lifecycle!BeginLoad
    BY <1>1, <1>7 DEF StartLoad, Take, Gone, Live, PhaseOf, native, history,
       Lifecycle!BeginLoad, Lifecycle!Go
  <2>2. QED
    BY <2>1 DEF Lifecycle!Next
<1>8. CASE NativeLoad
  <2>1. Lifecycle!ReadModel
    BY <1>1, <1>8 DEF NativeLoad, Gone, Live, PhaseOf, PcState, HandleInv, native,
       history, Lifecycle!ReadModel
  <2>2. QED
    BY <2>1 DEF Lifecycle!Next
<1>9. CASE LoadFails
  <2>1. Lifecycle!FailLoad
    BY <1>1, <1>9 DEF LoadFails, Gone, Live, PhaseOf, PcState, native, history,
       Lifecycle!FailLoad, Lifecycle!Go
  <2>2. QED
    BY <2>1 DEF Lifecycle!Next
<1>10. CASE NativePrepare
  <2>1. Lifecycle!EndLoad
    BY <1>1, <1>10 DEF NativePrepare, Gone, Live, PhaseOf, PcState, HandleInv, LiveInv,
       native, history, Lifecycle!EndLoad, Lifecycle!Go
  <2>2. QED
    BY <2>1 DEF Lifecycle!Next
<1>11. CASE StartSystemPrompt
  <2>1. Lifecycle!BeginSystem
    BY <1>1, <1>11 DEF StartSystemPrompt, Take, Gone, Live, PhaseOf, native, history,
       Lifecycle!BeginSystem, Lifecycle!Go
  <2>2. QED
    BY <2>1 DEF Lifecycle!Next
<1>12. CASE FinishSystemPrompt
  <2>1. Lifecycle!EndSystem
    BY <1>1, <1>12 DEF FinishSystemPrompt, Gone, Live, PhaseOf, PcState, native, history,
       Lifecycle!EndSystem, Lifecycle!Go
  <2>2. QED
    BY <2>1 DEF Lifecycle!Next
<1>13. CASE StartUserPrompt
  <2>1. Lifecycle!BeginPrompt
    BY <1>1, <1>13 DEF StartUserPrompt, Take, Gone, Live, PhaseOf, native, history,
       Lifecycle!BeginPrompt, Lifecycle!Go
  <2>2. QED
    BY <2>1 DEF Lifecycle!Next
<1>14. CASE UserPromptProcessed
  <2>1. Lifecycle!BeginReply
    BY <1>1, <1>14 DEF UserPromptProcessed, Gone, Live, PhaseOf, PcState, native, history,
       Lifecycle!BeginReply, Lifecycle!Go
  <2>2. QED
    BY <2>1 DEF Lifecycle!Next
<1>15. ASSUME StopRequested \/ GenerationEnds \/ EmitCancelled PROVE Lifecycle!EndReply
  BY <1>1, <1>15 DEF StopRequested, GenerationEnds, EmitCancelled, EndReply, Gone, Live,
     PhaseOf, PcState, native, history, Lifecycle!EndReply, Lifecycle!Go
<1>16. CASE ResumeCancelled
  <2>1. QueueOK(queue, reply)
    BY TypeParts DEF IInv
  <2>2. reply = "resuming"
    BY <1>16, <2>1, TakeResume DEF ResumeCancelled
  <2>3. st = "Generating"
    BY <1>1, <2>2 DEF SuspendedOwnsEngine
  <2>4. Lifecycle!EndReply
    BY <1>1, <1>16, <2>3 DEF ResumeCancelled, Take, Gone, Live, PhaseOf, native, history,
       Lifecycle!EndReply, Lifecycle!Go
  <2>5. QED
    BY <2>4 DEF Lifecycle!Next
<1>17. CASE StartBench
  <2>1. Lifecycle!BeginBench
    BY <1>1, <1>17 DEF StartBench, Take, Gone, Live, PhaseOf, native, history,
       Lifecycle!BeginBench, Lifecycle!Go
  <2>2. QED
    BY <2>1 DEF Lifecycle!Next
<1>18. CASE FinishBench
  <2>1. Lifecycle!EndBench
    BY <1>1, <1>18 DEF FinishBench, Gone, Live, PhaseOf, PcState, native, history,
       Lifecycle!EndBench, Lifecycle!Go
  <2>2. QED
    BY <2>1 DEF Lifecycle!Next
<1>19. CASE StartUnload
  <2>1. Lifecycle!BeginUnload
    BY <1>1, <1>19 DEF StartUnload, Take, Gone, Live, PhaseOf, native, history,
       Lifecycle!BeginUnload, Lifecycle!Go
  <2>2. QED
    BY <2>1 DEF Lifecycle!Next
<1>20. CASE FinishUnload
  <2>1. ~Live'
    BY <1>20 DEF FinishUnload, NativeUnload, Live
  <2>2. Lifecycle!EndUnload
    BY <1>1, <1>20, <2>1 DEF FinishUnload, NativeUnload, Gone, PhaseOf, PcState,
       native, history, Lifecycle!EndUnload, Lifecycle!Go
  <2>3. QED
    BY <2>2 DEF Lifecycle!Next
<1>21. CASE ResetError
  <2>1. Lifecycle!Reset
    BY <1>1, <1>21 DEF ResetError, Take, Gone, Live, PhaseOf, native, history,
       Lifecycle!Reset, Lifecycle!Go
  <2>2. QED
    BY <2>1 DEF Lifecycle!Next
<1>22. ASSUME DestroyUnloaded \/ StartDestroy PROVE [Lifecycle!Next]_(Lifecycle!vars)
  <2>1. Gone'
    BY <1>22 DEF DestroyUnloaded, StartDestroy, Gone
  <2>2. PhaseOf(st) # "gone"
    BY <1>1 DEF PhaseOf, States
  <2>3. (IF Gone THEN "gone" ELSE PhaseOf(st)) # "gone" /\ Lifecycle!Destroy
    BY <2>1, <2>2 DEF Lifecycle!Destroy
  <2>4. QED
    BY <2>3 DEF Lifecycle!Next
<1>23. CASE FinishDestroy
  BY <1>1, <1>23 DEF FinishDestroy
<1>24. CASE UNCHANGED vars
  BY <1>24 DEF vars, Gone, Live, Lifecycle!vars
<1>25. ASSUME Lifecycle!EndReply PROVE Lifecycle!Next
  BY <1>25 DEF Lifecycle!Next
<1> HIDE DEF Same
<1>26. Same => [Lifecycle!Next]_(Lifecycle!vars)
  BY DEF Same
<1>27. QED
  BY <1>2, <1>3, <1>4, <1>5, <1>6, <1>7, <1>8, <1>9, <1>10, <1>11, <1>12, <1>13,
     <1>14, <1>15, <1>16, <1>17, <1>18, <1>19, <1>20, <1>21, <1>22, <1>23, <1>24,
     <1>25, <1>26 DEF Next, Dispatcher

(***************************************************************************)
(* Every behaviour of the engine is one of the life cycle: one operation   *)
(* at a time, on the model loaded last with its own context, a system      *)
(* prompt only right after the load; after destroy nothing is promised.    *)
(***************************************************************************)
THEOREM EngineImplementsLifecycle == Spec => ImplementsLifecycle
<1>1. Init => HandleInv
  BY DEF Init, HandleInv, LoadedStates
<1>2. Spec => []HandleInv
  BY <1>1, HandleStep, AlwaysIInv, PTL DEF Spec
<1>3. IInv /\ HandleInv /\ [Next]_vars => [Lifecycle!Next]_(Lifecycle!vars)
  BY GoneMaps, StepMaps
<1>4. QED
  BY <1>2, <1>3, InitMaps, AlwaysIInv, PTL DEF Spec, ImplementsLifecycle, Lifecycle!Spec
==============================================================================
