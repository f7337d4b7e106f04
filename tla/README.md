# Verification of MyLlama

MyLlama is an Android chat application that runs GGUF models on the device with
llama.cpp, or talks to an OpenAI compatible server. This directory holds TLA+
models of its first-party code and of the parts of llama.cpp it leans on hardest,
the TLC configurations that check them on small instances, and TLAPS proofs of the
theorems that matter most.

The application is about 4900 lines of Kotlin and C++ in `src/app` and `src/lib`.
`src/src`, `src/include`, `src/common`, `src/ggml` and `src/vendor` are a vendored
llama.cpp and ggml, hundreds of thousands of lines of kernels, back ends, model
formats and samplers. The share of the whole repository that is modelled is
therefore tiny; of the code that decides what the application does it is most.

## 1. Inventory

| component | source | state it keeps | operations |
|---|---|---|---|
| Native completion loop | `lib/src/main/cpp/ai_chat.cpp` | `g_model`, `g_context`, `g_batch`, `g_sampler`, `g_chat_templates`; `chat_msgs`, `system_prompt_position`, `current_position`, `stop_generation_position`, `cached_token_chars`, `assistant_ss` | `load`, `prepare`, `processSystemPrompt`, `processUserPrompt`, `generateNextToken`, `benchModel`, `unload`, `shutdown` |
| KV cache | `src/llama-kv-cache.cpp`, `llama-kv-cells.h`, `llama-batch.cpp`, `llama-context.cpp` | the cells with position and pending shift, the head | `seq_rm`, `seq_add`, `find_slot`, `apply_ubatch`, the K-shift, `llama_context::decode` |
| Thread pool | `ggml/src/ggml-cpu/ggml-cpu.c` | `n_graph`, the barrier, `current_chunk`, `abort`, `pause`, `stop`, the state of each worker | compute a graph, pause, resume, free |
| Inference engine | `lib/.../InferenceEngineImpl.kt`, `InferenceEngine.kt`, `AiChat.kt` | the singleton `instance`; `_state`, `_readyForSystemPrompt`, `_cancelGeneration`; the queue of `llamaDispatcher`, one thread wide | `getInstance`, `loadModel`, `setSystemPrompt`, `sendUserPrompt` (a flow), `cancelGeneration`, `bench`, `cleanUp`, `destroy` |
| Chat screen | `app/.../MainActivity.kt` | messages, sessions, settings, `isBusy`, `isModelReady`, the generation job, the selected model, the hub list | send, edit, regenerate, stop, load, unload, delete and move models, switch and delete sessions, save, restore, rotate |
| Model store | `app/.../ModelRepository.kt` | the files in the model directories | list, import, download with resume, delete, migrate, query the hub |
| OpenAI client | `app/.../OpenAiCompatibleClient.kt` | none | one blocking completion request |
| GGUF reader | `lib/.../internal/gguf/GgufMetadataReaderImpl.kt` | the position in a stream | read the magic number, the header and the metadata |
| List adapters, metadata records, logging | `app/.../*Adapter.kt`, `lib/.../gguf/*.kt`, `logging.h` | none of their own | rendering, records, macros |

**How they interact.** The chat screen runs coroutines on the main thread and on
`Dispatchers.IO`. It calls the engine with `suspend` functions that hop to
`llamaDispatcher`, collects the flow of a reply (a buffered channel between the
dispatcher and the collector), observes the engine's `state` flow, and calls
`cleanUp` and `destroy`, which block their caller until the dispatcher has run
them. The engine calls the native functions, one at a time; these share global
variables, and put batches into the KV cache, whose graphs the thread pool
computes. The screen writes sessions and settings to preferences and asks the
model store for files, whose paths it saves and hands to the engine.

**What is hard.** A reply suspends in `emit` when the buffer is full and frees the
dispatcher for whatever is queued. The cancel flag is written by any thread and
cleared by the operations themselves. `destroy` may come at any moment, and the
singleton outlives the activity that destroyed it. Every native operation may
fail half way. The context shifts after thousands of tokens, and the keys in the
cache follow later. Threads poll, sleep and meet at a barrier without a lock.
Downloads are retried, resumed, interrupted by the death of the process; what a
destroyed screen has begun on a thread of `Dispatchers.IO` goes on. A generation
job may still deliver results after it was cancelled.

**What makes each part correct.**

- Completion loop: the positions agree with the cache; the system prompt is never
  discarded; what is discarded is the oldest history; generation always has room;
  a reply exceeds its budget by no more than what was discarded; the chat history is a conversation; the text that is shown
  consists of whole characters and of all of them.
- KV cache: each position is in one cell, with its token and a key that is rotated
  to it or going to be; a slot is found whenever there are free cells.
- Thread pool: no thread runs ahead of the others by more than a barrier, every
  chunk is computed once, every graph and the end of the pool are reached.
- Engine: a loaded state has live handles behind it; no native function meets a
  freed handle; nothing leaks; nobody touches the context between two tokens of a
  reply; a cancel request reaches the reply; its public states are those the
  interface promises; every screen gets an engine.
- Chat screen: one generation at a time; its tokens go to the message they answer;
  a saved session is what the screen showed; what loads and replies make busy is not
  busy for ever.
- Model store: a file that is listed is a complete download of what was asked for;
  no operation loses a model; the saved path follows its file.
- GGUF reader: the bytes skipped and read are those the format says.

`PROJECT.json` lists every component, and the hazards at their lines.

## 2. Plan

Done, in this order:

1. `ContextWindow`: the completion loop.
2. `InferenceEngine`, `InferenceEngineProofs`: the engine.
3. `ModelDownload`, `ModelDownloadProofs`: a download with its attempts,
   resumption, crashes and threads that outlive their screen.
4. `Conversation`, `ConversationProofs`: the chat screen.
5. `EngineSingleton`, `EngineSingletonProofs`: `getInstance` under several threads,
   and the screen that is created again over the engine the last one destroyed.
6. `ReplyText` and `GgufReader`: algorithms against reference definitions.
7. `EngineLifecycle`: what the interface promises; that the engine implements it is in
   `InferenceEngineProofs`.
8. `KvCache`: the cells below the completion loop, in lockstep with it; `KvCacheProofs` has
   the proofs about both.
9. `ThreadPool`: the threads that compute a graph.
10. `ModelStore`, `ModelStoreProofs`: import, deletion and migration of models.
11. `ThreadPoolProofs`: the barrier for any number of threads.
12. `ParserProofs`: what `is_valid_utf8` computes, for strings of any length, and what the
    GGUF reader makes of files of any size.

Left:

13. `SessionStore`: the stored form of the sessions, import of the old form, export and
    restoration, process death between the writes.
14. `HubPager`: the pages of the hub list, a search that overtakes the one before.

## 3. Modules and code

Every definition that stands for code is listed with its lines under "map" in
`PROJECT.json`.

### ContextWindow

One conversation of `ai_chat.cpp`. The engine calls the native functions one at a
time, so a step is one `llama_decode` of a prompt or one call of
`generateNextToken`.

| variable | code |
|---|---|
| `sysPos`, `curPos`, `stopPos` | `system_prompt_position`, `current_position`, `stop_generation_position` |
| `kv` | the KV cache as `llama_decode` shows it: a function from positions to tokens; a token is its rank among those decoded since the cache was cleared |
| `chat` | the roles of `chat_msgs` |
| `call` | the arguments and the progress of `decode_tokens_in_batches` |
| `phase` | what the engine lets happen next, as `InferenceEngineImpl` orders the calls |
| `decoded`, `reply`, `overrun` | history: tokens decoded; `n_predict`, tokens returned and tokens discarded since; whether a prompt was cut or made history go |

`BeginSystemPrompt`, `BeginUserPrompt` are the functions up to the loop over the
batches; `DecodeBatch`, `FinishSystemPrompt`, `FinishUserPrompt` one turn of that
loop, with the shift it may start with; `PromptFails` a `llama_decode` that refuses
or fails. `generateNextToken` is `StopAtLimit`, `GenerateToken`, `EndOfGeneration`
and `TokenFails`, all of which begin with the shift. `ShiftKV` is `shift_context`:
`llama_memory_seq_rm` and `llama_memory_seq_add`. What `llama_decode` accepts is
stated here as `Accepts`; `KvCache` shows that this is what the cells do.

Left out: the text of tokens and messages (`ReplyText`), the sampler, `benchModel`,
which works in a context of its own. `load` and `prepare` are one successful step
here; their failures are in `InferenceEngine`. The model is one with an ordinary
unified cache: recurrent models, sliding windows and M-RoPE accept other batches.

### KvCache

EXTENDS `ContextWindow` with one variable, `cache`: the array of cells, the head at
which the search for free cells starts, and whether a shift is pending. A cell has
its position, the shift its key is still to be rotated by, and, as data of the
tensor, what the key is rotated by. `CacheNext` moves both modules in lockstep: each
action is one of `ContextWindow` and the calls it makes into the cache.

`SeqRm`, `SeqAdd` are the operations of the completion loop; `Decode` and `FailDecode`
are `llama_context::decode`: the check that the batch continues its sequence
(`Continues`), the update that applies what is pending (`Updates`, whose failure
decode does not look at), `find_slot` (`Slot`), `apply_ubatch` (`Placed`), and the
removal of a batch that was placed and could not be computed.

As the application uses it: one sequence, one stream, no sliding window, `n_ubatch` =
`n_batch` so that a batch is never split. A K-shift that fails half way, and models
that cannot shift at all (`GGML_ABORT`), are left out.

### ReplyText

How the bytes of the tokens become the text of a reply: `cached_token_chars`,
`assistant_ss`, `is_valid_utf8`, and the C string that goes to Java. A byte is known by
its role in UTF-8 only. The reference, `IsText`, says that every byte belongs to a whole
character, and knows nothing of the loop in the code.

### InferenceEngine

`InferenceEngineImpl.kt` with the handles of `ai_chat.cpp`.

| variable | code |
|---|---|
| `st`, `readySys`, `cancel` | `_state`, `_readyForSystemPrompt`, `_cancelGeneration` |
| `queue`, `running` | `llamaDispatcher`: what waits for its thread, what the thread does |
| `reply`, `collector` | the flow of `sendUserPrompt` (running, suspended in `emit`, resuming) and its collector |
| `gModel`, `gCtx` | `g_model`, `g_context`; batch, sampler and templates live and die with the context |
| `models`, `ctxs`, `loads` | what is allocated; handles are numbered in the order of allocation |
| `used`, `leaked`, `destroyed`, `fault` | history; `fault`: a native function was about to touch a freed handle, and nothing is said of what follows |

Callers put work in the queue (`Call`, `CallBlocking`) or set the flag
(`CancelGeneration`). Each operation is a start, which checks the state, and the
steps of its native calls; between them callers and collectors run, and only they.
`EmitSuspends` frees the dispatcher, `CollectorTakes` and `CollectorCancelled` put the
reply back into the queue. A flow starts even when its collector was cancelled in
the meantime (`flowOn` starts its producer atomically); it then ends at its first
`emit`.

Left out: the messages of exceptions, options beyond "valid or not", the init
coroutine failing (the process ends then), `availableBackends`.

### EngineLifecycle

What `InferenceEngine.kt` promises to a caller who knows nothing of dispatcher, queue,
flow and handles: the phases, which model answers, whether a system prompt is still
accepted. `InferenceEngine` instantiates it (`Lifecycle == INSTANCE EngineLifecycle
WITH ...`): the phase is `_state`, `gone` after `destroy`; the model is `gModel` if it
is alive and `prepare` has given it a context; `read` is the number of models read;
`fresh` is `_readyForSystemPrompt` in `ModelReady`. The refinement (`ImplementsLifecycle`)
is checked by TLC and proved.

### EngineSingleton

`getInstance`, called by each screen on a thread of `Dispatchers.Default`, and
`destroy` in its `onDestroy`. `Look` is the check without a lock, `Build` and `Store`
the construction inside `synchronized`, which does not look again; `Deliver` the return
to the main thread, which finds the screen destroyed or not. Two threads that both
missed the instance build two engines; `late` are the screens that came when that was
over.

### ModelDownload

`downloadFromHuggingFace` of `ModelRepository.kt`, run by threads of `Dispatchers.IO`.

| variable | code |
|---|---|
| `names`, `content` | the directory and its files; a file is an inode, so that a stream that is open survives a deletion or a rename |
| `dl` | the local variables of each running download: attempt, bytes copied, length known or not, the open file, whether its coroutine was cancelled |
| `origin`, `taint` | history of an inode: the file it was begun for; `mixed` if bytes of another file, `shared` if two writers, `short` if a body of unknown length that ended early went into it |

`Begin` is the call from the screen; `Measure`, `ConnectionFails`, `HttpError`,
`ServerRestarts` (a whole body where a part was asked for), `Accept`, `CopyPiece`,
`ProgressCancelled`, `ReadStalls`, `ReadFails`, `EndOfBody`, `ShortBody`, `Rename`
and `RenameFails` are the steps of an attempt and the ways it ends.
`CancelDownloads` is the destruction of the screen: a cancelled thread notices at
its next report of progress only, and a new screen may start another download
meanwhile. `Crash` is the death of the process, `DeleteTarget` the user.

All files of a model end in the same name, because only those share anything: the
temporary file is named after the last component of the path.

### ModelStore

The other operations on model files, and the settings that follow them.

| variable | code |
|---|---|
| `names`, `content` | the directories and their files, by inode as above; a file holds a model, whole or not |
| `task` | the running operations with their local variables: what is left to move, source and target, the open files, the map from old paths to new ones; `live` while the screen that began it exists |
| `set`, `disk` | `appSettings` (`modelStoragePath`, `localModelPath`, `modelProvider`) and the preferences |
| `owed`, `accident` | history: models installed and neither deleted nor replaced; the last of the accidents of section 4, of which `collided` stays |

A migration of a directory or of one file goes through `ListFiles`, `Choose`
(`availableModelFile`), `Rename`, and where that fails `OpenSource`, `Open`, `CopyDone`,
`Remove`; a deletion is `Delete`. `CopyFails`, `DeleteFails` and the second case of `Remove`
are the exceptions, `Migrated` is what the screen does with the result. An import goes
through `Open` and `CopyDone` and ends as a load does. A load is the operation `LoadModel`:
metadata and model are read (`EngineLoads`) or anything on the way throws (`LoadFails`), and
only when `loadModel` is back on the screen it saves the path (`LoadReturns`). The settings
also change without an operation: `UnloadModel`, `UseRemote`, `ForgetMissing`, and
`RestoreState`, which puts those of a backup in their place and leaves the files where they
are. `DestroyScreen` leaves the threads running and loses their results; `Crash` leaves only
files and preferences.

An operation may begin at any time. `isBusy` is meant to keep them apart and does not:
`renderEngineState` (1732-1740), `finishGeneration` (1095), `loadHubModels` (888) and
`showError` (1803) clear it under whatever runs, and `changeModelStorage` (1332),
`importModel` (903) and open dialogs do not look at it. Lists may be older than the files
and the settings, so that an operation may be called for any path.

What is taken for granted: `apply()` is durable when it returns; reading the backup has no
consequence before the settings are replaced; all names are variants of one name, the only
ones that meet, and `availableModelFile` takes the name itself or, if it is taken, any
variant that is free (the code takes the first). Downloads, which end in `loadModel` too,
are in `ModelDownload`.

### Conversation

The screen of `MainActivity.kt` as tasks of the main thread, the engine as its state
flow, and the server as an answer that comes or fails.

| variable | code |
|---|---|
| `session`, `messages`, `last`, `saved` | `currentSessionId`, `messages`, `lastAssistantMsg`, the sessions in the preferences; a message is the sequence of its tokens, each with the question it answers |
| `busy`, `ready`, `provider` | `isBusy`, `isModelReady`, `appSettings.modelProvider` |
| `menu`, `edit` | the open menu with the sessions it was built from; the position in the edit dialog |
| `gens` | the jobs that `trackGenerationJob` was given; the last is `generationJob` |
| `loads` | the coroutines in `loadModel`, each with what runs after it (`onReady`) |
| `eng`, `replier`, `shown`, `posted` | the engine's state, the reply it generates, the state rendered last, whether another one waits to be rendered. The flow conflates: a state equal to the one rendered last is not rendered |
| `sessions`, `asked` | what is numbered by now |
| `accidents` | history, see section 4 |

The user's actions are `Send`, `StopGeneration`, `OpenEdit` and `ApplyEdit`, the menus,
`NewChat`, `LoadSession`, `DeleteSession`, `PickModel`, `UnloadModel`, `UseRemote` and
`OnStop`; each is one callback with everything it calls. `LoadModel` to `LoadReturns`
are the pieces of `loadModel` between its suspensions. A local reply is `StartReply`,
`EngineToken`, `EngineEnds` or `PromptFails` on the engine's thread and
`AppendToken`, `FinishLocal`, `JobEnds` behind it. A job that was stopped before it ran is
dropped (`DropReply`), or its flow is started all the same, withdraws the request to stop and
goes on `unheard`, until it has text to emit and finds that nobody collects it. A remote
reply is `RemoteReturns` and `FinishRemote`, or `FinishLate` when it was stopped:
`withContext` waits for the blocking request, and only then does its handler run
`finishGeneration`. What the main thread is handed in order stays in order: the rendering of
`ProcessingUserPrompt` comes before the first token, and the last rendering before the
completion.

Left out: titles, modes, attachments and the other settings, the periodic rendering of
the growing reply (`assistantRenderJob`), the hub pages, deleting and moving models
(`ModelStore`), the restoration of a backup, and everything after `onDestroy`.

### GgufReader

The reader on a `FileInputStream`. A file is a row of cells, and only the cells that steer
the reader (types, lengths, counts) have a value, chosen when it is read: every file,
well formed or not, is one of the choices. `work` is the stack of values that are left,
`spans` what the reader took each value to be. `Int` and `Long` are scaled down, so that
a count may narrow to something negative, to zero or to another count, and a string may be
too long for `readString` although it is in the file. Memory for a string that is kept
is taken to suffice. `Format` is the
definition of the format, independent of the reader: a table of where values end (`Ends`),
by place, type and count, each entry from entries for later places, and one of what pairs
there are (`Pairs`). Both are recursive functions of a file `f` and its size `z`; a file
that is read in part is in the domain of `f` in part. Theorems: in `ParserProofs`.

### ThreadPool

`ggml_graph_compute` and the threads behind it, without OpenMP:
`lib/src/main/cpp/CMakeLists.txt` (24-27) builds x86_64 so; arm64 uses OpenMP, whose
threads are not modelled. The application attaches no pool to its contexts, so pools are
made and freed by llama.cpp itself.

A step accesses one shared variable, or is a region under the pool's mutex; where an
unlocked reader can look into such a region it is two steps (`KickStore`, `KickSignal`).
`Poll`, `Look`, `LockForWork` are the way of a worker from polling to sleeping;
`NextNode`, `Work`, `Prepare`, `Chunk`, `Claim`, `FinishNode` the loop over the nodes of a
graph with the chunks of a matrix product; `Enter`, `Arrive`, `Reset`, `Release`, `Spin`
are `ggml_barrier`. `done` and `claims` count what was computed.

Memory is sequentially consistent here; the code relaxes it with fences. A group of fused
nodes counts as one plain node. A pause from another thread and the wrap of the 16 bit
graph counter are left out.

## 4. Runs

| run | module | what it shows |
|---|---|---|
| `context_window` | `MCKvCache` | all properties of `ContextWindow` and `KvCache`: positions, cache, cells, keys and chat history agree through shifts, long prompts, failures and cancellation |
| `engine` | `MCInferenceEngine` | handles, suspended replies, leaks and cancellation; that a reply that is asked to stop stops; that the engine implements `EngineLifecycle` |
| `engine_singleton` | `EngineSingleton` | which engine a screen gets, and that it gets one |
| `reply_text` | `MCReplyText` | only whole characters are shown, none is lost, and the history says what was shown |
| `thread_pool` | `MCThreadPool` | phases, chunks and aborts agree between threads; every graph and the end of the pool are reached |
| `gguf_reader` | `MCGgufReader` | on every file the reader goes over the bytes the format says, or a named count was cut |
| `download_threads` | `MCModelDownload` | two threads on one file: what is resumed is a beginning of the file, what is installed is whole |
| `model_store` | `MCModelStore` | no model is lost until two operations meet at one file; until one is cut short, two overlap or settings are restored that do not fit, the saved path names the chosen model and every model is listed |
| `conversation` | `MCConversation` | up to the first accident every reply stands below its question, the saved session is the one that is shown, and `isBusy` is lifted, unless the engine generates for ever |

The types of `ContextWindow`, `InferenceEngine`, `ModelDownload`, `ModelStore` and
`EngineSingleton` are proved and no run spends time on them.

**Bounds.**

- `MCKvCache`: 8 positions, 6 for prompts, in 9 cells (llama.cpp pads `n_ctx`), batches of
  4. The prompts have 1 to 7 tokens: within a batch, two batches, exactly the maximum,
  and one beyond it. `MaxDecoded = 14` tokens between two resets is enough for two shifts
  in a reply and for a prompt after a shift. Headroom is 2 where the code has 4: the
  proofs need at least 2. `CHECK_DEADLOCK FALSE`: the engine really is stuck after a failed
  user prompt, and generation ends at the bound.
- `MCInferenceEngine`: three loads, so that a model meets what two before it left behind,
  and two calls in the queue, so that a call can overtake a reply that is about to resume.
- `EngineSingleton`: three screens: two that race and one that is late.
- `MCReplyText`: replies of 6 bytes, more than the longest character and another one; the
  pieces cut characters at every place.
- `MCThreadPool`: three threads, so that one is neither thread 0 nor the last to arrive;
  two graphs, so that leaving one meets entering the next; a product of three chunks,
  taken by one, two or three threads.
- `MCGgufReader`: 10 cells hold an array of arrays in a pair and what follows it, or a pair whose
  string is too long and in the file; an `Int` has 3 bits.
- `MCModelDownload`: files of 2 and 3 pieces, so that one can be resumed in the middle of
  the other; with two threads one file and two attempts are enough; two inodes, so that a
  second temporary file meets an installed one.
- `MCModelStore`: three directories, one of which the lists show only while it is the
  chosen one; two models of one name and one to import, so that a migration has to rename
  and an import replaces; two threads; three operations begun; two backups, one that fits
  at first and one of another directory. Of two operations at a time only the first two are
  followed, before a third begins (`OverlapEarly`), and nothing after two of them met at a
  file (`UntilCollision`). `CHECK_DEADLOCK FALSE`: the bounds are used up.
- `MCConversation`: two questions, so that a reply that was stopped meets the next, and a
  third where an edited one waits for a model meanwhile (`ThirdQuestion`); replies
  of one token, because order within a reply is kept by one queue; two sessions; two loads,
  of which the second is followed in the first session and without a menu only
  (`SecondLoad`). A reply that was stopped before it began is followed in the first session,
  without a menu and with at most one load (`StoppedEarly`). The theorems about this module
  need none of these bounds. `CHECK_DEADLOCK FALSE`: the user may have used up the bounds and nothing is
  left to do.

**Accidents.** Where guards leave holes, a history variable records the first time a
behaviour goes through one, and the properties speak of what comes before. With any one of
these exceptions left out TLC finds a property violated, so each is a behaviour of the code:

| module, accident | what happens |
|---|---|
| Conversation, `switched` | the engine is `ModelReady`, and rendered so, before the completion of the reply has run; in between, and in a menu opened before a load went on, sessions can be switched: the rest of the reply goes to the other one |
| `overlap` | what waited for a model runs after the controls were enabled: with a question sent in between, two replies are generated at once and their tokens mix |
| `moved` | an edited question waits for a model, and the user switches to the remote model and asks on; then `generateReplyForUserAt` is called with the old position and adds the reply at the end, below the other question |
| `outdated` | `loadSession` shows the session as the menu was built, and a reply that ended meanwhile disappears |
| `stopped` | `onStop` cancels a reply before the engine's work on it was rendered; the engine returns to the state rendered last, nothing is rendered and `isBusy` stays |
| `stuck` | a prompt that fails leaves the engine's state (run `left_behind`); rendered after a stop it leaves `isBusy` set for good |
| ModelStore, `cut` | a migration fails or dies in the middle: files that were moved are in a directory the settings do not name, and the saved path names nothing; `listFiles` gives nothing for a directory that cannot be read, and nothing is moved; an import over the chosen model, which empties the file first |
| `overlap` | two operations run at once, since `isBusy` excludes nothing: an import into the directory that was chosen before a change of the storage ends after it, a load saves the path a file had before it was moved |
| `restored` | a backup names another directory, or a model that is not there, and no file is moved |
| `collided` | a migration or deletion, of this screen or of one that is gone, meets another operation at the same file, and removes or replaces what that one writes |
| ModelDownload, `mixed`, `shared`, `short` | see the table of variables above |
| GgufReader, `count`, `past`, `bool`, `long` | a count that does not survive `toInt` or is negative; a skip behind the end, which a `FileInputStream` allows: a truncated file whose last value is skipped is accepted; a boolean that is neither 0 nor 1; a key, or a string that is kept, which is longer than an `Int` counts and is refused (`readString`, 522) although the file has it |

**Fairness.** Engine (`FairSpec`): weak fairness of the dispatcher's actions, since a thread of
`Dispatchers.IO` keeps running what is queued and native calls return, and of
`CollectorTakes`, since the screen's collector appends a token and takes the next. No
fairness makes a reply end: generation may go on for as long as the model does not emit
an end of generation token. EngineSingleton (`LiveSpec`): weak fairness of each call of
`getInstance` and of each engine's initialization; the lock is held for two steps by
each of finitely many threads. ThreadPool (`LiveSpec`): weak fairness of each thread, the
spinning ones included; nobody has to call, and a spurious wake-up cannot be relied on.
GgufReader (`LiveSpec`): the reader runs on its caller's thread. Conversation (`FairSpec`):
weak fairness of `Pump`, everything that is under way and waits neither for the user nor
for the model of a reply: tasks of the main thread, native calls, HTTP requests with their
timeouts. It is the union, so nothing is said about which of them comes first. A reply
is heard when it is to stop (`Stopping`: the loop looks at the flag before each token), and
nothing else is assumed of its end: the budget of tokens does not bound it, because the stop
position is absolute and every shift moves the current one back (`ai_chat.cpp` 309, 516-526).
`BusyIsLifted` therefore allows for an engine that generates for ever (`[]Unending`): a reply
nobody stops, or one that was stopped before it began and is unheard. The property is about
`isBusy` as loads and replies set it. It is not about the buttons: `showError` (1802-1806)
does not call `refreshControls`, and after a deletion, a migration or a change of the storage
that failed nobody else does.

**What the code does not do.** Each of these runs states what a comment or document
says and finds the behaviour that differs; `PROJECT.json` quotes the lines.

| run | finding |
|---|---|
| `shift_for_batch` | the shift for a batch of a prompt leaves the batch at its old positions: the cache has a gap there and `llama_decode` refuses it |
| `left_behind` | a failed user prompt leaves `ProcessingUserPrompt` for good |
| `resumes_other` | a partial file of another repository with the same file name is resumed, and the two are joined |

The models contain more of what the code does and a reader may not expect, as part of what
the passing runs explore: a shift lowers `current_position` and leaves the stop position, so
that a reply may be longer than `n_predict` by what was discarded (`ReplyBudget` says by
exactly that); the position after a truncated prompt is computed from the size before the
cut, and the next `llama_decode` is refused; after `destroy` the singleton still says
`ModelReady`, and later screens get it (`LateScreensShare`); a connection that breaks after
the last byte makes every retry ask for a range beyond the end; `getInstance` may build two
engines; an import replaces a file of its name in place.

## 5. Proofs

The proof modules prove, for every value of the constants that the named assumptions
allow, `Spec => []P` by an inductive invariant `IInv`: `Init => IInv`, `IInv /\
[Next]_vars => IInv'` with one lemma or step per action, `IInv => P`.

`KvCacheProofs`, first about `ContextWindow` (from `SizesAssumption`, `InputsAssumption`). `SystemPromptKept` and
`RecentHistory` are not inductive: the first needs to know that a batch is never
placed below the system prompt, the second what the cache looks like in the middle
of a prompt. `IInv` has one conjunct per phase that relates the cache, the positions
and the progress of the call, whether the prompt overran the context or not.
`ChatInv` adds that while a prompt is processed or answered the last message is the
user's. Theorems: `TypeCorrect`, `SystemPromptSurvives`, `HistoryIsRecent`,
`GenerationNeverBlocks`, `ReplyIsBounded`, `FreshContextAtZero`, `HistoryReadsAsChat`.
Their reach: any headroom of at least 2, any batch not larger than the context.

`KvCacheProofs`, then about `KvCache` (from the same). The invariant is that of
`ContextWindow` and `Sound(cache, kv)`: the cells hold the window, keys are rotated or pending, and no free
cell is behind the head. Lemmas say what each operator of the cells preserves, by cases
over the calls; the search for a slot is a matter of cardinalities of the free cells
before a cell. Theorems: `CacheImplementsWindow` (a behaviour of both is one of
`ContextWindow`, so that its theorems carry over), `CacheTypeCorrect`, `CellsAreTheWindow`,
`KeysAreFollowing`, `HeadLeads`, `SlotsAreFound`, for any number of cells.

`InferenceEngineProofs` (from `BoundsAssumption`). The invariant says which states of
the engine go with which step of the dispatcher, and which handles are live in each
of them. Theorems: `TypeCorrect`, `LoadedMeansLive`, `NoUseAfterFree`,
`SuspendedReplyOwnsEngine`, `SystemPromptComesFirst`, `LeaksOnlyThroughError`,
`CancelIsNotWithdrawn` (an action property), and `EngineImplementsLifecycle`: the initial
state maps to an initial state, and each action of the engine to one named action of the life
cycle or to a stutter, under `IInv` and `HandleInv`, which says that a loaded model has
the context made for it.

`EngineSingletonProofs` (from `NoneAssumption`). From the first late screen on there is an
engine and nobody is on the way to build one; a late screen knows of no other. Theorems:
`TypeCorrect`, `LateScreensGetOne`, for any number of screens.

`ModelDownloadProofs` (from `DownloadAssumption`). `TargetWhole` needs to know what is in a
temporary file at every moment before the rename. `IInv` says of an inode that nothing
spoiled that it holds the first pieces of its file, that it has at most one writer, whose
count of bytes is its length, that it is not longer than the file, and that a thread that is
about to rename it has all of it. Theorems: `TypeCorrect`, `PartialsArePrefixes`,
`InstalledModelsAreWhole`, for any number of files, sizes, threads and attempts.

`ModelStoreProofs` (from `StoreAssumption`, `InstalledAssumption`). That a model is whole somewhere (`Kept`) is kept
by a step that removes or overwrites a file only if that file's content is elsewhere, or is
not a model that is owed. Until two operations meet, `Undisturbed` says of each operation
that the file it writes has the name it writes to and is not whole, that the file it reads
is still where it was found, and that its copy is equal to it before it is removed (`Own`);
and of each two that neither writes where the other reads or writes (`Apart`). No two names
lead to one file (`Injective`). That the saved path follows its file and that every model is
listed hold until the first accident, and are not inductive:
between the copy of a model and the new path both are false in the files alone. `Calm` says
that there is at most one operation then, since a second one is an accident, that its screen
lives (`Steady`), what each of its
steps knows of the file it works on (`Reach`, `Holder`), where the file of the saved path is
(`Follows`), and for each owed model in which directory it is found or that the operation
holds it (`Reached`). `InstalledAssumption`, that a model is installed where the lists look,
is what makes every model listed at first. Theorems: `TypeCorrect`, `ModelsAreKept`,
`PathIsFollowed`, `ModelsAreListed`, for any number of directories, names, models and threads.

`ThreadPoolProofs` (from `PoolAssumption`). That the barrier separates the nodes needs two
things at once. One is a count: `nBarrier` is the number of the threads that wait at the
present barrier (`Barrier`), so that the last to arrive knows that all have. The other is
that while a graph is computed there is one part of it, the nodes from `s` to `e`, that all
threads are in: each has yet to come from the barrier before it, works on it, has finished
it and heads for the barrier after it, or waits there (`Segment`, `Place`). The crossing of
the barrier is the only step that changes the part; the others move one thread inside it.
`Shared` says of a product under way that a chunk below the counter was computed once or
is held by one thread. Between two graphs all workers are outside (`Quiet`).
Theorems: `BarrierHolds`, `ParametersAreFree`, `SameGraph`, `AbortsTogether`,
`NoChunkTwice`, for any number of threads, graphs and chunks; that the atomics behave as if
sequentially consistent is part of the model, not proved.

`ConversationProofs` (from no assumption). What a token is appended to depends on the last
message, the buffer and who is active. `Good` holds up to the first accident: only the last
coroutine is active; its reply is the last message, below its question, with the buffer
equal to the tokens that came, or it is not shown any more; and once it was finished on the
screen, or nobody is active, all is saved (`Active`, `Settled`). A finished request that
comes late may take away the placeholder of the next reply, which is why a reply that is
not shown any more is part of it. The attempt to prove it found the accident `moved`, which
needs three questions. Theorems: `RepliesArePlaced`, `ScreenIsSaved`, for any number of
questions, tokens, loads and sessions.

`ParserProofs`, the text of a reply (from `PiecesAssumption`). `ValidMeansText` is about the loop alone:
`is_valid_utf8` is a recursive function over the places in a string, each of which looks at
later ones only. That there is such a function, what it accepts, and what it must accept
are three inductions from the end of the string; the library's induction theorems take an
operator, so that `Backwards` does it on a set of places, from the least number that is not
in it. The invariant `ReplyInv` of a reply is then short: what is shown is text, what waits
is nothing or not valid, and the two make up what came. That nothing of a text waits
(`TextIsShown`) follows because what is left of a text after a text is a text
(`TextOfRest`), and `is_valid_utf8` would have accepted it. Theorems: `ValidMeansText`,
`WholeCharactersAreShown`, `WhatIsSaidIsShown`, `NothingOfATextWaits`, for any vocabulary and
replies of any length.

`ParserProofs`, the GGUF reader (from `CellsAssumption`: no bound on the size of a file or the
width of an `Int`; that a power of two is positive is assumed, since the provers know nothing
of powers). The tables of the format exist for every file,
and their entries are ends behind their places or verdicts (`EndsAre`, `PairsAre`): again
`Backwards`, over places. The reader has no recursion but a stack of frames, and a file it
knows in part; what joins the two is `Tells`: there is a chain of places, where each frame
ends if the one inside it ends where the chain says (`Chain`), and the format of the whole
file is the spans so far, the open one closed at the end of the chain, and what the pairs
from there on are (`Verdict`). The invariant (`ReaderInv`) says this of every file that
goes on from the cells read so far, so that a cell may still be anything until it is read,
and that the format is `Bad` once the reader failed or skipped behind the end. It needs
that the reader never comes back to a cell (`Ahead`), since what was true of a cell would
not hold of another value there. A step is a lemma about chains: a value goes
(`ValueGoes`), an array puts a frame in front (`ArrayBegins`), a frame without values is
left (`FrameEnds`), a pair begins or closes a span (`PairBegins`), and a value without an
end spoils every frame around it (`ValueSpoils`). Theorems: `WellFormedIsRead`,
`ReturnedIsThere`, for files of any size, arrays nested to any depth and any threshold.

Only model-checked: the liveness properties `CancelEndsReply`, `ScreenIsServed`, `GraphEnds`,
`FreeEnds`, `ReadingEnds` and `BusyIsLifted`, since liveness under fairness is out of the
prover's reach.

## 6. Not modelled

The stored form of the sessions, the hub's pages, attachments and the settings without
consequence for models and sessions (the first two are planned, section 2). The list
adapters, the metadata records and the log macros have no state. `benchModel` works in a
context of its own. Of llama.cpp and ggml only the cells of the cache, the order of
`llama_context::decode` and the thread pool are modelled: kernels, back ends, model files,
vocabularies, samplers and templates are third-party code without state of its own that
the application shares.
