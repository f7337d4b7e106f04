---------------------------- MODULE Conversation ----------------------------
(***************************************************************************)
(* The chat screen of MainActivity.kt: the messages of the session that is *)
(* shown, the saved sessions, the coroutines that generate replies and     *)
(* those that load a model, and the flags that enable the controls.        *)
(*                                                                         *)
(* Every action of the screen is one task of the main thread.  The engine  *)
(* appears as its state flow and the tokens it emits, the server as an     *)
(* answer that comes or fails.                                             *)
(***************************************************************************)
EXTENDS Integers, Sequences

CONSTANTS
    MaxQuestions,  \* bounds of the model: texts the user writes,
    MaxTokens,     \* tokens of a reply,
    MaxLoads,      \* loads of a model,
    MaxSessions    \* sessions

ASSUME BoundsAssumption ==
    /\ MaxQuestions \in Nat /\ MaxTokens \in Nat /\ MaxLoads \in Nat
    /\ MaxSessions \in Nat \ {0}

VARIABLES
    session, messages, last, saved,  \* currentSessionId, messages, lastAssistantMsg, KEY_SESSIONS
    sessions,                        \* ids given to sessions by now
    busy, ready, provider,           \* isBusy, isModelReady, modelProvider
    menu, edit,                      \* the menu that is open; the message in the edit dialog
    gens, loads,                     \* the coroutines started by now
    eng, replier,                    \* state of the engine; the reply it generates
    shown, posted,                   \* state that was rendered last; whether another is posted
    asked,                           \* texts written by now
    accidents                        \* history: what the guards of the screen let happen

(* Accidents:
   switched  the session is changed, or edited, while something is on its way to it;
   outdated  a session is loaded as the menu has it, and it is not like that any more;
   overlap   a reply begins that waited for a model, while another is generated;
   moved     an edited question waited for a model, and is not the last message any more;
   stopped   onStop cancels a local reply, and no state of the engine will be
             rendered that enables the controls;
   stuck     the prompt fails, and the engine stays where it is. *)

chat == <<session, messages, last, saved, sessions>>
flags == <<busy, ready, provider>>
dialogs == <<menu, edit>>
engine == <<eng, replier, shown, posted>>
vars == <<chat, flags, dialogs, gens, loads, engine, asked, accidents>>

\* A message is what it consists of: a text of the user, tokens of a reply.
UserMessage(q) == [isUser |-> TRUE, content |-> <<<<q, 0>>>>]
Edited == [isUser |-> FALSE, content |-> <<<<0, 0>>>>]
Placeholder == [isUser |-> FALSE, content |-> <<>>]

With(fn, x, v) == [y \in DOMAIN fn \cup {x} |-> IF y = x THEN v ELSE fn[y]]
Without(fn, x) == [y \in DOMAIN fn \ {x} |-> fn[y]]
Upto(s, n) == SubSeq(s, 1, n)
NoSessions == [s \in {} |-> <<>>]

\* generationJob?.isActive
Generating == gens # <<>> /\ gens[Len(gens)].active
\* A dialog or a menu takes all input.
Free == menu = [open |-> "no", items |-> NoSessions] /\ edit = 0
\* A reply or a question on its way to this session.
Pending == \/ \E g \in DOMAIN gens : gens[g].active
           \/ \E l \in DOMAIN loads : loads[l].step # "done" /\ loads[l].next # "nothing"

Note(accident, happened) == accidents' = IF happened THEN accidents \cup {accident} ELSE accidents

------------------------------------------------------------------------------
Init ==
    /\ session = 1 /\ sessions = 1 /\ messages = <<>> /\ last = <<>> /\ saved = NoSessions
    /\ busy = FALSE /\ ready = FALSE /\ provider \in {"local", "remote"}
    /\ menu = [open |-> "no", items |-> NoSessions] /\ edit = 0
    /\ gens = <<>> /\ loads = <<>>
    /\ eng = "none" /\ replier = 0 /\ shown = "none" /\ posted = "no"
    /\ asked = 0 /\ accidents = {}

\* saveMessages
Saved(ms) == IF ms = <<>> THEN saved ELSE With(saved, session, ms)

\* removeEmptyTrailingAssistant
Trimmed(ms) ==
    IF ms # <<>> /\ ms[Len(ms)] = Placeholder THEN Upto(ms, Len(ms) - 1) ELSE ms

\* Mutant: the controls stay disabled.
Finish_StaysBusy(ms) ==
    /\ messages' = Trimmed(ms)
    /\ saved' = Saved(Trimmed(ms))
    /\ UNCHANGED busy

\* finishGeneration, with what was shown before
Finish(ms) ==
    /\ messages' = Trimmed(ms)
    /\ saved' = Saved(Trimmed(ms))
    /\ busy' = FALSE

\* loadLocalModelForChat: what comes next waits for the model.
LoadFirst(next, n) ==
    /\ Len(loads) < MaxLoads
    /\ loads' = Append(loads, [step |-> "begin", next |-> next, arg |-> n])

\* Mutant: the buffer of the last reply is not cleared.
Generate_KeepsBuffer(ms, i, kind) ==
    /\ gens' = Append(gens, [kind |-> kind, active |-> TRUE, step |-> "queued",
                             question |-> ms[i].content[1][1], made |-> 0, got |-> 0])
    /\ messages' = Append(ms, Placeholder)
    /\ busy' = TRUE
    /\ UNCHANGED last

\* generateReplyForUserAt, once the model is there
Generate(ms, i, kind) ==
    /\ gens' = Append(gens, [kind |-> kind, active |-> TRUE, step |-> "queued",
                             question |-> ms[i].content[1][1], made |-> 0, got |-> 0])
    /\ messages' = Append(ms, Placeholder)
    /\ last' = <<>>
    /\ busy' = TRUE

NeedsModel == provider = "local" /\ ~ready

\* handleUserInput and submitUserMessage
Send ==
    /\ Free /\ ~busy /\ ~Generating /\ asked < MaxQuestions
    /\ asked' = asked + 1
    /\ IF NeedsModel
       THEN /\ LoadFirst("submit", asked + 1)
            /\ UNCHANGED <<messages, last, busy, gens>>
       ELSE /\ Generate(Append(messages, UserMessage(asked + 1)), Len(messages) + 1, provider)
            /\ UNCHANGED loads
    /\ UNCHANGED <<session, sessions, saved, ready, provider, dialogs, engine, accidents>>

\* Mutant: the stopped reply stays on the screen only.
StopGeneration_Unsaved ==
    /\ Free /\ Generating
    /\ gens' = [gens EXCEPT ![Len(gens)].active = FALSE]
    /\ messages' = Trimmed(messages) /\ busy' = FALSE
    /\ UNCHANGED <<session, sessions, last, saved, ready, provider, dialogs, loads, engine, asked,
                   accidents>>

\* The button, or back.
StopGeneration ==
    /\ Free /\ Generating
    /\ gens' = [gens EXCEPT ![Len(gens)].active = FALSE]
    /\ Finish(messages)
    /\ UNCHANGED <<session, sessions, last, ready, provider, dialogs, loads, engine, asked,
                   accidents>>

\* onStop: the job is cancelled, and nothing is finished.
OnStop ==
    /\ Generating \/ Saved(messages) # saved
    /\ gens' = IF Generating THEN [gens EXCEPT ![Len(gens)].active = FALSE] ELSE gens
    /\ saved' = Saved(messages)
    /\ Note("stopped", Generating /\ gens[Len(gens)].kind = "local" /\ shown # "replying")
    /\ UNCHANGED <<session, sessions, messages, last, flags, dialogs, loads, engine, asked>>

------------------------------------------------------------------------------
\* Menus, dialogs and sessions

OpenAppMenu ==
    /\ Free /\ ~busy
    /\ saved' = Saved(messages)
    /\ menu' = [open |-> "app", items |-> Saved(messages)]
    /\ UNCHANGED <<session, sessions, messages, last, flags, edit, gens, loads, engine, asked,
                   accidents>>

\* The menu of new conversations, or the list of the installed models: open
\* whatever else happens meanwhile.
OpenMenu ==
    /\ Free /\ ~busy
    /\ menu' = [open |-> "other", items |-> NoSessions]
    /\ UNCHANGED <<chat, flags, edit, gens, loads, engine, asked, accidents>>

CloseMenu == menu' = [open |-> "no", items |-> NoSessions]

Dismiss ==
    /\ ~Free
    /\ CloseMenu /\ edit' = 0
    /\ UNCHANGED <<chat, flags, gens, loads, engine, asked, accidents>>

\* startEmptySession: an id that was never used
StartEmptySession ==
    /\ sessions < MaxSessions /\ sessions' = sessions + 1
    /\ session' = sessions + 1
    /\ messages' = <<>> /\ last' = <<>>

NewChat ==
    /\ menu.open = "other" /\ CloseMenu
    /\ StartEmptySession
    /\ saved' = Saved(messages)
    /\ Note("switched", Pending)
    /\ UNCHANGED <<flags, edit, gens, loads, engine, asked>>

\* The menu has the session as it was when the menu was opened.
LoadSession(s) ==
    /\ menu.open = "app" /\ s \in DOMAIN menu.items
    /\ CloseMenu
    /\ saved' = Saved(messages)
    /\ session' = s /\ messages' = menu.items[s] /\ last' = <<>>
    /\ accidents' = accidents \cup (IF Pending THEN {"switched"} ELSE {})
                        \cup (IF menu.items[s] # Saved(messages)[s] THEN {"outdated"} ELSE {})
    /\ UNCHANGED <<sessions, flags, edit, gens, loads, engine, asked>>

DeleteSession(s) ==
    /\ menu.open = "app" /\ s \in DOMAIN menu.items
    /\ CloseMenu
    /\ saved' = Without(saved, s)
    /\ IF s = session THEN StartEmptySession ELSE UNCHANGED <<session, sessions, messages, last>>
    /\ Note("switched", s = session /\ Pending)
    /\ UNCHANGED <<flags, edit, gens, loads, engine, asked>>

OpenEdit(i) ==
    /\ Free /\ ~Generating /\ i \in DOMAIN messages
    /\ edit' = i
    /\ UNCHANGED <<chat, flags, menu, gens, loads, engine, asked, accidents>>

\* applyEditedMessage: what follows is removed, a question is asked again.
ApplyEdit ==
    /\ edit # 0 /\ edit' = 0
    /\ IF edit \notin DOMAIN messages
       THEN UNCHANGED <<messages, last, saved, busy, gens, loads, asked, accidents>>
       ELSE LET isUser == messages[edit].isUser
                ms == Append(Upto(messages, edit - 1),
                             IF isUser THEN UserMessage(asked + 1) ELSE Edited)
            IN /\ asked < MaxQuestions /\ asked' = asked + 1
               /\ saved' = Saved(ms)
               /\ Note("switched", Pending)
               /\ \/ ~isUser /\ messages' = ms /\ last' = <<>> /\ UNCHANGED <<busy, gens, loads>>
                  \/ /\ isUser /\ NeedsModel
                     /\ LoadFirst("regenerate", edit)
                     /\ messages' = ms /\ last' = <<>> /\ UNCHANGED <<busy, gens>>
                  \/ isUser /\ ~NeedsModel /\ Generate(ms, edit, provider) /\ UNCHANGED loads
    /\ UNCHANGED <<session, sessions, ready, provider, menu, engine>>

\* The dialog of the OpenAI compatible model.
UseRemote ==
    /\ Free /\ ~busy /\ provider = "local"
    /\ provider' = "remote"
    /\ UNCHANGED <<chat, busy, ready, dialogs, gens, loads, engine, asked, accidents>>

------------------------------------------------------------------------------
\* Loading and unloading

LoadAt(l, step) == l \in DOMAIN loads /\ loads[l].step = step
Over == [step |-> "done", next |-> "nothing", arg |-> 0]
ShowError(l) == busy' = FALSE /\ loads' = [loads EXCEPT ![l] = Over]

\* There is no model, or the user picks none.
NoModel(l) ==
    /\ LoadAt(l, "begin")
    /\ loads' = [loads EXCEPT ![l] = Over]
    /\ busy' = IF loads[l].next = "nothing" THEN FALSE ELSE busy
    /\ UNCHANGED <<chat, ready, provider, dialogs, gens, engine, asked, accidents>>

\* The state flow has a new value: a task of the main thread renders it.
Post == posted' = IF posted = "start" THEN posted ELSE "yes"

\* cleanUp: a reply that is being generated is told to stop.
CleanUp ==
    /\ eng \in {"ready", "replying", "error"}
    /\ eng' = "none" /\ replier' = 0 /\ Post
    /\ gens' = [g \in DOMAIN gens |->
                   IF g = replier THEN [gens[g] EXCEPT !.step = "ended"] ELSE gens[g]]
    /\ UNCHANGED shown

\* loadModel up to the metadata
BeginLoad ==
    /\ busy' = TRUE
    /\ ready' = FALSE
    /\ IF ready THEN CleanUp ELSE UNCHANGED <<engine, gens>>

LoadModel(l) ==
    /\ LoadAt(l, "begin")
    /\ loads' = [loads EXCEPT ![l].step = "metadata"]
    /\ BeginLoad
    /\ UNCHANGED <<chat, provider, dialogs, asked, accidents>>

\* cleanUp throws, between the tokens of a reply for instance.
LoadRefused(l) ==
    /\ LoadAt(l, "begin") /\ ready /\ eng \notin {"ready", "error"}
    /\ ShowError(l)
    /\ UNCHANGED <<chat, ready, provider, dialogs, gens, engine, asked, accidents>>

\* No metadata, or an engine that is not in the state for it.
MetadataFails(l) ==
    /\ LoadAt(l, "metadata")
    /\ ShowError(l)
    /\ UNCHANGED <<chat, ready, provider, dialogs, gens, engine, asked, accidents>>

EngineLoads(l) ==
    /\ LoadAt(l, "metadata") /\ eng = "none"
    /\ eng' = "loading" /\ Post
    /\ loads' = [loads EXCEPT ![l].step = "engine"]
    /\ UNCHANGED <<chat, flags, dialogs, gens, replier, shown, asked, accidents>>

EngineLoaded(l, success) ==
    /\ LoadAt(l, "engine")
    /\ eng' = (IF success THEN "ready" ELSE "error") /\ Post
    /\ loads' = [loads EXCEPT ![l].step = IF success THEN "loaded" ELSE "failed"]
    /\ UNCHANGED <<chat, flags, dialogs, gens, replier, shown, asked, accidents>>

LoadFails(l) ==
    /\ LoadAt(l, "failed") /\ posted = "no"
    /\ ShowError(l)
    /\ UNCHANGED <<chat, ready, provider, dialogs, gens, engine, asked, accidents>>

\* The end of loadModel, and what waited for it.
LoadReturns(l) ==
    /\ LoadAt(l, "loaded") /\ posted = "no"
    /\ ready' = TRUE /\ provider' = "local"
    /\ loads' = [loads EXCEPT ![l] = Over]
    /\ LET next == loads[l].next
           i == loads[l].arg
           asks == next = "regenerate" /\ i \in DOMAIN messages /\ messages[i].isUser
       IN /\ \/ /\ next = "submit"
                /\ Generate(Append(messages, UserMessage(i)), Len(messages) + 1, provider')
             \/ asks /\ Generate(messages, i, provider')
             \/ next # "submit" /\ ~asks /\ busy' = FALSE /\ UNCHANGED <<messages, last, gens>>
          /\ accidents' = accidents \cup (IF next # "nothing" /\ Generating THEN {"overlap"} ELSE {})
                               \cup (IF asks /\ i # Len(messages) THEN {"moved"} ELSE {})
    /\ UNCHANGED <<session, sessions, saved, dialogs, engine, asked>>

PickModel ==
    /\ menu.open = "other" /\ CloseMenu
    /\ Len(loads) < MaxLoads
    /\ loads' = Append(loads, [step |-> "metadata", next |-> "nothing", arg |-> 0])
    /\ BeginLoad
    /\ UNCHANGED <<chat, provider, edit, asked, accidents>>

\* unloadInstalledModel
UnloadModel ==
    /\ menu.open = "other" /\ CloseMenu
    /\ CleanUp
    /\ ready' = FALSE
    /\ UNCHANGED <<chat, busy, provider, edit, loads, asked, accidents>>

\* cleanUp throws, and the error is shown.
MenuRefused ==
    /\ menu.open = "other" /\ CloseMenu
    /\ eng \notin {"ready", "error"}
    /\ busy' = FALSE
    /\ UNCHANGED <<chat, ready, provider, edit, gens, loads, engine, asked, accidents>>

\* renderEngineState
Render ==
    /\ posted # "no" /\ posted' = "no"
    /\ shown' = eng
    /\ IF eng = shown THEN UNCHANGED <<busy, ready>>
       ELSE /\ busy' = (eng \notin {"none", "ready", "error"})
            /\ ready' = CASE eng = "ready" -> TRUE
                          [] eng \in {"none", "error"} -> FALSE
                          [] OTHER -> ready
    /\ UNCHANGED <<chat, provider, dialogs, gens, loads, eng, replier, asked, accidents>>

------------------------------------------------------------------------------
\* Replies: the engine's thread first, then what the main thread makes of it

At(g, kind, step) == g \in DOMAIN gens /\ gens[g].kind = kind /\ gens[g].step = step
Step(g, step) == gens' = [gens EXCEPT ![g].step = step]

\* A request to stop that came before is withdrawn: a reply that nobody
\* collects goes on unheard until it has text to emit.
StartReply(g) ==
    /\ At(g, "local", "queued") /\ eng = "ready"
    /\ Step(g, IF gens[g].active THEN "replying" ELSE "unheard")
    /\ eng' = "replying" /\ replier' = g /\ posted' = "start"
    /\ UNCHANGED <<chat, flags, dialogs, loads, shown, asked, accidents>>

\* A job that was cancelled before it ran never does.
DropReply(g) ==
    /\ At(g, "local", "queued") /\ ~gens[g].active
    /\ Step(g, "done")
    /\ UNCHANGED <<chat, flags, dialogs, loads, engine, asked, accidents>>

\* Not in ModelReady: the prompt is discarded.
RefuseReply(g) ==
    /\ At(g, "local", "queued") /\ gens[g].active /\ eng \notin {"ready", "replying"}
    /\ Step(g, "failed")
    /\ UNCHANGED <<chat, flags, dialogs, loads, engine, asked, accidents>>

EngineToken(g) ==
    /\ At(g, "local", "replying") /\ gens[g].active /\ gens[g].made < MaxTokens
    /\ gens' = [gens EXCEPT ![g].made = @ + 1]
    /\ UNCHANGED <<chat, flags, dialogs, loads, engine, asked, accidents>>

\* The engine works on the reply.
Runs(g) == At(g, "local", "replying") \/ At(g, "local", "unheard")

\* The end of the reply, asked for or not.
EngineEnds(g) ==
    /\ Runs(g)
    /\ Step(g, "ended")
    /\ eng' = "ready" /\ replier' = 0 /\ Post
    /\ UNCHANGED <<chat, flags, dialogs, loads, shown, asked, accidents>>

\* The prompt fails: the flow ends and the engine's state stays.
PromptFails(g) ==
    /\ Runs(g) /\ gens[g].made = 0
    /\ Step(g, "ended")
    /\ eng' = "stuck" /\ replier' = 0
    /\ Note("stuck", TRUE)
    /\ UNCHANGED <<chat, flags, dialogs, loads, shown, posted, asked>>

\* appendAssistantToken: what it makes of the messages and of the buffer
NoReplyShown == messages = <<>> \/ messages[Len(messages)].isUser
Appended(token) ==
    IF NoReplyShown THEN messages
    ELSE Append(Upto(messages, Len(messages) - 1),
                [isUser |-> FALSE, content |-> Append(last, token)])
Buffered(token) == IF NoReplyShown THEN last ELSE Append(last, token)

AppendToken(g) ==
    /\ g \in DOMAIN gens /\ gens[g].kind = "local" /\ gens[g].active
    /\ gens[g].got < gens[g].made /\ posted # "start"
    /\ gens' = [gens EXCEPT ![g].got = @ + 1]
    /\ LET token == <<gens[g].question, gens[g].got + 1>>
       IN messages' = Appended(token) /\ last' = Buffered(token)
    /\ UNCHANGED <<session, sessions, saved, flags, dialogs, loads, engine, asked, accidents>>

\* onCompletion; for an error the handler of the failure follows.
FinishLocal(g) ==
    /\ \E step \in {"ended", "failed", "failing"} :
          /\ At(g, "local", step) /\ gens[g].active
          /\ gens[g].got = gens[g].made /\ posted = "no"
          /\ Step(g, IF step = "failed" THEN "failing" ELSE "closing")
    /\ Finish(messages)
    /\ UNCHANGED <<session, sessions, last, ready, provider, dialogs, loads, engine, asked,
                   accidents>>

\* The coroutine returns on its own thread.
JobEnds(g) ==
    /\ At(g, "local", "closing") /\ gens[g].active
    /\ gens' = [gens EXCEPT ![g].active = FALSE, ![g].step = "done"]
    /\ UNCHANGED <<chat, flags, dialogs, loads, engine, asked, accidents>>

\* The server answers or the request fails, wanted or not.
RemoteReturns(g, success) ==
    /\ At(g, "remote", "queued")
    /\ Step(g, IF success THEN "ended" ELSE "failed")
    /\ UNCHANGED <<chat, flags, dialogs, loads, engine, asked, accidents>>

FinishRemote(g) ==
    /\ g \in DOMAIN gens /\ gens[g].active
    /\ LET token == <<gens[g].question, 1>>
       IN \/ At(g, "remote", "ended") /\ Finish(Appended(token)) /\ last' = Buffered(token)
          \/ At(g, "remote", "failed") /\ Finish(messages) /\ UNCHANGED last
    /\ gens' = [gens EXCEPT ![g].active = FALSE, ![g].step = "done"]
    /\ UNCHANGED <<session, sessions, ready, provider, dialogs, loads, engine, asked, accidents>>

\* A request that was cancelled fails only now, and finishes all the same.
FinishLate(g) ==
    /\ At(g, "remote", "ended") \/ At(g, "remote", "failed")
    /\ ~gens[g].active
    /\ Step(g, "done")
    /\ Finish(messages)
    /\ UNCHANGED <<session, sessions, last, ready, provider, dialogs, loads, engine, asked,
                   accidents>>

------------------------------------------------------------------------------
Gens == 1..(MaxQuestions + MaxLoads)
Loads == 1..MaxLoads

User ==
    \/ Send \/ StopGeneration \/ OnStop
    \/ OpenAppMenu \/ OpenMenu \/ Dismiss
    \/ NewChat \/ \E s \in 1..MaxSessions : LoadSession(s) \/ DeleteSession(s)
    \/ (\E i \in DOMAIN messages : OpenEdit(i)) \/ ApplyEdit
    \/ UseRemote \/ PickModel \/ UnloadModel \/ MenuRefused

\* A load, before the controls are disabled and after
BeginLoading(l) == NoModel(l) \/ LoadModel(l) \/ LoadRefused(l)
Loading(l) ==
    MetadataFails(l) \/ EngineLoads(l) \/ (\E success \in BOOLEAN : EngineLoaded(l, success))
        \/ LoadFails(l) \/ LoadReturns(l)

\* A reply, but for what the model of a reply decides
Replying(g) ==
    \/ StartReply(g) \/ DropReply(g) \/ RefuseReply(g)
    \/ AppendToken(g) \/ FinishLocal(g) \/ JobEnds(g)
    \/ (\E success \in BOOLEAN : RemoteReturns(g, success)) \/ FinishRemote(g) \/ FinishLate(g)

Answering(g) == EngineToken(g) \/ EngineEnds(g) \/ PromptFails(g)

\* A request to stop that the engine hears
Stopping(g) == EngineEnds(g) /\ At(g, "local", "replying") /\ ~gens[g].active

Pump ==
    \/ Render \/ \E l \in Loads : Loading(l)
    \/ \E g \in Gens : Replying(g) \/ Stopping(g)

Next ==
    \/ User \/ Pump
    \/ (\E l \in Loads : BeginLoading(l)) \/ (\E g \in Gens : Answering(g))

Spec == Init /\ [][Next]_vars

\* What is under way goes on: the main thread runs its tasks, loads and requests
\* come to an end, the engine heeds a request to stop.  Nothing is asked of the
\* user, and nothing of a reply: the budget of tokens does not end one whose
\* positions are moved back by the shifts (ai_chat.cpp).
FairSpec == Spec /\ WF_vars(Pump)

------------------------------------------------------------------------------
\* A message of the assistant is the start of the reply to the question right
\* before it, in order and with nothing of another reply in it, or a text the
\* user wrote instead.
RepliesInPlace(ms) ==
    \A i \in DOMAIN ms : ~ms[i].isUser /\ ms[i] # Placeholder =>
        LET c == ms[i].content
        IN \/ ms[i] = Edited
           \/ /\ i > 1 /\ ms[i - 1].isUser
              /\ c = [n \in 1..Len(c) |-> <<ms[i - 1].content[1][1], n>>]

\* appendAssistantToken writes to whatever message is last: a reply nevertheless
\* stands below its question, on the screen and in every saved session, however
\* replies are stopped, fail, arrive late or are asked for again.
ReplyGoesToItsQuestion ==
    accidents = {} =>
        RepliesInPlace(messages) /\ \A s \in DOMAIN saved : RepliesInPlace(saved[s])

\* finishGeneration, stopGeneration, onStop and the menus save: when nothing is
\* on its way, the saved session is what the screen shows.
ShownIsSaved ==
    accidents = {} /\ messages # <<>> /\ ~Pending =>
        session \in DOMAIN saved /\ saved[session] = messages

\* Nothing but the engine decides when this reply ends.
Unending ==
    \E g \in Gens : At(g, "local", "unheard") \/ (At(g, "local", "replying") /\ gens[g].active)

\* isBusy, as loads and replies set it (setBusy, renderEngineState,
\* finishGeneration, showError): whatever step of them fails or is stopped, it is
\* lifted again and again, or an accident happened, or the engine generates for ever.
BusyIsLifted == []<>(~busy \/ accidents # {}) \/ <>[]Unending
==============================================================================
