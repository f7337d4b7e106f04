--------------------------- MODULE EngineSingleton ----------------------------
(***************************************************************************)
(* Which engine a screen gets: InferenceEngineImpl.getInstance, called by  *)
(* every MainActivity on a thread of Dispatchers.Default, and the          *)
(* destroy in its onDestroy.  A screen that is started again (rotation,    *)
(* back and launch) may overlap the one before; the process and the        *)
(* companion object outlive both.  An engine is named by the screen whose  *)
(* call built it.                                                          *)
(***************************************************************************)
EXTENDS Integers

CONSTANTS Screens, None

ASSUME NoneAssumption == None \notin Screens

VARIABLES
    instance,   \* the companion object's instance
    holder,     \* who is inside synchronized(this)
    call,       \* how far each screen's call of getInstance is
    result,     \* what it returns
    screen,     \* life of each screen
    engine,     \* MainActivity.engine
    life,       \* life of each engine
    late        \* history: screens started when an engine was stored and nobody built one

vars == <<instance, holder, call, result, screen, engine, life, late>>

CallPC  == {"none", "look", "lock", "store", "back", "done"}
Lives   == {"none", "new", "initialized", "destroyed"}
Slow    == {s \in Screens : call[s] \in {"lock", "store"}}
Built   == {e \in Screens : life[e] # "none"}

Init ==
    /\ instance = None /\ holder = None
    /\ call = [s \in Screens |-> "none"]
    /\ result = [s \in Screens |-> None]
    /\ screen = [s \in Screens |-> "none"]
    /\ engine = [s \in Screens |-> None]
    /\ life = [e \in Screens |-> "none"]
    /\ late = {}

\* onCreate: the coroutine leaves the main thread for getInstance.
Start(s) ==
    /\ screen[s] = "none"
    /\ screen' = [screen EXCEPT ![s] = "shown"]
    /\ call' = [call EXCEPT ![s] = "look"]
    /\ late' = IF instance # None /\ Slow = {} THEN late \cup {s} ELSE late
    /\ UNCHANGED <<instance, holder, result, engine, life>>

\* Mutant: instance is not looked at before the lock.
Look_Never(s) ==
    /\ call[s] = "look"
    /\ call' = [call EXCEPT ![s] = "lock"]
    /\ UNCHANGED <<instance, holder, result, screen, engine, life, late>>

\* instance ?: ...
Look(s) ==
    /\ call[s] = "look"
    /\ \/ /\ instance # None
          /\ result' = [result EXCEPT ![s] = instance]
          /\ call' = [call EXCEPT ![s] = "back"]
       \/ /\ instance = None
          /\ call' = [call EXCEPT ![s] = "lock"] /\ UNCHANGED result
    /\ UNCHANGED <<instance, holder, screen, engine, life, late>>

\* synchronized(this) { InferenceEngineImpl(...) ... : instance is not read
\* again under the lock.
Build(s) ==
    /\ call[s] = "lock" /\ holder = None
    /\ holder' = s
    /\ life' = [life EXCEPT ![s] = "new"]
    /\ call' = [call EXCEPT ![s] = "store"]
    /\ UNCHANGED <<instance, result, screen, engine, late>>

\* ... .also { instance = it } }
Store(s) ==
    /\ call[s] = "store"
    /\ instance' = s /\ holder' = None
    /\ result' = [result EXCEPT ![s] = s]
    /\ call' = [call EXCEPT ![s] = "back"]
    /\ UNCHANGED <<screen, engine, life, late>>

\* Mutant: an engine that is not the stored one any more is dropped.
Deliver_StoredOnly(s) ==
    /\ call[s] = "back"
    /\ call' = [call EXCEPT ![s] = "done"]
    /\ engine' = [engine EXCEPT ![s] =
                     IF screen[s] = "shown" /\ result[s] = instance THEN result[s] ELSE None]
    /\ UNCHANGED <<instance, holder, result, screen, life, late>>

\* Back on the main thread: engine = createdEngine, unless the screen was
\* destroyed and its scope cancelled.
Deliver(s) ==
    /\ call[s] = "back"
    /\ call' = [call EXCEPT ![s] = "done"]
    /\ engine' = [engine EXCEPT ![s] = IF screen[s] = "shown" THEN result[s] ELSE None]
    /\ UNCHANGED <<instance, holder, result, screen, life, late>>

\* The coroutine launched by the constructor, on the engine's own dispatcher.
Initialize(e) ==
    /\ life[e] = "new"
    /\ life' = [life EXCEPT ![e] = "initialized"]
    /\ UNCHANGED <<instance, holder, call, result, screen, engine, late>>

\* onDestroy: engine?.destroy() waits behind the initialization.
Destroy(s) ==
    /\ screen[s] = "shown"
    /\ screen' = [screen EXCEPT ![s] = "destroyed"]
    /\ \/ engine[s] = None /\ UNCHANGED life
       \/ /\ engine[s] # None
          /\ life[engine[s]] # "new"
          /\ life' = [life EXCEPT ![engine[s]] = "destroyed"]
    /\ UNCHANGED <<instance, holder, call, result, engine, late>>

Obtain(s) == Look(s) \/ Build(s) \/ Store(s) \/ Deliver(s)

Next ==
    \E s \in Screens : Start(s) \/ Obtain(s) \/ Initialize(s) \/ Destroy(s)

Spec == Init /\ [][Next]_vars

\* Threads run on, and the main thread takes what is delivered to it.  Of the
\* threads that wait for the lock each will get it: there are finitely many,
\* and each takes it once.
LiveSpec ==
    Spec /\ \A s \in Screens : WF_vars(Obtain(s)) /\ WF_vars(Initialize(s))

------------------------------------------------------------------------------
\* The type invariant.
TypeOK ==
    /\ instance \in Built \cup {None} /\ holder \in Screens \cup {None}
    /\ call \in [Screens -> CallPC]
    /\ result \in [Screens -> Built \cup {None}]
    /\ screen \in [Screens -> {"none", "shown", "destroyed"}]
    /\ engine \in [Screens -> Built \cup {None}]
    /\ life \in [Screens -> Lives]
    /\ late \subseteq Screens

\* Once an engine is stored and every call that had missed it is over, the
\* engine is chosen for good: later screens build none, and all get this one.
LateScreensShare ==
    \A s \in late : s \notin Built /\ (engine[s] # None => engine[s] = instance)

\* Every screen that stays gets an engine that is initialized or was
\* destroyed by another screen; nobody waits for ever for the lock.
ScreenIsServed ==
    \A s \in Screens :
        screen[s] = "shown" ~>
            \/ screen[s] = "destroyed"
            \/ engine[s] # None /\ life[engine[s]] \in {"initialized", "destroyed"}
==============================================================================
