------------------------- MODULE EngineSingletonProofs ------------------------
(***************************************************************************)
(* Which engine a screen gets, for any number of screens.                  *)
(***************************************************************************)
EXTENDS EngineSingleton, TLAPS

\* What a screen has by the step its call is at.
Progress(s) ==
    /\ screen[s] = "none" => call[s] = "none"
    /\ call[s] \in {"none", "look", "lock"} => life[s] = "none"
    /\ call[s] \in {"none", "look", "lock", "store"} => result[s] = None
    /\ call[s] # "done" => engine[s] = None
    /\ call[s] = "store" => life[s] # "none"

\* From the first late screen on there is an engine and nobody builds one.
Settled == late # {} => instance # None /\ Slow = {}

\* A late screen has built none and knows of the stored one only.
Shares(s) ==
    /\ call[s] # "none" /\ life[s] = "none"
    /\ result[s] \in {None, instance}
    /\ engine[s] \in {None, instance}

IInv ==
    /\ TypeOK
    /\ \A s \in Screens : Progress(s)
    /\ Settled
    /\ \A s \in late : Shares(s)

LEMMA InitHolds == Init => IInv
BY NoneAssumption DEF Init, IInv, TypeOK, Progress, Settled, Slow, Built, CallPC, Lives

\* An engine that was built stays built.
LEMMA BuiltGrows ==
    ASSUME TypeOK, NEW e \in Screens, NEW l \in Lives \ {"none"},
           life' = [life EXCEPT ![e] = l]
    PROVE  /\ life' \in [Screens -> Lives]
           /\ Built \subseteq Built' /\ e \in Built'
           /\ \A s \in Screens \ {e} : life'[s] = life[s]
BY DEF TypeOK, Built

------------------------------------------------------------------------------
(* The steps.                                                              *)

LEMMA StartStep ==
    ASSUME IInv, NEW s \in Screens, Start(s)
    PROVE  IInv'
<1>1. TypeOK'
  BY DEF IInv, TypeOK, Start, CallPC, Built
<1>2. ASSUME NEW r \in Screens  PROVE Progress(r)'
  BY DEF IInv, TypeOK, Start, Progress
<1>3. Settled'
  BY DEF IInv, TypeOK, Start, Settled, Slow
<1>4. ASSUME NEW r \in late'  PROVE Shares(r)'
  <2>1. CASE r = s
    BY <2>1 DEF IInv, TypeOK, Start, Progress, Shares
  <2>2. CASE r # s
    <3>1. r \in late /\ r \in Screens
      BY <2>2 DEF Start, IInv, TypeOK
    <3> QED  BY <3>1, <2>2 DEF IInv, TypeOK, Start, Shares
  <2> QED  BY <2>1, <2>2
<1> QED  BY <1>1, <1>2, <1>3, <1>4 DEF IInv

LEMMA LookStep ==
    ASSUME IInv, NEW s \in Screens, Look(s)
    PROVE  IInv'
<1>1. TypeOK'
  BY DEF IInv, TypeOK, Look, CallPC, Built
<1>2. ASSUME NEW r \in Screens  PROVE Progress(r)'
  BY DEF IInv, TypeOK, Look, Progress
<1>3. Settled'
  BY DEF IInv, TypeOK, Look, Settled, Slow
<1>4. ASSUME NEW r \in late'  PROVE Shares(r)'
  BY DEF IInv, TypeOK, Look, Shares
<1> QED  BY <1>1, <1>2, <1>3, <1>4 DEF IInv

LEMMA BuildStep ==
    ASSUME IInv, NEW s \in Screens, Build(s)
    PROVE  IInv'
<1>1. s \in Slow /\ late = {}
  BY DEF Build, Slow, IInv, Settled
<1>2. /\ life' \in [Screens -> Lives]
      /\ Built \subseteq Built' /\ s \in Built'
      /\ \A r \in Screens \ {s} : life'[r] = life[r]
  BY BuiltGrows DEF Build, Lives, IInv
<1>3. TypeOK'
  BY <1>2 DEF IInv, TypeOK, Build, CallPC
<1>4. ASSUME NEW r \in Screens  PROVE Progress(r)'
  BY DEF IInv, TypeOK, Build, Progress
<1>5. late' = {}
  BY <1>1 DEF Build
<1> QED  BY <1>3, <1>4, <1>5 DEF IInv, Settled

LEMMA StoreStep ==
    ASSUME IInv, NEW s \in Screens, Store(s)
    PROVE  IInv'
<1>1. s \in Slow /\ late = {} /\ s \in Built
  BY DEF Store, Slow, Built, IInv, Settled, Progress
<1>2. TypeOK'
  BY <1>1 DEF IInv, TypeOK, Store, CallPC, Built
<1>3. ASSUME NEW r \in Screens  PROVE Progress(r)'
  BY DEF IInv, TypeOK, Store, Progress
<1>4. late' = {}
  BY <1>1 DEF Store
<1> QED  BY <1>2, <1>3, <1>4 DEF IInv, Settled

LEMMA DeliverStep ==
    ASSUME IInv, NEW s \in Screens, Deliver(s)
    PROVE  IInv'
<1>1. TypeOK'
  BY DEF IInv, TypeOK, Deliver, CallPC, Built
<1>2. ASSUME NEW r \in Screens  PROVE Progress(r)'
  BY DEF IInv, TypeOK, Deliver, Progress
<1>3. Settled'
  BY DEF IInv, TypeOK, Deliver, Settled, Slow
<1>4. ASSUME NEW r \in late'  PROVE Shares(r)'
  BY DEF IInv, TypeOK, Deliver, Shares
<1> QED  BY <1>1, <1>2, <1>3, <1>4 DEF IInv

\* Initialize and destroy change the life of an engine that was built.
LEMMA LifeStep ==
    ASSUME IInv, NEW e \in Built, NEW l \in Lives \ {"none"},
           life' = [life EXCEPT ![e] = l],
           UNCHANGED <<instance, holder, call, result, engine, late>>,
           screen' \in [Screens -> {"none", "shown", "destroyed"}],
           \A s \in Screens : screen'[s] = "none" => screen[s] = "none"
    PROVE  IInv'
<1>1. e \in Screens /\ life[e] # "none"
  BY DEF Built
<1>2. /\ life' \in [Screens -> Lives]
      /\ Built \subseteq Built'
      /\ \A r \in Screens \ {e} : life'[r] = life[r]
      /\ life'[e] # "none"
  BY <1>1, BuiltGrows DEF IInv, TypeOK
<1>3. TypeOK'
  BY <1>2 DEF IInv, TypeOK
<1>4. ASSUME NEW r \in Screens  PROVE Progress(r)'
  BY <1>1, <1>2 DEF IInv, Progress
<1>5. Settled'
  BY DEF IInv, Settled, Slow
<1>6. ASSUME NEW r \in late'  PROVE Shares(r)'
  BY <1>1, <1>2 DEF IInv, TypeOK, Shares
<1> QED  BY <1>3, <1>4, <1>5, <1>6 DEF IInv

LEMMA DestroyStep ==
    ASSUME IInv, NEW s \in Screens, Destroy(s)
    PROVE  IInv'
<1>1. /\ screen' \in [Screens -> {"none", "shown", "destroyed"}]
      /\ \A r \in Screens : screen'[r] = "none" => screen[r] = "none"
      /\ UNCHANGED <<instance, holder, call, result, engine, late>>
  BY DEF IInv, TypeOK, Destroy
<1>2. CASE engine[s] = None /\ UNCHANGED life
  BY <1>1, <1>2 DEF IInv, TypeOK, Progress, Settled, Slow, Shares, Built
<1>3. CASE engine[s] # None /\ life' = [life EXCEPT ![engine[s]] = "destroyed"]
  <2>1. engine[s] \in Built
    BY <1>3 DEF IInv, TypeOK
  <2> QED  BY <1>1, <1>3, <2>1, LifeStep DEF Lives
<1> QED  BY <1>2, <1>3 DEF Destroy

LEMMA InitializeStep ==
    ASSUME IInv, NEW e \in Screens, Initialize(e)
    PROVE  IInv'
<1>1. e \in Built /\ life' = [life EXCEPT ![e] = "initialized"]
  BY DEF Initialize, Built
<1>2. UNCHANGED <<instance, holder, call, result, screen, engine, late>>
  BY DEF Initialize
<1>3. screen' \in [Screens -> {"none", "shown", "destroyed"}]
  BY <1>2 DEF IInv, TypeOK
<1> QED  BY <1>1, <1>2, <1>3, LifeStep DEF Lives

LEMMA StepHolds == IInv /\ [Next]_vars => IInv'
<1> SUFFICES ASSUME IInv, [Next]_vars  PROVE IInv'
  OBVIOUS
<1>1. CASE UNCHANGED vars
  BY <1>1 DEF vars, IInv, TypeOK, Progress, Settled, Slow, Shares, Built
<1>2. ASSUME NEW s \in Screens, Start(s) \/ Obtain(s) \/ Initialize(s) \/ Destroy(s)
      PROVE  IInv'
  BY <1>2, StartStep, LookStep, BuildStep, StoreStep, DeliverStep,
     InitializeStep, DestroyStep DEF Obtain
<1> QED  BY <1>1, <1>2 DEF Next

LEMMA Invariance == Spec => []IInv
BY InitHolds, StepHolds, PTL DEF Spec

------------------------------------------------------------------------------
\* instance, what getInstance returns and what a screen holds are engines that
\* were built.
THEOREM TypeCorrect == Spec => []TypeOK
<1>1. IInv => TypeOK
  BY DEF IInv
<1> QED  BY Invariance, <1>1, PTL

\* getInstance settles: once an engine is stored and no call that missed it is
\* left, all screens that come share that engine, destroyed or not.
THEOREM LateScreensGetOne == Spec => []LateScreensShare
<1>1. IInv => LateScreensShare
  BY DEF IInv, TypeOK, Shares, LateScreensShare, Built
<1> QED  BY Invariance, <1>1, PTL
===============================================================================
