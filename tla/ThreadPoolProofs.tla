---------------------------- MODULE ThreadPoolProofs ----------------------------
(***************************************************************************)
(* The thread pool for any number of threads, any graphs and any number of *)
(* chunks: the barrier keeps the threads between the same two nodes.       *)
(***************************************************************************)
EXTENDS ThreadPool, FiniteSetTheorems, WellFoundedInduction, TLAPS

WaitPC == {"top", "lockingPaused", "asleepPaused", "resuming", "stopping",
           "poll", "look", "locking", "asleep", "dispatch", "ended"}
Places == {"chunks", "next", "end"}
Locals == [job : Seq(Kinds), nth : Nat, mine : Nat, passed : Nat,
           threads : Nat, after : Places]

ProgramCounters ==
    /\ pc \in [Threads -> WaitPC \cup InGraph \cup MainPC]
    /\ pc[0] \in InGraph \cup MainPC
    /\ \A t \in Workers : pc[t] \in InGraph \cup WaitPC

Types ==
    /\ ProgramCounters
    /\ graph \in Seq(Kinds)
    /\ nGraph \in [count : Nat, threads : 0 .. NThreads]
    /\ nBarrier \in Nat /\ nPassed \in Nat
    /\ chunk \in Nat /\ abort \in Int
    /\ pending \in [Threads -> BOOLEAN]
    /\ last \in [Threads -> [count : Nat, threads : Nat]]
    /\ node \in [Threads -> Nat \ {0}]
    /\ loc \in [Threads -> Locals]
    /\ done \in [Threads -> Nat]
    /\ claims \in [DOMAIN graph -> [ChunkIds -> Nat]]

\* A graph is computed: from the kickoff to the last barrier of thread 0.
Busy == pc[0] \in InGraph \cup {"signal"}

\* Past the barrier, or before it, for a thread inside ggml_barrier's loop.
Released(t) == pc[t] = "spin" /\ loc[t].passed # nPassed
Waiting(t)  == pc[t] = "spin" /\ loc[t].passed = nPassed
Outside(t)  == pc[t] \notin InGraph \/ (Released(t) /\ loc[t].after = "end")

\* What is known of a thread whatever the graph.
Local(t) ==
    /\ pc[t] \in {"arrive", "spin"} => loc[t].passed <= nPassed
    /\ pc[t] = "arrive" => loc[t].passed = nPassed /\ loc[t].threads = nGraph.threads
    /\ ~Outside(t) /\ pc[t] # "begin" => loc[t].job = graph /\ loc[t].nth = nGraph.threads

Worker(t) ==
    /\ last[t].count <= nGraph.count
    /\ pending[t] => pc[t] = "dispatch" /\ last[t] = nGraph /\ t \in Active
    /\ ~Outside(t) => ~pending[t] /\ last[t] = nGraph /\ t \in Active

\* ggml_barrier: how many have arrived; the last one resets the count.
Arrived == {t \in Active : Waiting(t)}
Opener  == {t \in Active : pc[t] \in {"reset", "release"}}

Barrier ==
    /\ nBarrier = Cardinality(Arrived) \/ Opener # {}
    /\ Opener = {} => nBarrier < nGraph.threads
    /\ \A t \in Opener :
           /\ \A u \in Active \ {t} : Waiting(u)
           /\ pc[t] = "release" => nBarrier = 0

(***************************************************************************)
(* What the threads do between two barriers, all of them the same: they    *)
(* skip the empty nodes s .. e - 1 and then                                *)
(*   over     find the graph done or aborted at e,                         *)
(*   plain    compute node e,                                              *)
(*   prepare  convert the input of product e,                              *)
(*   chunks   compute the chunks of product e = s;                         *)
(*   end      or they are out of the graph.                                *)
(* d phases are behind them.                                               *)
(***************************************************************************)
Activities == {"over", "plain", "prepare", "chunks", "end"}

Fresh(t) ==
    IF t = 0 THEN pc[0] \in {"signal", "begin"}
             ELSE last[t] # nGraph \/ pending[t] \/ pc[t] = "begin"

Heading(t, place, at) == pc[t] = at \/ (Released(t) /\ loc[t].after = place)
AtBarrier(t) == pc[t] \in {"enter", "arrive", "reset", "release"} \/ Waiting(t)

Path(k, d, s, e) ==
    /\ s <= e
    /\ k \in {"over", "plain", "prepare"} =>
           \A i \in s .. e - 1 : graph[i] = "empty" /\ abort # i
    /\ k = "over"    => e = Len(graph) + 1 \/ abort = e
    /\ k \in {"plain", "prepare", "chunks"} => e <= Len(graph)
    /\ k \in {"plain", "prepare"} => abort # e
    /\ k = "plain"   => graph[e] = "plain"
    /\ k \in {"prepare", "chunks"} => graph[e] = "product"
    /\ k = "chunks"  => s = e

Coming(t, k, d, s, e) ==
    /\ k \in {"over", "plain", "prepare"}
    /\ done[t] = d
    /\ \/ Fresh(t) /\ Outside(t) /\ s = 1 /\ d = 0
       \/ Fresh(t) /\ pc[t] = "begin" /\ s = 1 /\ d = 0
       \/ ~Fresh(t) /\ Heading(t, "next", "node") /\ node[t] \in s .. e

Working(t, k, d, s, e) ==
    /\ ~Fresh(t)
    /\ done[t] = d /\ node[t] = e
    /\ \/ k = "plain" /\ pc[t] = "work"
       \/ k = "prepare" /\ pc[t] = "prepare"
       \/ k = "chunks" /\ (pc[t] = "claim" \/ Heading(t, "chunks", "chunk"))

Finishing(t, k, d, s, e) ==
    /\ ~Fresh(t)
    /\ k \in {"plain", "chunks"} /\ done[t] = d + 1
    /\ \/ pc[t] = "step" /\ node[t] = e
       \/ pc[t] = "node" /\ node[t] = e + 1 /\ e = Len(graph)

Meeting(t, k, d, s, e) ==
    /\ ~Fresh(t) /\ AtBarrier(t)
    /\ \/ k = "over"    /\ node[t] = e /\ done[t] = d /\ loc[t].after = "end"
       \/ k = "prepare" /\ node[t] = e /\ done[t] = d + 1 /\ loc[t].after = "chunks"
       \/ /\ k \in {"plain", "chunks"} /\ node[t] = e + 1 /\ done[t] = d + 1
          /\ loc[t].after = IF e < Len(graph) THEN "next" ELSE "end"

Gone(t, k, d, s, e) ==
    k = "end" /\ ~Fresh(t) /\ done[t] = d /\ Outside(t)

Place(t, k, d, s, e) ==
    \/ Coming(t, k, d, s, e) \/ Working(t, k, d, s, e) \/ Finishing(t, k, d, s, e)
    \/ Meeting(t, k, d, s, e) \/ Gone(t, k, d, s, e)

(***************************************************************************)
(* The chunks.                                                             *)
(***************************************************************************)
Complete(i)  == \A c \in 0 .. NChunks(nGraph.threads) - 1 : claims[i][c] = 1
Once(i)      == \A c \in ChunkIds : claims[i][c] <= 1
Untouched(i) == \A c \in ChunkIds : claims[i][c] = 0

Products == {i \in DOMAIN graph : graph[i] = "product"}

\* t is about to compute chunk loc[t].mine.
Holds(t) == Heading(t, "chunks", "chunk")

Shared(e) ==
    /\ nGraph.threads <= chunk
    /\ Once(e)
    /\ \A c \in ChunkIds : c >= chunk => claims[e][c] = 0
    /\ \A t \in Active : Holds(t) =>
           /\ loc[t].mine < chunk
           /\ loc[t].mine \in ChunkIds => claims[e][loc[t].mine] = 0
           /\ \A u \in Active : Holds(u) /\ loc[u].mine = loc[t].mine => u = t
    /\ \A c \in 0 .. NChunks(nGraph.threads) - 1 : c < chunk =>
           claims[e][c] = 1 \/ \E t \in Active : Holds(t) /\ loc[t].mine = c
    /\ \A t \in Active : ~Holds(t) /\ pc[t] # "claim" => NChunks(nGraph.threads) <= chunk

Claimed(k, d, s, e) ==
    /\ \A i \in Products :
        /\ k # "end" /\ i < s => Once(i) /\ Complete(i)
        /\ k \in {"over", "plain", "prepare"} /\ i >= s => Untouched(i)
        /\ k = "chunks" /\ i > s => Untouched(i)
        /\ k = "end" => Once(i) /\ (Complete(i) \/ Untouched(i))
    /\ k = "prepare" =>
        /\ done[0] = d + 1 => chunk = nGraph.threads
        /\ \A t \in Active : done[t] = d + 1 => loc[t].mine = t
    /\ k = "chunks" => Shared(e)

Segment(k, d, s, e) ==
    /\ Path(k, d, s, e)
    /\ \A t \in Active : Place(t, k, d, s, e)
    /\ Claimed(k, d, s, e)

Computing ==
    /\ nGraph.threads > 0
    /\ Barrier
    /\ \E k \in Activities, d \in Nat, s, e \in 1 .. Len(graph) + 1 : Segment(k, d, s, e)

\* Between two graphs.
Quiet ==
    /\ nBarrier = 0
    /\ \A t \in Workers : Outside(t) /\ (t \in Active => last[t] = nGraph /\ ~pending[t])
    /\ \A t, u \in Active : done[t] = done[u]
    /\ \A i \in Products : Once(i) /\ (Complete(i) \/ Untouched(i))
    /\ pc[0] = "kick" =>
        /\ loc[0].threads \in 1 .. NThreads
        /\ \A t \in Threads : done[t] = 0
        /\ \A i \in Products : Untouched(i)

IInv ==
    /\ Types
    /\ \A t \in Threads : Local(t)
    /\ \A t \in Workers : Worker(t)
    /\ Busy => Computing
    /\ ~Busy => Quiet

------------------------------------------------------------------------------
(* Arithmetic and counting.                                                *)

LEMMA Least ==
    ASSUME NEW T \in SUBSET Nat, T # {}
    PROVE  \E n \in T : \A m \in T : n <= m
<1> DEFINE R == {ss \in Nat \X Nat : ss[1] < ss[2]}
<1>1. IsWellFoundedOn(R, Nat)
  BY NatLessThanWellFounded DEF OpToRel
<1>2. \E x \in T : \A y \in T : ~ (<<y, x>> \in R)
  <2> HIDE DEF R
  <2> QED BY <1>1, WFMin
<1>3. PICK x \in T : \A y \in T : ~ (<<y, x>> \in R)
  BY <1>2
<1>4. ASSUME NEW y \in T  PROVE x <= y
  <2>1. <<y, x>> \in Nat \X Nat
    OBVIOUS
  <2>2. ~ (y < x)
    BY <1>3, <2>1
  <2> QED BY <2>2
<1> QED BY <1>4

\* From every node the threads find one to compute, or that they are through.
LEMMA PathExists ==
    ASSUME Types, NEW s \in 1 .. Len(graph) + 1, NEW d \in Nat
    PROVE  \E k \in {"over", "plain", "prepare"}, e \in 1 .. Len(graph) + 1 : Path(k, d, s, e)
<1> DEFINE T == {n \in s .. Len(graph) + 1 :
                    n = Len(graph) + 1 \/ abort = n \/ graph[n] # "empty"}
<1>1. Len(graph) \in Nat /\ \A i \in 1 .. Len(graph) : graph[i] \in Kinds
  BY DEF Types
<1>2. T \in SUBSET Nat /\ Len(graph) + 1 \in T
  BY <1>1
<1>3. PICK e \in T : \A m \in T : e <= m
  <2> HIDE DEF T
  <2> QED  BY <1>2, Least
<1>4. /\ e \in 1 .. Len(graph) + 1 /\ s <= e
      /\ e = Len(graph) + 1 \/ abort = e \/ graph[e] # "empty"
  BY <1>1
<1>5. \A i \in s .. e - 1 : graph[i] = "empty" /\ abort # i
  <2>1. ASSUME NEW i \in s .. e - 1  PROVE i \notin T /\ i \in s .. Len(graph)
    BY <1>1, <1>3, <1>4
  <2> QED  BY <2>1
<1> HIDE DEF T
<1>6. CASE e = Len(graph) + 1 \/ abort = e
  BY <1>1, <1>4, <1>5, <1>6 DEF Path
<1>7. CASE e # Len(graph) + 1 /\ abort # e /\ graph[e] = "plain"
  BY <1>1, <1>4, <1>5, <1>7 DEF Path
<1>8. CASE e # Len(graph) + 1 /\ abort # e /\ graph[e] = "product"
  BY <1>1, <1>4, <1>5, <1>8 DEF Path
<1>9. e \in 1 .. Len(graph) => graph[e] \in Kinds
  BY <1>1
<1> QED  BY <1>1, <1>4, <1>6, <1>7, <1>8, <1>9 DEF Kinds

LEMMA NThreadsType == NThreads \in Nat \ {0} /\ 0 \in Threads
BY PoolAssumption DEF Threads

\* There is a chunk for each thread, and claims has room for each chunk.
LEMMA ChunkBounds ==
    ASSUME NEW n \in 1 .. NThreads
    PROVE  /\ NChunks(n) \in Nat /\ n <= NChunks(n)
           /\ 0 .. NChunks(n) - 1 \subseteq ChunkIds
           /\ ChunkIds \subseteq Nat
<1>1. /\ Chunks \in Nat /\ PerThread \in Nat \ {0} /\ NThreads \in Nat
      /\ n \in Nat /\ n <= NThreads
  BY PoolAssumption
<1>2. n * PerThread \in Nat /\ n <= n * PerThread
  BY <1>1
<1> QED  BY <1>1, <1>2 DEF NChunks, ChunkIds

LEMMA ActiveType ==
    ASSUME Types
    PROVE  /\ Active \subseteq Threads
           /\ IsFiniteSet(Active) /\ Cardinality(Active) = nGraph.threads
           /\ nGraph.threads > 0 => 0 \in Active
           /\ Workers \subseteq Threads /\ 0 \notin Workers
<1>1. nGraph.threads \in 0 .. NThreads /\ NThreads \in Nat
  BY NThreadsType DEF Types
<1>2. IsFiniteSet(Active) /\ Cardinality(Active) = nGraph.threads
  <2> DEFINE b == nGraph.threads - 1
  <2>1. b \in Int
    BY <1>1
  <2>2. /\ IsFiniteSet(0 .. b)
        /\ Cardinality(0 .. b) = IF 0 > b THEN 0 ELSE b - 0 + 1
    <3> HIDE DEF b
    <3> QED  BY <2>1, FS_Interval
  <2> QED  BY <1>1, <2>2 DEF Active
<1> QED  BY <1>1, <1>2 DEF Active, Threads, Workers

------------------------------------------------------------------------------
(* Threads that are left alone.                                            *)

SameThread(u) ==
    /\ pc'[u] = pc[u] /\ loc'[u] = loc[u] /\ node'[u] = node[u]
    /\ done'[u] = done[u] /\ last'[u] = last[u] /\ pending'[u] = pending[u]

LEMMA FramePlace ==
    ASSUME NEW u, SameThread(u), UNCHANGED <<graph, nGraph, nPassed>>
    PROVE  /\ Fresh(u)' <=> Fresh(u)
           /\ Waiting(u)' <=> Waiting(u)
           /\ Outside(u)' <=> Outside(u)
           /\ Holds(u)' <=> Holds(u)
           /\ \A k, d, s, e : Place(u, k, d, s, e) => Place(u, k, d, s, e)'
BY DEF SameThread, Place, Coming, Working, Finishing, Meeting, Gone, Fresh,
       Heading, AtBarrier, Waiting, Outside, Released, Holds

LEMMA FrameLocal ==
    ASSUME NEW u, SameThread(u), UNCHANGED <<graph, nGraph, nPassed>>
    PROVE  /\ Local(u) => Local(u)'
           /\ Worker(u) => Worker(u)'
BY DEF SameThread, Local, Worker, Outside, Released, Active

\* A thread in the graph is one of the graph's, and the graph is computed.
LEMMA InsideIsActive ==
    ASSUME IInv, NEW t \in Threads, ~Outside(t)
    PROVE  Busy /\ t \in Active /\ Computing
<1>1. CASE t = 0
  <2>1. Busy
    BY <1>1 DEF Outside, Busy
  <2> QED  BY <1>1, <2>1, ActiveType DEF IInv, Computing
<1>2. CASE t \in Workers
  BY <1>2 DEF IInv, Worker, Quiet
<1> QED  BY <1>1, <1>2 DEF Workers

\* What a thread inside the graph knows.
LEMMA InsideFacts ==
    ASSUME IInv, NEW t \in Threads, ~Outside(t)
    PROVE  /\ pc[t] # "begin" => ~Fresh(t) /\ loc[t].job = graph /\ loc[t].nth = nGraph.threads
           /\ t \in Workers => last[t] = nGraph /\ ~pending[t]
           /\ t \in Threads /\ loc[t] \in Locals /\ nGraph.threads \in 1 .. NThreads
           /\ Len(graph) \in Nat
<1>1. Threads = {0} \cup Workers /\ nGraph.threads > 0
  BY NThreadsType, InsideIsActive DEF Workers, Computing
<1>2. CASE t = 0
  BY <1>1, <1>2, NThreadsType DEF IInv, Types, Local, Fresh, Outside, Workers, InGraph
<1>3. CASE t \in Workers
  BY <1>1, <1>3, NThreadsType DEF IInv, Types, Local, Worker, Fresh, Workers
<1> QED  BY <1>1, <1>2, <1>3

LEMMA GoInside ==
    ASSUME ProgramCounters, NEW t \in Threads, NEW p \in InGraph, Go(t, p)
    PROVE  ProgramCounters' /\ pc'[t] = p /\ \A u \in Threads \ {t} : pc'[u] = pc[u]
BY NThreadsType DEF ProgramCounters, Go, Workers

SegmentArgs(k, d, s, e) ==
    k \in Activities /\ d \in Nat /\ s \in 1 .. Len(graph) + 1 /\ e \in 1 .. Len(graph) + 1

\* A step of one thread of the graph, with its part of the invariant.
LEMMA ActiveStep ==
    ASSUME IInv, NEW t \in Threads, Busy, t \in Active, Busy', Types', Barrier',
           \A u \in Threads \ {t} : SameThread(u),
           UNCHANGED <<graph, nGraph, nPassed>>,
           Local(t)', t \in Workers => Worker(t)',
           \A k, d, s, e : SegmentArgs(k, d, s, e) /\ Segment(k, d, s, e) =>
               Path(k, d, s, e)' /\ Place(t, k, d, s, e)' /\ Claimed(k, d, s, e)'
    PROVE  IInv'
<1>1. Computing
  BY DEF IInv
<1>2. Active' = Active /\ Active \subseteq Threads /\ Workers \subseteq Threads
  BY ActiveType DEF Active, IInv
<1>3. \A u \in Threads : Local(u)'
  BY FrameLocal DEF IInv
<1>4. \A u \in Workers : Worker(u)'
  BY <1>2, FrameLocal DEF IInv
<1>5. PICK k \in Activities, d \in Nat, s \in 1 .. Len(graph) + 1, e \in 1 .. Len(graph) + 1 :
          Segment(k, d, s, e)
  BY <1>1 DEF Computing
<1>6. Segment(k, d, s, e)'
  <2>1. SegmentArgs(k, d, s, e)
    BY <1>5 DEF SegmentArgs
  <2>2. Path(k, d, s, e)' /\ Place(t, k, d, s, e)' /\ Claimed(k, d, s, e)'
    BY <1>5, <2>1
  <2>3. ASSUME NEW u \in Active \ {t}  PROVE Place(u, k, d, s, e)'
    BY <1>2, <1>5, <2>3, FramePlace DEF Segment
  <2> QED  BY <1>2, <2>2, <2>3 DEF Segment
<1>7. Computing'
  BY <1>1, <1>5, <1>6 DEF Computing
<1> QED  BY <1>3, <1>4, <1>7 DEF IInv

\* The same for a step that leaves the barrier alone.
LEMMA InsideStep ==
    ASSUME IInv, NEW t \in Threads, Busy, t \in Active, Busy', Types',
           \A u \in Threads \ {t} : SameThread(u),
           UNCHANGED <<graph, nGraph, nPassed, nBarrier>>,
           Local(t)', t \in Workers => Worker(t)',
           ~Waiting(t), ~Waiting(t)',
           pc[t] \notin {"reset", "release"}, pc'[t] \notin {"reset", "release"},
           \A k, d, s, e : SegmentArgs(k, d, s, e) /\ Segment(k, d, s, e) =>
               Path(k, d, s, e)' /\ Place(t, k, d, s, e)' /\ Claimed(k, d, s, e)'
    PROVE  IInv'
<1>1. Computing
  BY DEF IInv
<1>2. Active' = Active /\ Active \subseteq Threads
  BY ActiveType DEF Active, IInv
<1>3. \A u \in Active : (Waiting(u)' <=> Waiting(u))
  BY <1>2, FramePlace
<1>4. Arrived' = Arrived
  BY <1>2, <1>3 DEF Arrived
<1>5. Opener = {}
  BY <1>1 DEF Computing, Barrier, Opener
<1>6. Opener' = {}
  BY <1>2, <1>5 DEF Opener, SameThread
<1>7. Barrier'
  BY <1>1, <1>4, <1>5, <1>6 DEF Computing, Barrier
<1> QED  BY <1>7, ActiveStep

\* Nothing changes that the chunks are about.
LEMMA FrameClaimed ==
    ASSUME IInv, NEW t \in Threads,
           \A u \in Threads \ {t} : SameThread(u),
           UNCHANGED <<graph, nGraph, nPassed, claims, chunk>>,
           done'[t] = done[t], loc'[t].mine = loc[t].mine,
           (Holds(t)' <=> Holds(t)), pc'[t] = "claim" <=> pc[t] = "claim",
           NEW k, NEW d, NEW s, NEW e, Claimed(k, d, s, e)
    PROVE  Claimed(k, d, s, e)'
<1>1. Active' = Active /\ Active \subseteq Threads /\ (nGraph.threads > 0 => 0 \in Active)
  BY ActiveType DEF Active, IInv
<1>2. \A u \in Active : /\ done'[u] = done[u] /\ loc'[u].mine = loc[u].mine
                        /\ (Holds(u)' <=> Holds(u))
                        /\ pc'[u] = "claim" <=> pc[u] = "claim"
  BY <1>1, FramePlace DEF SameThread
<1>3. done'[0] = done[0]
  BY <1>1, NThreadsType DEF SameThread
<1>4. /\ Products' = Products
      /\ \A i : Once(i)' = Once(i) /\ Complete(i)' = Complete(i) /\ Untouched(i)' = Untouched(i)
  BY DEF Products, Once, Complete, Untouched, NChunks, ChunkIds
<1>5. Shared(e) => Shared(e)'
  BY <1>1, <1>2, <1>4 DEF Shared, NChunks, ChunkIds
<1> QED  BY <1>1, <1>2, <1>3, <1>4, <1>5 DEF Claimed

\* The abort flag and the graph stay.
LEMMA FramePath ==
    ASSUME UNCHANGED <<graph, abort>>, NEW k, NEW d, NEW s, NEW e, Path(k, d, s, e)
    PROVE  Path(k, d, s, e)'
BY DEF Path

\* A step of thread t between two places that are neither the start nor the
\* loop of a barrier, with its new local variables.
Inner == InGraph \ {"begin", "spin", "reset", "release"}

Moves(t, p, l, n, m) ==
    /\ t \in Threads /\ pc[t] \in Inner /\ p \in Inner
    /\ l \in Locals /\ n \in Nat \ {0} /\ m \in Nat
    /\ l.job = loc[t].job /\ l.nth = loc[t].nth
    /\ p = "arrive" => l.passed = nPassed /\ l.threads = nGraph.threads
    /\ pc' = [pc EXCEPT ![t] = p]
    /\ loc' = [loc EXCEPT ![t] = l]
    /\ node' = [node EXCEPT ![t] = n]
    /\ done' = [done EXCEPT ![t] = m]
    /\ UNCHANGED <<graph, nGraph, nPassed, nBarrier, pending, last>>

LEMMA MoveFacts ==
    ASSUME IInv, NEW t, NEW p, NEW l, NEW n, NEW m, Moves(t, p, l, n, m)
    PROVE  /\ Busy /\ Busy' /\ t \in Active /\ Computing
           /\ ~Fresh(t) /\ ~Fresh(t)' /\ ~Waiting(t) /\ ~Waiting(t)'
           /\ ~Outside(t) /\ ~Outside(t)' /\ ~Released(t) /\ ~Released(t)'
           /\ loc[t].job = graph /\ loc[t].nth = nGraph.threads /\ loc[t] \in Locals
           /\ l.job = graph /\ l.nth = nGraph.threads
           /\ nGraph.threads \in 1 .. NThreads /\ Len(graph) \in Nat
           /\ node[t] \in Nat \ {0} /\ done[t] \in Nat
           /\ pc'[t] = p /\ loc'[t] = l /\ node'[t] = n /\ done'[t] = m
           /\ ProgramCounters' /\ loc' \in [Threads -> Locals]
           /\ node' \in [Threads -> Nat \ {0}] /\ done' \in [Threads -> Nat]
           /\ \A u \in Threads \ {t} : SameThread(u)
<1>1. t \in Threads /\ ~Outside(t) /\ pc[t] # "begin" /\ ~Waiting(t) /\ ~Released(t)
  BY DEF Moves, Inner, Outside, Released, Waiting
<1>2. Busy /\ t \in Active /\ Computing
  BY <1>1, InsideIsActive
<1>3. /\ ~Fresh(t) /\ loc[t].job = graph /\ loc[t].nth = nGraph.threads /\ loc[t] \in Locals
      /\ nGraph.threads \in 1 .. NThreads /\ Len(graph) \in Nat
      /\ t \in Workers => last[t] = nGraph /\ ~pending[t]
  BY <1>1, InsideFacts
<1>4. ProgramCounters' /\ pc'[t] = p /\ \A u \in Threads \ {t} : pc'[u] = pc[u]
  BY <1>1, GoInside DEF Moves, Go, Inner, IInv, Types
<1>5. /\ loc' \in [Threads -> Locals] /\ node' \in [Threads -> Nat \ {0}]
      /\ done' \in [Threads -> Nat]
      /\ loc'[t] = l /\ node'[t] = n /\ done'[t] = m
      /\ node[t] \in Nat \ {0} /\ done[t] \in Nat
      /\ \A u \in Threads \ {t} : loc'[u] = loc[u] /\ node'[u] = node[u] /\ done'[u] = done[u]
  BY DEF Moves, IInv, Types
<1>6. /\ l.job = graph /\ l.nth = nGraph.threads /\ p \in Inner
      /\ UNCHANGED <<graph, nGraph, nPassed, nBarrier, pending, last>>
  BY <1>3 DEF Moves
<1>7. ~Outside(t)' /\ ~Waiting(t)' /\ ~Fresh(t)' /\ ~Released(t)' /\ Busy'
  BY <1>1, <1>2, <1>3, <1>4, <1>6, NThreadsType
     DEF Outside, Waiting, Released, Fresh, Busy, Inner, InGraph, Workers
<1>8. \A u \in Threads \ {t} : SameThread(u)
  BY <1>4, <1>5, <1>6 DEF SameThread
<1> QED  BY <1>1, <1>2, <1>3, <1>4, <1>5, <1>6, <1>7, <1>8

LEMMA MoveStep ==
    ASSUME IInv, NEW t, NEW p, NEW l, NEW n, NEW m, Moves(t, p, l, n, m),
           abort' \in Int, chunk' \in Nat, claims' \in [DOMAIN graph -> [ChunkIds -> Nat]],
           \A k, d, s, e : SegmentArgs(k, d, s, e) /\ Segment(k, d, s, e) =>
               Path(k, d, s, e)' /\ Place(t, k, d, s, e)' /\ Claimed(k, d, s, e)'
    PROVE  IInv'
<1>1. /\ Busy /\ Busy' /\ t \in Active
      /\ ~Waiting(t) /\ ~Waiting(t)' /\ ~Outside(t) /\ ~Outside(t)'
      /\ l.job = graph /\ l.nth = nGraph.threads
      /\ pc'[t] = p /\ loc'[t] = l
      /\ ProgramCounters' /\ loc' \in [Threads -> Locals]
      /\ node' \in [Threads -> Nat \ {0}] /\ done' \in [Threads -> Nat]
      /\ \A u \in Threads \ {t} : SameThread(u)
  BY MoveFacts
<1>2. /\ UNCHANGED <<graph, nGraph, nPassed, nBarrier, pending, last>>
      /\ t \in Threads /\ pc[t] \in Inner /\ p \in Inner
      /\ p = "arrive" => l.passed = nPassed /\ l.threads = nGraph.threads
  BY DEF Moves
<1>3. Types'
  BY <1>1, <1>2 DEF IInv, Types, ChunkIds
<1>4. Local(t)' /\ (t \in Workers => Worker(t)')
  BY <1>1, <1>2 DEF Local, Worker, IInv, Types, Active, Inner
<1>5. pc[t] \notin {"reset", "release"} /\ pc'[t] \notin {"reset", "release"}
  BY <1>1, <1>2 DEF Inner
<1> QED  BY <1>1, <1>2, <1>3, <1>4, <1>5, InsideStep

\* What is to be shown of such a step when it leaves the chunks alone.
LEMMA MoveClaimed ==
    ASSUME IInv, NEW t, NEW p, NEW l, NEW n, NEW m, Moves(t, p, l, n, m),
           UNCHANGED <<claims, chunk>>, m = done[t], l.mine = loc[t].mine,
           pc[t] \notin {"chunk", "claim"}, p \notin {"chunk", "claim"},
           NEW k, NEW d, NEW s, NEW e, Claimed(k, d, s, e)
    PROVE  Claimed(k, d, s, e)'
<1>1. /\ t \in Active /\ ~Released(t) /\ ~Released(t)'
      /\ pc'[t] = p /\ loc'[t] = l /\ done'[t] = m
      /\ \A u \in Threads \ {t} : SameThread(u)
  BY MoveFacts
<1>2. ~Holds(t) /\ ~Holds(t)'
  BY <1>1 DEF Holds, Heading
<1>3. UNCHANGED <<graph, nGraph, nPassed>> /\ t \in Threads
  BY DEF Moves
<1> QED  BY <1>1, <1>2, <1>3, FrameClaimed

\* Unchanged functions, as updates.
LEMMA Same ==
    ASSUME Types, NEW t \in Threads
    PROVE  /\ pc = [pc EXCEPT ![t] = pc[t]] /\ loc = [loc EXCEPT ![t] = loc[t]]
           /\ node = [node EXCEPT ![t] = node[t]] /\ done = [done EXCEPT ![t] = done[t]]
           /\ loc[t] \in Locals /\ node[t] \in Nat \ {0} /\ done[t] \in Nat
BY DEF Types, ProgramCounters

------------------------------------------------------------------------------
(* The steps inside a graph.                                               *)

LEMMA BeginStep ==
    ASSUME IInv, NEW t \in Threads, Begin(t)
    PROVE  IInv'
<1>1. pc[t] = "begin" /\ ~Outside(t) /\ Fresh(t) /\ ~Waiting(t)
  BY DEF Begin, Outside, Released, Waiting, InGraph, Fresh
<1>2. Busy /\ t \in Active /\ Computing
  BY <1>1, InsideIsActive
<1>3. Types'
  <2>1. graph \in Seq(Kinds) /\ nGraph.threads \in Nat
    BY NThreadsType DEF IInv, Types
  <2>2. loc' \in [Threads -> Locals]
    <3>1. loc \in [Threads -> Locals]
      BY DEF IInv, Types
    <3>2. loc' = [loc EXCEPT ![t] = [loc[t] EXCEPT !.job = graph, !.nth = nGraph.threads]]
      BY <3>1 DEF Begin
    <3>3. [loc[t] EXCEPT !.job = graph, !.nth = nGraph.threads] \in Locals
      BY <2>1, <3>1 DEF Locals
    <3> QED  BY <3>1, <3>2, <3>3
  <2>3. ProgramCounters'
    BY GoInside DEF Begin, IInv, Types, InGraph
  <2>5. node' \in [Threads -> Nat \ {0}]
    BY DEF IInv, Types, Begin
  <2> QED  BY <2>2, <2>3, <2>5
       DEF IInv, Types, Begin, work, barrier, flags, state, history
<1>4. \A u \in Threads \ {t} : SameThread(u)
  BY DEF IInv, Types, ProgramCounters, Begin, Go, SameThread, work, barrier, flags, state, history
<1>5. /\ pc'[t] = "node" /\ node'[t] = 1 /\ loc'[t].job = graph /\ loc'[t].nth = nGraph.threads
      /\ loc'[t].mine = loc[t].mine
      /\ done' = done /\ last' = last /\ pending' = pending
      /\ UNCHANGED <<graph, nGraph, nPassed, nBarrier, claims, chunk, abort>>
  BY DEF IInv, Types, ProgramCounters, Begin, Go, work, barrier, flags, state, history, Locals
<1>6. Busy' /\ ~Waiting(t)' /\ ~Outside(t)' /\ (Holds(t)' <=> Holds(t))
  BY <1>1, <1>2, <1>4, <1>5, NThreadsType
     DEF Busy, Waiting, Outside, Released, InGraph, Holds, Heading, SameThread
<1>7. Local(t)' /\ (t \in Workers => Worker(t)')
  BY <1>1, <1>2, <1>5, <1>6 DEF Local, Worker, IInv, Active
<1>8. ASSUME NEW k, NEW d, NEW s, NEW e, SegmentArgs(k, d, s, e), Segment(k, d, s, e)
      PROVE  Path(k, d, s, e)' /\ Place(t, k, d, s, e)' /\ Claimed(k, d, s, e)'
  <2>1. Coming(t, k, d, s, e)
    BY <1>1, <1>2, <1>8
       DEF Segment, Place, Working, Finishing, Meeting, Gone
  <2>2. ~Fresh(t)'
    BY <1>1, <1>2, <1>5 DEF Fresh, IInv, Worker, Workers
  <2>3. Place(t, k, d, s, e)'
    BY <1>5, <1>8, <2>1, <2>2, <1>1 DEF Place, Coming, Heading, SegmentArgs, Path, Segment
  <2> QED  BY <1>1, <1>2, <1>4, <1>5, <1>6, <1>8, <2>3, FrameClaimed, FramePath DEF Segment
<1> QED  BY <1>1, <1>2, <1>3, <1>4, <1>5, <1>6, <1>7, <1>8, InsideStep

\* The loop over the nodes.
LEMMA NextNodeStep ==
    ASSUME IInv, NEW t \in Threads, NextNode(t)
    PROVE  IInv'
<1> DEFINE l(p) == IF p = "enter" THEN [loc[t] EXCEPT !.after = "end"] ELSE loc[t]
           n(p) == IF p = "node" THEN node[t] + 1 ELSE node[t]
<1>1. PICK p \in {"enter", "node", "work", "prepare"} :
        /\ Moves(t, p, l(p), n(p), done[t])
        /\ p = "enter" <=> Over(t)
        /\ p = "node" => Kind(t) = "empty"
        /\ p = "work" => Kind(t) = "plain"
        /\ p = "prepare" => Kind(t) = "product"
  <2>1. /\ pc[t] = "node" /\ loc[t].after \in Places
        /\ UNCHANGED <<graph, nGraph, nPassed, nBarrier, pending, last, done>>
    BY DEF NextNode, work, barrier, flags, state, history, IInv, Types, Locals
  <2>2. [loc[t] EXCEPT !.after = "end"] \in Locals
    BY Same DEF IInv, Locals, Places
  <2>3. CASE Over(t) /\ Meet(t, "end") /\ UNCHANGED node
    BY <2>1, <2>2, <2>3, Same DEF IInv, Moves, Meet, Go, Inner, InGraph, Locals
  <2>4. CASE /\ ~Over(t) /\ Kind(t) = "empty" /\ UNCHANGED <<pc, loc>>
             /\ node' = [node EXCEPT ![t] = @ + 1]
    BY <2>1, <2>4, Same DEF IInv, Moves, Inner, InGraph
  <2>5. CASE ~Over(t) /\ Kind(t) = "plain" /\ Go(t, "work") /\ UNCHANGED <<node, loc>>
    BY <2>1, <2>5, Same DEF IInv, Moves, Go, Inner, InGraph
  <2>6. CASE ~Over(t) /\ Kind(t) = "product" /\ Go(t, "prepare") /\ UNCHANGED <<node, loc>>
    BY <2>1, <2>6, Same DEF IInv, Moves, Go, Inner, InGraph
  <2> QED  BY <2>3, <2>4, <2>5, <2>6 DEF NextNode
<1>2. /\ pc[t] = "node" /\ UNCHANGED <<graph, abort, claims, chunk, nPassed>>
      /\ l(p).mine = loc[t].mine /\ (p = "enter" => loc'[t].after = "end")
  BY <1>1, Same DEF NextNode, work, barrier, flags, state, history, IInv, Locals, Moves, Types
<1>3. /\ t \in Active /\ ~Fresh(t) /\ ~Fresh(t)' /\ ~Released(t) /\ ~Released(t)'
      /\ ~Waiting(t) /\ ~Outside(t)
      /\ loc[t].job = graph /\ Len(graph) \in Nat /\ node[t] \in Nat \ {0}
      /\ pc'[t] = p /\ node'[t] = n(p) /\ done'[t] = done[t]
  BY <1>1, MoveFacts
<1>4. ASSUME NEW k, NEW d, NEW s, NEW e, SegmentArgs(k, d, s, e), Segment(k, d, s, e)
      PROVE  Path(k, d, s, e)' /\ Place(t, k, d, s, e)' /\ Claimed(k, d, s, e)'
  <2>1. /\ k \in Activities /\ d \in Nat /\ s \in 1 .. Len(graph) + 1
        /\ e \in 1 .. Len(graph) + 1 /\ Path(k, d, s, e) /\ Place(t, k, d, s, e)
        /\ Claimed(k, d, s, e)
    BY <1>3, <1>4 DEF SegmentArgs, Segment
  <2>2. \/ Coming(t, k, d, s, e) /\ node[t] \in s .. e
        \/ Finishing(t, k, d, s, e) /\ node[t] = e + 1 /\ e = Len(graph)
    BY <1>2, <1>3, <2>1
       DEF Place, Coming, Working, Finishing, Meeting, Gone, Heading, AtBarrier, Released
  <2>3. Kind(t) = graph[node[t]] /\ (Over(t) <=> node[t] > Len(graph) \/ abort = node[t])
    BY <1>3 DEF Kind, Over
  <2>4. Place(t, k, d, s, e)'
    <3>1. CASE Coming(t, k, d, s, e) /\ node[t] \in s .. e
      <4>1. done[t] = d /\ k \in {"over", "plain", "prepare"}
        BY <3>1 DEF Coming
      <4>2. node[t] < e => ~Over(t) /\ Kind(t) = "empty"
        BY <1>3, <2>1, <2>3, <3>1, <4>1 DEF Path
      <4>3. ASSUME node[t] = e
            PROVE  /\ Over(t) <=> k = "over"
                   /\ k = "plain" => Kind(t) = "plain"
                   /\ k = "prepare" => Kind(t) = "product"
        BY <1>3, <2>1, <2>3, <4>1, <4>3 DEF Path
      <4>4. CASE p = "enter"
        <5>1. node[t] = e /\ k = "over"
          BY <1>1, <2>1, <3>1, <4>2, <4>3, <4>4
        <5>2. Meeting(t, k, d, s, e)'
          BY <1>2, <1>3, <4>1, <4>4, <5>1 DEF Meeting, AtBarrier
        <5> QED  BY <5>2 DEF Place
      <4>5. CASE p = "node"
        <5>1. node[t] + 1 \in s .. e
          BY <1>3, <1>1, <2>1, <3>1, <4>1, <4>2, <4>3, <4>5
        <5>2. Coming(t, k, d, s, e)'
          BY <1>3, <4>1, <4>5, <5>1 DEF Coming, Heading
        <5> QED  BY <5>2 DEF Place
      <4>6. CASE p = "work"
        <5>1. node[t] = e /\ k = "plain"
          BY <1>1, <2>1, <3>1, <4>1, <4>2, <4>3, <4>6
        <5>2. Working(t, k, d, s, e)'
          BY <1>3, <4>1, <4>6, <5>1 DEF Working
        <5> QED  BY <5>2 DEF Place
      <4>7. CASE p = "prepare"
        <5>1. node[t] = e /\ k = "prepare"
          BY <1>1, <2>1, <3>1, <4>1, <4>2, <4>3, <4>7
        <5>2. Working(t, k, d, s, e)'
          BY <1>3, <4>1, <4>7, <5>1 DEF Working
        <5> QED  BY <5>2 DEF Place
      <4> QED  BY <1>1, <4>4, <4>5, <4>6, <4>7
    <3>2. CASE Finishing(t, k, d, s, e) /\ node[t] = e + 1 /\ e = Len(graph)
      <4>1. Over(t) /\ p = "enter"
        BY <1>3, <1>1, <2>3, <3>2
      <4>2. Meeting(t, k, d, s, e)'
        BY <1>2, <1>3, <3>2, <4>1 DEF Finishing, Meeting, AtBarrier
      <4> QED  BY <4>2 DEF Place
    <3> QED  BY <2>2, <3>1, <3>2
  <2> QED  BY <1>1, <1>2, <2>1, <2>4, MoveClaimed, FramePath
<1>5. abort' \in Int /\ chunk' \in Nat /\ claims' \in [DOMAIN graph -> [ChunkIds -> Nat]]
  BY <1>2 DEF IInv, Types
<1> QED  BY <1>1, <1>4, <1>5, MoveStep

\* A node computed by all threads at once.
LEMMA WorkStep ==
    ASSUME IInv, NEW t \in Threads, Work(t)
    PROVE  IInv'
<1>1. Moves(t, "step", loc[t], node[t], done[t] + 1) /\ pc[t] = "work"
  BY Same DEF IInv, Types, Work, Go, Moves, Inner, InGraph, work, barrier, flags, state
<1>2. UNCHANGED <<graph, abort, claims, chunk, nGraph>>
  BY DEF Work, work, barrier
<1>3. /\ t \in Active /\ ~Fresh(t) /\ ~Fresh(t)' /\ ~Released(t) /\ ~Waiting(t) /\ ~Outside(t)
      /\ pc'[t] = "step" /\ node'[t] = node[t] /\ done'[t] = done[t] + 1
  BY <1>1, MoveFacts
<1>4. ASSUME NEW k, NEW d, NEW s, NEW e, SegmentArgs(k, d, s, e), Segment(k, d, s, e)
      PROVE  Path(k, d, s, e)' /\ Place(t, k, d, s, e)' /\ Claimed(k, d, s, e)'
  <2>1. Path(k, d, s, e) /\ Place(t, k, d, s, e) /\ Claimed(k, d, s, e)
    BY <1>3, <1>4 DEF Segment
  <2>2. Working(t, k, d, s, e) /\ k = "plain"
    BY <1>1, <1>3, <2>1
       DEF Place, Coming, Working, Finishing, Meeting, Gone, Heading, AtBarrier
  <2>3. Place(t, k, d, s, e)'
    BY <1>3, <2>2 DEF Place, Working, Finishing
  <2>4. Claimed(k, d, s, e)'
    BY <1>2, <2>1, <2>2
       DEF Claimed, Once, Complete, Untouched, Products, NChunks, ChunkIds
  <2> QED  BY <1>2, <2>1, <2>3, <2>4, FramePath
<1>5. abort' \in Int /\ chunk' \in Nat /\ claims' \in [DOMAIN graph -> [ChunkIds -> Nat]]
  BY <1>2 DEF IInv, Types
<1> QED  BY <1>1, <1>4, <1>5, MoveStep

\* The input of a product; thread 0 sets the counter of the chunks.
LEMMA PrepareStep ==
    ASSUME IInv, NEW t \in Threads, Prepare(t)
    PROVE  IInv'
<1> DEFINE l == [loc[t] EXCEPT !.mine = t, !.after = "chunks"]
<1>1. Moves(t, "enter", l, node[t], done[t] + 1) /\ pc[t] = "prepare"
  <2>1. t \in Nat /\ l \in Locals /\ l.job = loc[t].job /\ l.nth = loc[t].nth
    <3>1. t \in Nat
      BY NThreadsType DEF Threads
    <3>2. loc[t] \in Locals
      BY Same DEF IInv
    <3> QED  BY <3>1, <3>2 DEF Locals, Places
  <2>2. loc' = [loc EXCEPT ![t] = l]
    BY DEF Prepare, IInv, Types
  <2>3. /\ pc[t] = "prepare" /\ pc' = [pc EXCEPT ![t] = "enter"] /\ node' = node
        /\ done' = [done EXCEPT ![t] = done[t] + 1] /\ done[t] + 1 \in Nat
        /\ UNCHANGED <<graph, nGraph, nPassed, nBarrier, pending, last>>
    BY Same DEF IInv, Prepare, Go, barrier, state
  <2> HIDE DEF l
  <2> QED  BY <2>1, <2>2, <2>3, Same DEF IInv, Moves, Inner, InGraph
<1>2. /\ UNCHANGED <<graph, abort, claims, nGraph>>
      /\ chunk' = IF t = 0 THEN loc[t].nth ELSE chunk
      /\ l.mine = t /\ l.after = "chunks"
  BY Same DEF Prepare, IInv, Locals
<1> HIDE DEF l
<1>3. /\ t \in Active /\ ~Fresh(t) /\ ~Fresh(t)' /\ ~Released(t) /\ ~Waiting(t) /\ ~Outside(t)
      /\ pc'[t] = "enter" /\ node'[t] = node[t] /\ done'[t] = done[t] + 1 /\ loc'[t] = l
      /\ loc[t].nth = nGraph.threads /\ nGraph.threads \in 1 .. NThreads
      /\ \A u \in Threads \ {t} : SameThread(u)
  BY <1>1, MoveFacts
<1>4. ASSUME NEW k, NEW d, NEW s, NEW e, SegmentArgs(k, d, s, e), Segment(k, d, s, e)
      PROVE  Path(k, d, s, e)' /\ Place(t, k, d, s, e)' /\ Claimed(k, d, s, e)'
  <2>1. Path(k, d, s, e) /\ Place(t, k, d, s, e) /\ Claimed(k, d, s, e)
    BY <1>3, <1>4 DEF Segment
  <2>2. Working(t, k, d, s, e) /\ k = "prepare"
    BY <1>1, <1>3, <2>1
       DEF Place, Coming, Working, Finishing, Meeting, Gone, Heading, AtBarrier
  <2>3. Place(t, k, d, s, e)'
    BY <1>2, <1>3, <2>2 DEF Place, Working, Meeting, AtBarrier
  <2>4. Active' = Active /\ Active \subseteq Threads
    BY <1>2, ActiveType DEF Active, IInv
  <2>5. done'[0] = d + 1 => chunk' = nGraph.threads
    BY <1>2, <1>3, <2>1, <2>2, NThreadsType DEF Claimed, SameThread
  <2>6. \A u \in Active : done'[u] = d + 1 => loc'[u].mine = u
    BY <1>2, <1>3, <2>1, <2>2, <2>4 DEF Claimed, SameThread
  <2>7. Claimed(k, d, s, e)'
    BY <1>2, <2>1, <2>2, <2>4, <2>5, <2>6
       DEF Claimed, Once, Complete, Untouched, Products, NChunks, ChunkIds
  <2> QED  BY <1>2, <2>1, <2>3, <2>7, FramePath
<1>5. abort' \in Int /\ chunk' \in Nat /\ claims' \in [DOMAIN graph -> [ChunkIds -> Nat]]
  BY <1>2, <1>3, NThreadsType DEF IInv, Types
<1> QED  BY <1>1, <1>4, <1>5, MoveStep

\* The end of a node: the next one, or the end of the graph.
LEMMA FinishNodeStep ==
    ASSUME IInv, NEW t \in Threads, FinishNode(t)
    PROVE  IInv'
<1> DEFINE l(p) == IF p = "enter" THEN [loc[t] EXCEPT !.after = "next"] ELSE loc[t]
<1>1. PICK p \in {"enter", "node"} :
        /\ Moves(t, p, l(p), node[t] + 1, done[t])
        /\ p = "enter" <=> node[t] < Len(loc[t].job)
  <2>1. /\ pc[t] = "step" /\ node' = [node EXCEPT ![t] = @ + 1]
        /\ UNCHANGED <<graph, nGraph, nPassed, nBarrier, pending, last, done>>
        /\ node[t] \in Nat /\ Len(loc[t].job) \in Nat
    BY Same DEF FinishNode, barrier, flags, state, history, IInv, Types, Locals
  <2>2. [loc[t] EXCEPT !.after = "next"] \in Locals
    BY Same DEF IInv, Locals, Places
  <2>3. CASE node[t] < Len(loc[t].job) /\ Meet(t, "next")
    BY <2>1, <2>2, <2>3, Same DEF IInv, Moves, Meet, Go, Inner, InGraph, Locals
  <2>4. CASE node[t] >= Len(loc[t].job) /\ Go(t, "node") /\ UNCHANGED loc
    BY <2>1, <2>4, Same DEF IInv, Moves, Go, Inner, InGraph
  <2> QED  BY <2>3, <2>4 DEF FinishNode
<1>2. /\ pc[t] = "step" /\ UNCHANGED <<graph, claims, chunk, nPassed>>
      /\ l(p).mine = loc[t].mine /\ (p = "enter" => loc'[t].after = "next")
      /\ abort' = abort \/ abort' = node[t] + 1
  BY <1>1, Same DEF FinishNode, barrier, flags, state, history, IInv, Locals, Moves, Types
<1>3. /\ t \in Active /\ ~Fresh(t) /\ ~Fresh(t)' /\ ~Released(t)
      /\ ~Waiting(t) /\ ~Outside(t)
      /\ loc[t].job = graph /\ Len(graph) \in Nat /\ node[t] \in Nat \ {0}
      /\ pc'[t] = p /\ node'[t] = node[t] + 1 /\ done'[t] = done[t]
  BY <1>1, MoveFacts
<1>4. ASSUME NEW k, NEW d, NEW s, NEW e, SegmentArgs(k, d, s, e), Segment(k, d, s, e)
      PROVE  Path(k, d, s, e)' /\ Place(t, k, d, s, e)' /\ Claimed(k, d, s, e)'
  <2>1. /\ s \in 1 .. Len(graph) + 1 /\ e \in 1 .. Len(graph) + 1
        /\ Path(k, d, s, e) /\ Place(t, k, d, s, e) /\ Claimed(k, d, s, e)
    BY <1>3, <1>4 DEF SegmentArgs, Segment
  <2>2. Finishing(t, k, d, s, e) /\ node[t] = e
    BY <1>2, <1>3, <2>1
       DEF Place, Coming, Working, Finishing, Meeting, Gone, Heading, AtBarrier
  <2>3. Place(t, k, d, s, e)'
    <3>1. CASE p = "enter"
      BY <1>1, <1>2, <1>3, <2>2, <3>1 DEF Place, Finishing, Meeting, AtBarrier
    <3>2. CASE p = "node"
      <4>1. e = Len(graph)
        BY <1>1, <1>3, <2>1, <2>2, <3>2 DEF Path, Finishing
      <4> QED  BY <1>2, <1>3, <2>2, <3>2, <4>1 DEF Place, Finishing
    <3> QED  BY <3>1, <3>2
  <2>4. Path(k, d, s, e)'
    BY <1>2, <1>3, <2>1, <2>2 DEF Path, Finishing
  <2> QED  BY <1>1, <1>2, <2>1, <2>3, <2>4, MoveClaimed
<1>5. abort' \in Int /\ chunk' \in Nat /\ claims' \in [DOMAIN graph -> [ChunkIds -> Nat]]
  BY <1>2, <1>3 DEF IInv, Types
<1> QED  BY <1>1, <1>4, <1>5, MoveStep

\* Into the barrier of a graph of more than one thread.
LEMMA EnterStep ==
    ASSUME IInv, NEW t \in Threads, Enter(t), nGraph.threads # 1
    PROVE  IInv'
<1> DEFINE l == [loc[t] EXCEPT !.threads = nGraph.threads, !.passed = nPassed]
<1>1. Moves(t, "arrive", l, node[t], done[t]) /\ pc[t] = "enter"
  <2>1. /\ l \in Locals /\ l.job = loc[t].job /\ l.nth = loc[t].nth
        /\ l.threads = nGraph.threads /\ l.passed = nPassed
    <3>1. nGraph.threads \in Nat /\ nPassed \in Nat
      BY NThreadsType DEF IInv, Types
    <3>2. loc[t] \in Locals
      BY Same DEF IInv
    <3> QED  BY <3>1, <3>2 DEF Locals
  <2>2. loc' = [loc EXCEPT ![t] = l]
    BY DEF Enter, IInv, Types
  <2> HIDE DEF l
  <2> QED  BY <2>1, <2>2, Same
           DEF IInv, Enter, Go, Moves, Inner, InGraph, work, barrier, flags, state, history
<1>2. /\ UNCHANGED <<graph, abort, claims, chunk>>
      /\ l.mine = loc[t].mine /\ l.after = loc[t].after
  BY Same DEF Enter, IInv, Locals, work, history
<1> HIDE DEF l
<1>3. /\ t \in Active /\ ~Fresh(t) /\ ~Fresh(t)' /\ ~Released(t) /\ ~Outside(t)
      /\ pc'[t] = "arrive" /\ node'[t] = node[t] /\ done'[t] = done[t] /\ loc'[t] = l
  BY <1>1, MoveFacts
<1>4. ASSUME NEW k, NEW d, NEW s, NEW e, SegmentArgs(k, d, s, e), Segment(k, d, s, e)
      PROVE  Path(k, d, s, e)' /\ Place(t, k, d, s, e)' /\ Claimed(k, d, s, e)'
  <2>1. Path(k, d, s, e) /\ Place(t, k, d, s, e) /\ Claimed(k, d, s, e)
    BY <1>3, <1>4 DEF Segment
  <2>2. Meeting(t, k, d, s, e)
    BY <1>1, <1>3, <2>1 DEF Place, Coming, Working, Finishing, Meeting, Gone, Heading
  <2>3. Place(t, k, d, s, e)'
    BY <1>2, <1>3, <2>2 DEF Place, Meeting, AtBarrier
  <2>4. Path(k, d, s, e)'
    BY <1>2, <2>1, FramePath
  <2>5. Claimed(k, d, s, e)'
    <3>1. /\ Moves(t, "arrive", l, node[t], done[t]) /\ Claimed(k, d, s, e)
          /\ UNCHANGED <<claims, chunk>> /\ l.mine = loc[t].mine
          /\ pc[t] \notin {"chunk", "claim"} /\ "arrive" \notin {"chunk", "claim"}
      BY <1>1, <1>2, <2>1
    <3> QED  BY <3>1, MoveClaimed
  <2> QED  BY <2>3, <2>4, <2>5
<1>5. abort' \in Int /\ chunk' \in Nat /\ claims' \in [DOMAIN graph -> [ChunkIds -> Nat]]
  BY <1>2 DEF IInv, Types
<1> QED  BY <1>1, <1>4, <1>5, MoveStep

------------------------------------------------------------------------------
(* The chunks of a product.                                                *)

\* The thread takes the next chunk of the counter.
LEMMA ClaimStep ==
    ASSUME IInv, NEW t \in Threads, Claim(t)
    PROVE  IInv'
<1> DEFINE l == [loc[t] EXCEPT !.mine = chunk]
<1>1. Moves(t, "chunk", l, node[t], done[t]) /\ pc[t] = "claim"
  <2>1. /\ l \in Locals /\ l.job = loc[t].job /\ l.nth = loc[t].nth
    <3>1. chunk \in Nat /\ loc[t] \in Locals
      BY Same DEF IInv, Types
    <3> QED  BY <3>1 DEF Locals
  <2>2. loc' = [loc EXCEPT ![t] = l]
    BY DEF Claim, IInv, Types
  <2> HIDE DEF l
  <2> QED  BY <2>1, <2>2, Same
           DEF IInv, Claim, Go, Moves, Inner, InGraph, barrier, flags, state, history
<1>2. /\ UNCHANGED <<graph, abort, claims, nGraph, nPassed>> /\ chunk' = chunk + 1
      /\ l.mine = chunk /\ chunk \in Nat
  BY Same DEF Claim, IInv, Types, Locals, barrier, history
<1> HIDE DEF l
<1>3. /\ t \in Active /\ ~Fresh(t) /\ ~Fresh(t)' /\ ~Released(t) /\ ~Waiting(t) /\ ~Outside(t)
      /\ pc'[t] = "chunk" /\ node'[t] = node[t] /\ done'[t] = done[t] /\ loc'[t] = l
      /\ nGraph.threads \in 1 .. NThreads
      /\ \A u \in Threads \ {t} : SameThread(u)
  BY <1>1, MoveFacts
<1>4. ASSUME NEW k, NEW d, NEW s, NEW e, SegmentArgs(k, d, s, e), Segment(k, d, s, e)
      PROVE  Path(k, d, s, e)' /\ Place(t, k, d, s, e)' /\ Claimed(k, d, s, e)'
  <2>1. Path(k, d, s, e) /\ Place(t, k, d, s, e) /\ Claimed(k, d, s, e)
    BY <1>3, <1>4 DEF Segment
  <2>2. Working(t, k, d, s, e) /\ k = "chunks"
    BY <1>1, <1>3, <2>1
       DEF Place, Coming, Working, Finishing, Meeting, Gone, Heading, AtBarrier
  <2>3. Place(t, k, d, s, e)'
    BY <1>3, <2>2 DEF Place, Working, Heading
  <2>4. Active' = Active /\ Active \subseteq Threads
    BY <1>2, ActiveType DEF Active, IInv
  <2>5. /\ \A u \in Active \ {t} : /\ Holds(u)' <=> Holds(u)
                                 /\ loc'[u] = loc[u] /\ pc'[u] = pc[u]
        /\ ~Holds(t) /\ Holds(t)' /\ loc'[t].mine = chunk /\ pc'[t] = "chunk"
    BY <1>1, <1>2, <1>3, <2>4, FramePlace DEF Holds, Heading, SameThread
  <2>6. Shared(e)'
    <3>1. Shared(e)
      BY <2>1, <2>2 DEF Claimed
    <3>2. /\ nGraph.threads \in Nat /\ \A u \in Active : loc[u].mine \in Nat
          /\ ChunkIds \subseteq Nat /\ NChunks(nGraph.threads) \in Nat
      <4>1. \A u \in Active : loc[u] \in Locals
        BY <2>4 DEF IInv, Types
      <4>2. \A u \in Active : loc[u].mine \in Nat
        BY <4>1 DEF Locals
      <4> QED  BY <1>3, <4>2, ChunkBounds, NThreadsType
    <3>3. ASSUME NEW u \in Active, Holds(u)'
          PROVE  /\ loc'[u].mine < chunk'
                 /\ loc'[u].mine \in ChunkIds => claims'[e][loc'[u].mine] = 0
                 /\ \A v \in Active : Holds(v)' /\ loc'[v].mine = loc'[u].mine => v = u
      BY <1>2, <2>5, <3>1, <3>2, <3>3 DEF Shared
    <3>4. ASSUME NEW c \in 0 .. NChunks(nGraph.threads) - 1, c < chunk'
          PROVE  claims'[e][c] = 1 \/ \E u \in Active : Holds(u)' /\ loc'[u].mine = c
      <4>1. CASE c = chunk
        BY <1>3, <2>5, <4>1
      <4>2. CASE c < chunk
        BY <1>2, <2>5, <3>1, <4>2 DEF Shared
      <4> QED  BY <1>2, <3>2, <3>4, <4>1, <4>2
    <3>5. /\ nGraph.threads <= chunk' /\ Once(e)'
          /\ \A c \in ChunkIds : c >= chunk' => claims'[e][c] = 0
      BY <1>2, <3>1, <3>2 DEF Shared, Once, ChunkIds
    <3>6. \A u \in Active : ~Holds(u)' /\ pc'[u] # "claim" => NChunks(nGraph.threads) <= chunk'
      BY <1>2, <2>5, <3>1, <3>2 DEF Shared
    <3>7. ChunkIds' = ChunkIds /\ NChunks(nGraph.threads)' = NChunks(nGraph.threads)
      BY <1>2 DEF ChunkIds, NChunks
    <3> QED  BY <1>2, <2>4, <3>3, <3>4, <3>5, <3>6, <3>7 DEF Shared
  <2>7. Claimed(k, d, s, e)'
    BY <1>2, <2>1, <2>2, <2>6
       DEF Claimed, Once, Complete, Untouched, Products, NChunks, ChunkIds
  <2> QED  BY <1>2, <2>1, <2>3, <2>7, FramePath
<1>5. abort' \in Int /\ chunk' \in Nat /\ claims' \in [DOMAIN graph -> [ChunkIds -> Nat]]
  BY <1>2 DEF IInv, Types
<1> QED  BY <1>1, <1>4, <1>5, MoveStep

\* The thread computes the chunk it has, or there is none left for it.
LEMMA ChunkStep ==
    ASSUME IInv, NEW t \in Threads, Chunk(t)
    PROVE  IInv'
<1> DEFINE c0 == loc[t].mine
           n == NChunks(loc[t].nth)
           m(p) == IF p = "step" THEN done[t] + 1 ELSE done[t]
<1>1. PICK p \in {"claim", "step"} :
        /\ Moves(t, p, loc[t], node[t], m(p))
        /\ p = "claim" => c0 < n
        /\ p = "step" => c0 >= n \/ loc[t].nth >= n
  <2>1. /\ pc[t] = "chunk" /\ UNCHANGED <<graph, nGraph, nPassed, nBarrier, pending, last, node, loc>>
        /\ loc[t].nth \in Nat
    BY Same DEF Chunk, work, barrier, flags, state, IInv, Types, Locals
  <2>2. CASE c0 < n /\ Go(t, "claim") /\ UNCHANGED done
    BY <2>1, <2>2, Same DEF IInv, Moves, Go, Inner, InGraph
  <2>3. CASE Go(t, "step") /\ done' = [done EXCEPT ![t] = @ + 1] /\ (c0 >= n \/ loc[t].nth >= n)
    BY <2>1, <2>3, Same DEF IInv, Moves, Go, Inner, InGraph
  <2> QED  BY <2>2, <2>3 DEF Chunk
<1>2. /\ pc[t] = "chunk" /\ UNCHANGED <<graph, abort, chunk, nGraph, nPassed>>
      /\ c0 < n => claims' = [claims EXCEPT ![node[t]][c0] = @ + 1]
      /\ ~(c0 < n) => claims' = claims
  <2>1. c0 \in Nat /\ loc[t].nth \in Nat
    BY Same DEF IInv, Locals
  <2>2. n \in Int
    BY <2>1, PoolAssumption DEF NChunks
  <2> QED  BY <2>1, <2>2 DEF Chunk, work, barrier
<1>3. /\ t \in Active /\ ~Fresh(t) /\ ~Fresh(t)' /\ ~Released(t) /\ ~Released(t)'
      /\ ~Waiting(t) /\ ~Outside(t)
      /\ loc[t].nth = nGraph.threads /\ nGraph.threads \in 1 .. NThreads
      /\ node[t] \in Nat \ {0} /\ Len(graph) \in Nat /\ loc[t] \in Locals
      /\ pc'[t] = p /\ node'[t] = node[t] /\ done'[t] = m(p) /\ loc'[t] = loc[t]
      /\ \A u \in Threads \ {t} : SameThread(u)
  BY <1>1, MoveFacts
<1>4. /\ n \in Nat /\ nGraph.threads <= n /\ 0 .. n - 1 \subseteq ChunkIds /\ c0 \in Nat
      /\ ChunkIds \subseteq Nat /\ nGraph.threads \in Nat /\ n = NChunks(nGraph.threads)
  BY <1>3, ChunkBounds, NThreadsType DEF Locals
<1> HIDE DEF c0, n
\* Everything but the one chunk is as it was.
<1>5. ASSUME node[t] \in DOMAIN graph
      PROVE  /\ claims' \in [DOMAIN graph -> [ChunkIds -> Nat]]
             /\ \A i \in DOMAIN graph, c \in ChunkIds :
                    claims'[i][c] = IF i = node[t] /\ c = c0 /\ c0 < n
                                    THEN claims[i][c] + 1 ELSE claims[i][c]
  <2>1. claims \in [DOMAIN graph -> [ChunkIds -> Nat]]
    BY DEF IInv, Types
  <2>2. CASE c0 < n
    <3>1. c0 \in ChunkIds
      BY <1>4, <2>2
    <3> QED  BY <1>2, <1>5, <2>1, <2>2, <3>1
  <2>3. CASE ~(c0 < n)
    BY <1>2, <2>1, <2>3
  <2> QED  BY <2>2, <2>3
<1>6. ASSUME NEW k, NEW d, NEW s, NEW e, SegmentArgs(k, d, s, e), Segment(k, d, s, e)
      PROVE  /\ Path(k, d, s, e)' /\ Place(t, k, d, s, e)' /\ Claimed(k, d, s, e)'
             /\ node[t] \in DOMAIN graph
  <2>1. /\ Path(k, d, s, e) /\ Place(t, k, d, s, e) /\ Claimed(k, d, s, e)
        /\ e \in 1 .. Len(graph) + 1
    BY <1>3, <1>6 DEF Segment, SegmentArgs
  <2>2. Working(t, k, d, s, e) /\ k = "chunks" /\ node[t] = e /\ Holds(t)
    BY <1>2, <1>3, <2>1
       DEF Place, Coming, Working, Finishing, Meeting, Gone, Heading, AtBarrier, Holds
  <2>3. e \in DOMAIN graph /\ s = e
    BY <1>3, <2>1, <2>2 DEF Path, IInv, Types
  <2>4. Place(t, k, d, s, e)'
    BY <1>1, <1>3, <2>2 DEF Place, Working, Finishing
  <2>5. Active' = Active /\ Active \subseteq Threads
    BY <1>2, ActiveType DEF Active, IInv
  <2>6. /\ \A u \in Active \ {t} : /\ Holds(u)' <=> Holds(u)
                                 /\ loc'[u] = loc[u] /\ pc'[u] = pc[u]
        /\ ~Holds(t)'
    BY <1>1, <1>2, <1>3, <2>5, FramePlace DEF Holds, Heading, SameThread
  <2>7. /\ ChunkIds' = ChunkIds /\ NChunks(nGraph.threads)' = n /\ Products' = Products
        /\ Products \subseteq DOMAIN graph /\ chunk \in Nat
        /\ claims \in [DOMAIN graph -> [ChunkIds -> Nat]]
    BY <1>2, <1>4 DEF ChunkIds, NChunks, Products, IInv, Types
  <2>8. \A i \in DOMAIN graph, c \in ChunkIds :
            claims'[i][c] = IF i = e /\ c = c0 /\ c0 < n THEN claims[i][c] + 1 ELSE claims[i][c]
    BY <1>5, <2>2, <2>3
  <2>9. Shared(e)'
    <3>1. Shared(e)
      BY <2>1, <2>2 DEF Claimed
    <3>2. c0 < chunk /\ (c0 \in ChunkIds => claims[e][c0] = 0)
      BY <1>3, <2>2, <3>1 DEF Shared, c0
    <3>3. ASSUME NEW u \in Active, Holds(u)'
          PROVE  /\ loc'[u].mine < chunk'
                 /\ loc'[u].mine \in ChunkIds => claims'[e][loc'[u].mine] = 0
                 /\ \A v \in Active : Holds(v)' /\ loc'[v].mine = loc'[u].mine => v = u
      <4>1. u # t /\ Holds(u) /\ loc'[u] = loc[u] /\ loc[u].mine # c0
        BY <1>3, <2>2, <2>6, <3>1, <3>3 DEF Shared, c0
      <4> QED  BY <1>2, <2>3, <2>6, <2>8, <3>1, <3>3, <4>1 DEF Shared
    <3>4. ASSUME NEW c \in 0 .. n - 1, c < chunk
          PROVE  claims'[e][c] = 1 \/ \E u \in Active : Holds(u)' /\ loc'[u].mine = c
      <4>1. c \in ChunkIds /\ c \in Int
        BY <1>4
      <4>2. CASE c = c0
        <5>1. c0 < n /\ claims[e][c0] = 0
          BY <1>4, <3>2, <3>4, <4>1, <4>2
        <5> QED  BY <2>3, <2>8, <4>1, <4>2, <5>1
      <4>3. CASE c # c0
        <5>1. claims[e][c] = 1 \/ \E u \in Active : Holds(u) /\ loc[u].mine = c
          BY <1>4, <3>1, <3>4 DEF Shared
        <5>2. claims[e][c] = 1 => claims'[e][c] = 1
          BY <2>3, <2>8, <4>1, <4>3
        <5>3. ASSUME NEW u \in Active, Holds(u), loc[u].mine = c
              PROVE  Holds(u)' /\ loc'[u].mine = c
          BY <2>6, <4>3, <5>3 DEF c0
        <5> QED  BY <5>1, <5>2, <5>3
      <4> QED  BY <4>2, <4>3
    <3>5. Once(e)'
      BY <2>3, <2>7, <2>8, <3>1, <3>2 DEF Shared, Once
    <3>6. \A c \in ChunkIds : c >= chunk' => claims'[e][c] = 0
      BY <1>2, <1>4, <2>3, <2>7, <2>8, <3>1, <3>2 DEF Shared
    <3>7. \A u \in Active : ~Holds(u)' /\ pc'[u] # "claim" => n <= chunk'
      <4>1. p = "step" => n <= chunk
        BY <1>1, <1>2, <1>3, <1>4, <2>7, <3>1, <3>2 DEF Shared, c0, n
      <4> QED  BY <1>1, <1>2, <1>3, <1>4, <2>6, <3>1, <4>1 DEF Shared
    <3>8. nGraph.threads <= chunk'
      BY <1>2, <3>1 DEF Shared
    <3> QED  BY <1>2, <2>5, <2>7, <3>3, <3>4, <3>5, <3>6, <3>7, <3>8 DEF Shared
  <2>10. \A i \in Products : i # e => /\ Once(i) => Once(i)'
                                      /\ Complete(i) => Complete(i)'
                                      /\ Untouched(i) => Untouched(i)'
    BY <1>4, <2>7, <2>8 DEF Once, Complete, Untouched
  <2>11. Claimed(k, d, s, e)'
    BY <2>1, <2>2, <2>3, <2>7, <2>9, <2>10 DEF Claimed
  <2> QED  BY <1>2, <2>1, <2>2, <2>3, <2>4, <2>11, FramePath
<1>7. abort' \in Int /\ chunk' \in Nat /\ claims' \in [DOMAIN graph -> [ChunkIds -> Nat]]
  <2>1. \E k, d, s, e : SegmentArgs(k, d, s, e) /\ Segment(k, d, s, e)
    BY <1>1, MoveFacts DEF Computing, SegmentArgs
  <2>2. node[t] \in DOMAIN graph
    BY <1>6, <2>1
  <2> QED  BY <1>2, <1>5, <2>2 DEF IInv, Types
<1> QED  BY <1>1, <1>6, <1>7, MoveStep

------------------------------------------------------------------------------
(* The barrier.                                                            *)

\* The last thread that arrives finds all others waiting.
LEMMA ArriveStep ==
    ASSUME IInv, NEW t \in Threads, Arrive(t)
    PROVE  IInv'
<1> DEFINE p == IF nBarrier = nGraph.threads - 1 THEN "reset" ELSE "spin"
<1>1. pc[t] = "arrive" /\ ~Outside(t) /\ ~Waiting(t) /\ ~Holds(t) /\ ~Released(t)
  BY DEF Arrive, Outside, Released, Waiting, InGraph, Holds, Heading
<1>2. Busy /\ t \in Active /\ Computing /\ ~Fresh(t)
  BY <1>1, InsideIsActive, InsideFacts
<1>3. /\ loc[t].passed = nPassed /\ loc[t].threads = nGraph.threads
      /\ t \in Workers => last[t] = nGraph /\ ~pending[t]
      /\ loc[t].job = graph /\ loc[t].nth = nGraph.threads /\ nPassed \in Nat /\ nBarrier \in Nat
      /\ nGraph.threads \in Nat
  <2>1. /\ t \in Workers => last[t] = nGraph /\ ~pending[t]
        /\ loc[t].job = graph /\ loc[t].nth = nGraph.threads /\ nGraph.threads \in 1 .. NThreads
    BY <1>1, InsideFacts
  <2>2. loc[t].passed = nPassed /\ loc[t].threads = nGraph.threads
    BY <1>1 DEF IInv, Local
  <2>3. nPassed \in Nat /\ nBarrier \in Nat
    BY DEF IInv, Types
  <2> QED  BY <2>1, <2>2, <2>3, NThreadsType
<1>4. /\ Go(t, p) /\ nBarrier' = nBarrier + 1 /\ p \in InGraph
      /\ UNCHANGED <<graph, chunk, abort, claims, nGraph, nPassed, loc, node, done, last, pending>>
  BY <1>3 DEF Arrive, work, state, history, InGraph
<1>5. ProgramCounters' /\ pc'[t] = p /\ \A u \in Threads \ {t} : pc'[u] = pc[u]
  BY <1>4, GoInside DEF IInv, Types
<1>6. \A u \in Threads \ {t} : SameThread(u)
  BY <1>4, <1>5 DEF SameThread
<1>7. Types'
  BY <1>3, <1>4, <1>5 DEF IInv, Types, ChunkIds
<1>8. /\ Busy' /\ ~Outside(t)' /\ ~Holds(t)' /\ ~Fresh(t)'
      /\ Waiting(t)' <=> p = "spin"
  BY <1>2, <1>3, <1>4, <1>5, NThreadsType
     DEF Busy, Outside, Released, Waiting, Holds, Heading, Fresh, Workers, InGraph
<1>9. Local(t)' /\ (t \in Workers => Worker(t)')
  BY <1>2, <1>3, <1>4, <1>5, <1>8 DEF Local, Worker, IInv, Active
<1>10. Active' = Active /\ Active \subseteq Threads
       /\ IsFiniteSet(Active) /\ Cardinality(Active) = nGraph.threads
  BY <1>4, ActiveType DEF Active, IInv
<1>11. \A u \in Active \ {t} : (Waiting(u)' <=> Waiting(u)) /\ pc'[u] = pc[u]
  BY <1>4, <1>5, <1>6, <1>10, FramePlace
<1>12. Opener = {} /\ nBarrier = Cardinality(Arrived) /\ nBarrier < nGraph.threads
  <2>1. Opener = {}
    BY <1>1, <1>2 DEF Computing, Barrier, Opener
  <2> QED  BY <1>2, <2>1 DEF Computing, Barrier
<1>13. Barrier'
  <2>1. Arrived \subseteq Active \ {t}
    BY <1>1 DEF Arrived
  <2>2. IsFiniteSet(Active \ {t}) /\ Cardinality(Active \ {t}) = nGraph.threads - 1
    BY <1>2, <1>10, FS_RemoveElement
  <2>3. IsFiniteSet(Arrived)
    BY <2>1, <2>2, FS_Subset
  <2>4. CASE nBarrier = nGraph.threads - 1
    <3>1. Arrived = Active \ {t}
      BY <1>12, <2>1, <2>2, <2>4, FS_Subset
    <3>2. \A u \in Active \ {t} : Waiting(u)'
      BY <1>11, <3>1 DEF Arrived
    <3>3. Opener' = {t}
      BY <1>2, <1>5, <1>10, <1>11, <1>12, <2>4 DEF Opener
    <3> QED  BY <1>5, <1>10, <2>4, <3>2, <3>3 DEF Barrier
  <2>5. CASE nBarrier # nGraph.threads - 1
    <3>1. Opener' = {}
      BY <1>5, <1>10, <1>11, <1>12, <2>5 DEF Opener
    <3>2. Arrived' = Arrived \cup {t}
      BY <1>2, <1>8, <1>10, <1>11, <2>5 DEF Arrived
    <3>3. Cardinality(Arrived') = nBarrier + 1
      BY <1>12, <2>1, <2>3, <3>2, FS_AddElement
    <3>4. nBarrier + 1 < nGraph.threads
      BY <1>3, <1>12, <2>5
    <3> QED  BY <1>4, <3>1, <3>3, <3>4 DEF Barrier
  <2> QED  BY <2>4, <2>5
<1>14. ASSUME NEW k, NEW d, NEW s, NEW e, SegmentArgs(k, d, s, e), Segment(k, d, s, e)
       PROVE  Path(k, d, s, e)' /\ Place(t, k, d, s, e)' /\ Claimed(k, d, s, e)'
  <2>1. Path(k, d, s, e) /\ Place(t, k, d, s, e) /\ Claimed(k, d, s, e)
    BY <1>2, <1>14 DEF Segment
  <2>2. Meeting(t, k, d, s, e)
    BY <1>1, <1>2, <2>1 DEF Place, Coming, Working, Finishing, Meeting, Gone, Heading
  <2>3. Place(t, k, d, s, e)'
    BY <1>4, <1>5, <1>8, <2>2 DEF Place, Meeting, AtBarrier
  <2>4. Path(k, d, s, e)'
    BY <1>4, <2>1, FramePath
  <2>5. Claimed(k, d, s, e)'
    BY <1>1, <1>2, <1>4, <1>5, <1>6, <1>8, <2>1, FrameClaimed
  <2> QED  BY <2>3, <2>4, <2>5
<1> QED  BY <1>2, <1>4, <1>6, <1>7, <1>8, <1>9, <1>13, <1>14, ActiveStep

\* It resets the count before it lets them go.
LEMMA ResetStep ==
    ASSUME IInv, NEW t \in Threads, Reset(t)
    PROVE  IInv'
<1>1. pc[t] = "reset" /\ ~Outside(t) /\ ~Waiting(t) /\ ~Holds(t) /\ ~Released(t)
  BY DEF Reset, Outside, Released, Waiting, InGraph, Holds, Heading
<1>2. Busy /\ t \in Active /\ Computing /\ ~Fresh(t)
  BY <1>1, InsideIsActive, InsideFacts
<1>3. /\ t \in Workers => last[t] = nGraph /\ ~pending[t]
      /\ loc[t].job = graph /\ loc[t].nth = nGraph.threads
  BY <1>1, InsideFacts
<1>4. /\ Go(t, "release") /\ nBarrier' = 0
      /\ UNCHANGED <<graph, chunk, abort, claims, nGraph, nPassed, loc, node, done, last, pending>>
  BY DEF Reset, work, state, history
<1>5. ProgramCounters' /\ pc'[t] = "release" /\ \A u \in Threads \ {t} : pc'[u] = pc[u]
  BY <1>4, GoInside DEF IInv, Types, InGraph
<1>6. \A u \in Threads \ {t} : SameThread(u)
  BY <1>4, <1>5 DEF SameThread
<1>7. Types'
  BY <1>4, <1>5 DEF IInv, Types, ChunkIds
<1>8. Busy' /\ ~Outside(t)' /\ ~Holds(t)' /\ ~Fresh(t)' /\ ~Waiting(t)'
  BY <1>2, <1>3, <1>4, <1>5, NThreadsType
     DEF Busy, Outside, Released, Waiting, Holds, Heading, Fresh, Workers, InGraph
<1>9. Local(t)' /\ (t \in Workers => Worker(t)')
  BY <1>2, <1>3, <1>4, <1>5, <1>8 DEF Local, Worker, IInv, Active
<1>10. Active' = Active /\ Active \subseteq Threads
  BY <1>4, ActiveType DEF Active, IInv
<1>11. \A u \in Active \ {t} : Waiting(u)' /\ Waiting(u)
  BY <1>1, <1>2, <1>4, <1>6, <1>10, FramePlace DEF Computing, Barrier, Opener
<1>12. Barrier'
  <2>1. Opener' = {t}
    BY <1>2, <1>5, <1>10, <1>11 DEF Opener, Waiting
  <2> QED  BY <1>4, <1>10, <1>11, <2>1 DEF Barrier
<1>13. ASSUME NEW k, NEW d, NEW s, NEW e, SegmentArgs(k, d, s, e), Segment(k, d, s, e)
       PROVE  Path(k, d, s, e)' /\ Place(t, k, d, s, e)' /\ Claimed(k, d, s, e)'
  <2>1. Path(k, d, s, e) /\ Place(t, k, d, s, e) /\ Claimed(k, d, s, e)
    BY <1>2, <1>13 DEF Segment
  <2>2. Meeting(t, k, d, s, e)
    BY <1>1, <1>2, <2>1 DEF Place, Coming, Working, Finishing, Meeting, Gone, Heading
  <2>3. Place(t, k, d, s, e)'
    BY <1>4, <1>5, <1>8, <2>2 DEF Place, Meeting, AtBarrier
  <2>4. Path(k, d, s, e)'
    BY <1>4, <2>1, FramePath
  <2>5. Claimed(k, d, s, e)'
    BY <1>1, <1>2, <1>4, <1>5, <1>6, <1>8, <2>1, FrameClaimed
  <2> QED  BY <2>3, <2>4, <2>5
<1> QED  BY <1>2, <1>4, <1>6, <1>7, <1>8, <1>9, <1>12, <1>13, ActiveStep

\* All chunks are computed when everybody is at the barrier behind them.
LEMMA AllComputed ==
    ASSUME IInv, Computing, NEW e, Shared(e), \A u \in Active : AtBarrier(u)
    PROVE  Once(e) /\ Complete(e)
<1>1. \A u \in Active : ~Holds(u) /\ pc[u] # "claim"
  BY DEF AtBarrier, Holds, Heading, Waiting, Released
<1>2. 0 \in Active /\ nGraph.threads \in 1 .. NThreads
  BY ActiveType, NThreadsType DEF Computing, IInv, Types
<1>3. NChunks(nGraph.threads) <= chunk /\ NChunks(nGraph.threads) \in Nat /\ chunk \in Nat
  BY <1>1, <1>2, ChunkBounds DEF Shared, IInv, Types
<1>4. \A c \in 0 .. NChunks(nGraph.threads) - 1 : c < chunk
  BY <1>3
<1> QED  BY <1>1, <1>4 DEF Shared, Complete

\* From one part of the graph to the next: every thread was at the barrier,
\* and is where it goes from there.
LEMMA Opened ==
    ASSUME IInv, Computing, NEW k, NEW d, NEW s, NEW e,
           SegmentArgs(k, d, s, e), Segment(k, d, s, e),
           \A u \in Active : Meeting(u, k, d, s, e),
           UNCHANGED <<graph, nGraph, abort, claims, chunk, node, done, loc>>,
           \A u \in Active :
               /\ ~Fresh(u)'
               /\ loc[u].after = "next" => Heading(u, "next", "node")'
               /\ loc[u].after = "chunks" => Heading(u, "chunks", "chunk")'
               /\ loc[u].after = "end" => Outside(u)'
    PROVE  \E kk \in Activities, dd \in Nat, ss, ee \in 1 .. Len(graph) + 1 :
               Segment(kk, dd, ss, ee)'
<1>1. /\ k \in Activities /\ d \in Nat /\ s \in 1 .. Len(graph) + 1
      /\ e \in 1 .. Len(graph) + 1 /\ Len(graph) \in Nat
      /\ Path(k, d, s, e) /\ Claimed(k, d, s, e)
  BY DEF SegmentArgs, Segment, IInv, Types
<1>2. /\ Active' = Active /\ 0 \in Active /\ Active \subseteq Threads
      /\ nGraph.threads \in 1 .. NThreads /\ Active = 0 .. nGraph.threads - 1
  <2>1. Active' = Active /\ Active = 0 .. nGraph.threads - 1
    BY DEF Active
  <2>2. 0 \in Active /\ Active \subseteq Threads
    BY ActiveType DEF Computing, IInv
  <2>3. nGraph.threads \in 1 .. NThreads
    BY NThreadsType DEF Computing, IInv, Types
  <2> QED  BY <2>1, <2>2, <2>3
<1>3. /\ Products' = Products
      /\ \A i : /\ Once(i)' <=> Once(i)
                /\ Complete(i)' <=> Complete(i)
                /\ Untouched(i)' <=> Untouched(i)
      /\ \A i \in Products : i \in 1 .. Len(graph) /\ graph[i] = "product"
  BY DEF Products, Once, Complete, Untouched, NChunks, ChunkIds, IInv, Types
<1>4. \A i \in Products : k # "end" /\ i < s => Once(i) /\ Complete(i)
  BY <1>1 DEF Claimed
<1>5. k \in {"over", "plain", "prepare", "chunks"}
  BY <1>2 DEF Meeting
\* Behind the barrier no product is half computed.
<1>6. k \in {"plain", "chunks"} =>
         \A i \in Products : IF i <= e THEN Once(i) /\ Complete(i) ELSE Untouched(i)
  <2>1. CASE k = "plain"
    BY <1>1, <1>3, <1>4, <2>1 DEF Path, Claimed
  <2>2. CASE k = "chunks"
    <3>1. Once(e) /\ Complete(e)
      BY <1>1, <2>2, AllComputed DEF Claimed, Meeting
    <3> QED  BY <1>1, <1>3, <1>4, <2>2, <3>1 DEF Path, Claimed
  <2> QED  BY <2>1, <2>2
<1>7. CASE k = "over" \/ (k \in {"plain", "chunks"} /\ e = Len(graph))
  <2> DEFINE dd == IF k = "over" THEN d ELSE d + 1
  <2>1. Path("end", dd, s, e)'
    BY <1>1 DEF Path
  <2>2. \A u \in Active : Gone(u, "end", dd, s, e)'
    BY <1>7 DEF Meeting, Gone
  <2>3. \A i \in Products : Once(i) /\ (Complete(i) \/ Untouched(i))
    <3>1. CASE k = "over"
      <4>1. \A i \in Products : Untouched(i) => Once(i)
        BY DEF Untouched, Once
      <4> QED  BY <1>1, <1>3, <1>4, <3>1, <4>1 DEF Claimed
    <3>2. CASE k \in {"plain", "chunks"} /\ e = Len(graph)
      BY <1>3, <1>6, <3>2
    <3> QED  BY <1>7, <3>1, <3>2
  <2>4. Claimed("end", dd, s, e)'
    BY <1>3, <2>3 DEF Claimed
  <2>5. Segment("end", dd, s, e)'
    BY <1>2, <2>1, <2>2, <2>4 DEF Segment, Place
  <2>6. "end" \in Activities /\ dd \in Nat
    BY <1>1 DEF Activities
  <2> QED  BY <1>1, <2>5, <2>6
<1>8. CASE k = "prepare"
  <2>1. /\ \A u \in Active : /\ done'[u] = d + 1 /\ node'[u] = e /\ loc[u].mine = u
                             /\ Heading(u, "chunks", "chunk")' /\ ~Fresh(u)'
        /\ chunk = nGraph.threads
    BY <1>1, <1>2, <1>8 DEF Meeting, Claimed
  <2>2. Path("chunks", d + 1, e, e)' /\ e \in Products
    BY <1>1, <1>8 DEF Path, Products, IInv, Types
  <2>3. \A u \in Active : Working(u, "chunks", d + 1, e, e)'
    BY <2>1 DEF Working
  <2>4. Untouched(e)
    BY <1>1, <1>8, <2>2 DEF Claimed, Path
  <2>5. Shared(e)'
    <3>1. ChunkIds \subseteq Nat /\ ChunkIds' = ChunkIds /\ nGraph.threads \in Nat
      BY <1>2, ChunkBounds, NThreadsType DEF ChunkIds
    <3>2. Once(e)' /\ nGraph'.threads <= chunk' /\ \A c \in ChunkIds : claims'[e][c] = 0
      BY <2>1, <2>4, <3>1 DEF Untouched, Once
    <3>3. \A u \in Active : Holds(u)' /\ loc'[u].mine = u /\ u < chunk' /\ u \in Nat
      BY <1>2, <2>1, <3>1 DEF Holds
    <3>4. ASSUME NEW c \in 0 .. NChunks(nGraph.threads)' - 1, c < chunk'
          PROVE  \E u \in Active : Holds(u)' /\ loc'[u].mine = c
      <4>1. c \in Active
        <5>1. NChunks(nGraph.threads)' \in Nat
          BY <1>2, ChunkBounds DEF NChunks
        <5>2. c \in Int /\ 0 <= c /\ c < nGraph.threads
          BY <2>1, <3>4, <5>1
        <5> QED  BY <1>2, <3>1, <5>2
      <4> QED  BY <3>3, <4>1
    <3> QED  BY <1>2, <3>1, <3>2, <3>3, <3>4 DEF Shared
  <2>6. \A i \in Products : /\ i < e => Once(i) /\ Complete(i)
                            /\ i > e => Untouched(i)
    BY <1>1, <1>3, <1>4, <1>8 DEF Path, Claimed
  <2>7. Claimed("chunks", d + 1, e, e)'
    BY <1>3, <2>5, <2>6 DEF Claimed
  <2>8. Segment("chunks", d + 1, e, e)'
    BY <1>2, <2>2, <2>3, <2>7 DEF Segment, Place
  <2>9. "chunks" \in Activities /\ d + 1 \in Nat
    BY <1>1 DEF Activities
  <2> QED  BY <1>1, <2>8, <2>9
<1>9. CASE k \in {"plain", "chunks"} /\ e # Len(graph)
  <2>1. e < Len(graph) /\ e + 1 \in 1 .. Len(graph) + 1 /\ d + 1 \in Nat
    BY <1>1, <1>9 DEF Path
  <2>2. PICK kk \in {"over", "plain", "prepare"}, ee \in 1 .. Len(graph) + 1 :
            Path(kk, d + 1, e + 1, ee)
    BY <2>1, PathExists DEF IInv
  <2>3. Path(kk, d + 1, e + 1, ee)'
    BY <2>2, FramePath
  <2>4. \A u \in Active : /\ done'[u] = d + 1 /\ node'[u] = e + 1
                          /\ Heading(u, "next", "node")' /\ ~Fresh(u)'
    BY <1>9, <2>1 DEF Meeting
  <2>5. \A u \in Active : Coming(u, kk, d + 1, e + 1, ee)'
    BY <1>1, <2>2, <2>4 DEF Coming, Path
  <2>6. Claimed(kk, d + 1, e + 1, ee)'
    <3>1. \A i \in Products : /\ i < e + 1 => Once(i) /\ Complete(i)
                              /\ i >= e + 1 => Untouched(i)
      BY <1>1, <1>3, <1>6, <1>9
    <3>2. \A u \in Active : done'[u] # d + 1 + 1
      BY <1>1, <2>4
    <3> QED  BY <1>2, <1>3, <2>2, <3>1, <3>2 DEF Claimed
  <2>7. Segment(kk, d + 1, e + 1, ee)'
    BY <1>2, <2>3, <2>5, <2>6 DEF Segment, Place
  <2>8. kk \in Activities
    BY <2>2 DEF Activities
  <2> QED  BY <2>1, <2>2, <2>7, <2>8
<1> QED  BY <1>5, <1>7, <1>8, <1>9

\* When thread 0 is back in ggml_graph_compute's caller, everybody is out.
LEMMA EndIsQuiet ==
    ASSUME Types', pc'[0] = "idle", nBarrier' = 0, nGraph'.threads > 0,
           \A u \in Workers : Worker(u)',
           NEW k, NEW d, NEW s, NEW e, Segment(k, d, s, e)'
    PROVE  Quiet'
<1>1. 0 \in Active'
  BY NThreadsType DEF Active, Types
<1>2. k = "end"
  BY <1>1 DEF Segment, Place, Coming, Working, Finishing, Meeting, Gone, Fresh,
              Heading, Released, AtBarrier, Waiting
<1>3. \A u \in Active' : ~Fresh(u)' /\ done'[u] = d /\ Outside(u)'
  BY <1>2 DEF Segment, Place, Coming, Working, Finishing, Meeting, Gone
<1>4. \A u \in Workers : Outside(u)' /\ (u \in Active' => last'[u] = nGraph' /\ ~pending'[u])
  BY <1>3 DEF Worker, Fresh, Workers
<1>5. \A i \in Products' : Once(i)' /\ (Complete(i)' \/ Untouched(i)')
  BY <1>2 DEF Segment, Claimed
<1> QED  BY <1>3, <1>4, <1>5 DEF Quiet

\* A thread leaves the barrier: the last one lets the others go, the only
\* one of its graph just goes.
LEMMA CrossStep ==
    ASSUME IInv, NEW t \in Threads, pc[t] \in {"enter", "release"}, Leave(t),
           nBarrier = 0, \A u \in Active \ {t} : Waiting(u),
           \/ nPassed' = nPassed + 1
           \/ nPassed' = nPassed /\ nGraph.threads = 1,
           UNCHANGED <<nBarrier, work, nGraph, flags, state, node, loc, history>>
    PROVE  IInv'
<1>1. ~Outside(t) /\ ~Waiting(t)
  BY DEF Outside, Released, Waiting, InGraph
<1>2. Busy /\ t \in Active /\ Computing /\ ~Fresh(t) /\ loc[t].job = graph
      /\ loc[t].nth = nGraph.threads /\ (t \in Workers => last[t] = nGraph /\ ~pending[t])
  BY <1>1, InsideIsActive, InsideFacts
<1>3. /\ UNCHANGED <<graph, nGraph, abort, claims, chunk, node, done, loc, last, pending, nBarrier>>
      /\ nPassed \in Nat /\ loc[t].after \in Places /\ nGraph.threads \in Nat
  BY Same, NThreadsType DEF work, state, history, IInv, Locals, Types
<1>4. PICK p \in {"chunk", "node", "idle", "top"} :
          /\ Go(t, p)
          /\ loc[t].after = "chunks" => p = "chunk"
          /\ loc[t].after = "next" => p = "node"
          /\ loc[t].after = "end" => p = IF t = 0 THEN "idle" ELSE "top"
  BY <1>3 DEF Leave, Places
<1>5. /\ ProgramCounters' /\ pc'[t] = p
      /\ \A u \in Threads \ {t} : pc'[u] = pc[u] /\ SameThread(u)
      /\ p = "idle" => t = 0
      /\ p = "top" => t # 0
      /\ p \in {"idle", "top"} => loc[t].after = "end"
  <2>1. /\ p = "idle" => t = 0
        /\ p = "top" => t # 0
        /\ p \in {"idle", "top"} => loc[t].after = "end"
    BY <1>3, <1>4 DEF Places
  <2>2. /\ pc' \in [Threads -> WaitPC \cup InGraph \cup MainPC]
        /\ pc'[t] = p /\ \A u \in Threads \ {t} : pc'[u] = pc[u]
    BY <1>4 DEF Go, IInv, Types, ProgramCounters, WaitPC, InGraph, MainPC
  <2>3. pc'[0] \in InGraph \cup MainPC /\ \A u \in Workers : pc'[u] \in InGraph \cup WaitPC
    BY <2>1, <2>2, NThreadsType DEF IInv, Types, ProgramCounters, WaitPC, InGraph, MainPC, Workers
  <2> QED  BY <1>3, <2>1, <2>2, <2>3 DEF ProgramCounters, SameThread
<1>6. Types'
  BY <1>3, <1>5 DEF IInv, Types, ChunkIds
<1>7. Active' = Active /\ Active \subseteq Threads /\ 0 \in Active /\ Workers = Threads \ {0}
  BY <1>2, <1>3, ActiveType DEF Active, IInv, Computing, Workers
\* The others of the graph are let go ...
<1>8. \A u \in Active \ {t} : Released(u)' /\ ~Waiting(u)' /\ ~Outside(u) /\ pc'[u] = "spin"
  <2>1. CASE nPassed' = nPassed + 1
    BY <1>3, <1>5, <1>7, <2>1 DEF Waiting, Released, Outside, InGraph
  <2>2. CASE nGraph.threads = 1
    BY <1>2, <2>2 DEF Active
  <2> QED  BY <2>1, <2>2
\* ... and those that are not of the graph stay out.
<1>9. \A u \in Threads \ Active : Outside(u) /\ Outside(u)' /\ u \in Workers
  <2>1. ASSUME NEW u \in Threads \ Active  PROVE Outside(u) /\ u \in Workers /\ u # t
    BY <1>2, <1>7, InsideIsActive
  <2>2. ASSUME NEW u \in Threads \ Active, pc[u] = "spin"  PROVE loc[u].passed <= nPassed /\ loc[u].passed \in Int
    <3>1. loc[u] \in Locals
      BY Same DEF IInv
    <3> QED  BY <2>2, <3>1 DEF IInv, Local, Locals
  <2> QED  BY <1>3, <1>5, <2>1, <2>2 DEF Outside, Released, SameThread
<1>10. \A u \in Workers : Worker(u)'
  <2>1. ASSUME NEW u \in Workers \ {t}  PROVE Worker(u)'
    <3>1. Worker(u) /\ (~Outside(u)' => ~Outside(u)) /\ pc'[u] = pc[u]
      BY <1>5, <1>7, <1>8, <1>9 DEF IInv
    <3> QED  BY <1>3, <1>7, <3>1 DEF Worker
  <2>2. t \in Workers => Worker(t)'
    BY <1>2, <1>3, <1>7 DEF IInv, Worker
  <2> QED  BY <2>1, <2>2
<1>11. \A u \in Threads : Local(u)'
  <2>1. ASSUME NEW u \in Threads \ {t}  PROVE Local(u)'
    <3>1. Local(u) /\ (~Outside(u)' => ~Outside(u)) /\ pc'[u] = pc[u] /\ pc[u] # "arrive"
      BY <1>5, <1>7, <1>8, <1>9 DEF IInv, Outside, Released, InGraph, Waiting
    <3>2. loc[u].passed \in Nat
      BY Same DEF IInv, Locals
    <3> QED  BY <1>3, <3>1, <3>2 DEF Local
  <2>2. Local(t)'
    BY <1>2, <1>3, <1>5 DEF Local
  <2> QED  BY <2>1, <2>2
<1>12. PICK k \in Activities, d \in Nat, s \in 1 .. Len(graph) + 1, e \in 1 .. Len(graph) + 1 :
           Segment(k, d, s, e)
  BY <1>2 DEF Computing
<1>13. \A u \in Active : Meeting(u, k, d, s, e)
  <2>1. \A u \in Active : Place(u, k, d, s, e)
    BY <1>12 DEF Segment
  <2>2. ASSUME NEW u \in Active \ {t}  PROVE Meeting(u, k, d, s, e)
    BY <1>8, <2>1, <2>2
       DEF Place, Coming, Working, Finishing, Meeting, Gone, Heading, Waiting, Released, Fresh, Outside
  <2>3. Meeting(t, k, d, s, e)
    BY <1>1, <1>2, <2>1 DEF Place, Coming, Working, Finishing, Meeting, Gone, Heading, Released
  <2> QED  BY <2>2, <2>3
<1>14. ASSUME NEW u \in Active
       PROVE  /\ ~Fresh(u)'
              /\ loc[u].after = "next" => Heading(u, "next", "node")'
              /\ loc[u].after = "chunks" => Heading(u, "chunks", "chunk")'
              /\ loc[u].after = "end" => Outside(u)'
  <2>1. CASE u = t
    <3>1. ~Fresh(t)'
      BY <1>2, <1>3, <1>5, <1>7, NThreadsType DEF Fresh
    <3>2. loc[t].after = "end" => pc'[t] \in {"idle", "top"}
      BY <1>4, <1>5
    <3> QED  BY <1>4, <1>5, <2>1, <3>1, <3>2 DEF Heading, Outside, InGraph
  <2>2. CASE u # t
    <3>1. ~Fresh(u)
      BY <1>13 DEF Meeting
    <3>2. Released(u)' /\ pc'[u] = "spin" /\ loc'[u] = loc[u]
      BY <1>3, <1>8, <2>2
    <3>3. ~Fresh(u)'
      BY <1>3, <3>1, <3>2 DEF Fresh
    <3> QED  BY <3>2, <3>3 DEF Heading, Outside
  <2> QED  BY <2>1, <2>2
<1>15. PICK kk \in Activities, dd \in Nat, ss \in 1 .. Len(graph) + 1, ee \in 1 .. Len(graph) + 1 :
           Segment(kk, dd, ss, ee)'
  <2>1. SegmentArgs(k, d, s, e)
    BY <1>12 DEF SegmentArgs
  <2> QED  BY <1>2, <1>3, <1>12, <1>13, <1>14, <2>1, Opened
<1>16. CASE Busy'
  <2>1. Arrived' = {} /\ Opener' = {}
    BY <1>5, <1>7, <1>8 DEF Arrived, Opener, Waiting
  <2>2. Barrier'
    BY <1>2, <1>3, <2>1, FS_EmptySet DEF Barrier, Computing
  <2>3. Computing'
    BY <1>2, <1>3, <1>15, <2>2 DEF Computing
  <2> QED  BY <1>6, <1>10, <1>11, <1>16, <2>3 DEF IInv
<1>17. CASE ~Busy'
  <2>1. pc'[0] = "idle"
    BY <1>2, <1>5, <1>7, <1>8, <1>17, NThreadsType DEF Busy, InGraph
  <2>2. Quiet'
    BY <1>2, <1>3, <1>6, <1>10, <1>15, <2>1, EndIsQuiet DEF Computing
  <2> QED  BY <1>6, <1>10, <1>11, <1>17, <2>2 DEF IInv
<1> QED  BY <1>16, <1>17

LEMMA ReleaseStep ==
    ASSUME IInv, NEW t \in Threads, Release(t)
    PROVE  IInv'
<1>1. pc[t] = "release" /\ ~Outside(t)
  BY DEF Release, Outside, Released, InGraph
<1>2. t \in Active /\ Computing
  BY <1>1, InsideIsActive
<1>3. nBarrier = 0 /\ \A u \in Active \ {t} : Waiting(u)
  BY <1>1, <1>2 DEF Computing, Barrier, Opener
<1> QED  BY <1>1, <1>3, CrossStep DEF Release

LEMMA EnterAloneStep ==
    ASSUME IInv, NEW t \in Threads, Enter(t), nGraph.threads = 1
    PROVE  IInv'
<1>1. pc[t] = "enter" /\ ~Outside(t)
  BY DEF Enter, Outside, Released, InGraph
<1>2. t \in Active /\ Computing
  BY <1>1, InsideIsActive
<1>3. Active = {t} /\ Opener = {} /\ Arrived = {}
  BY <1>1, <1>2 DEF Active, Opener, Arrived, Waiting
<1>4. nBarrier = 0
  BY <1>2, <1>3, FS_EmptySet DEF Computing, Barrier
<1> QED  BY <1>1, <1>3, <1>4, CrossStep DEF Enter, barrier

------------------------------------------------------------------------------
(* Threads outside a graph.                                                *)

LEMMA AwayStep ==
    ASSUME IInv, NEW t \in Workers, Outside(t), NEW p \in WaitPC, Go(t, p),
           UNCHANGED <<graph, nGraph, nPassed, nBarrier, claims, chunk, abort, loc, node, done>>,
           last' \in [Threads -> [count : Nat, threads : Nat]], pending' \in [Threads -> BOOLEAN],
           \A u \in Threads \ {t} : last'[u] = last[u] /\ pending'[u] = pending[u],
           Worker(t)', t \in Active => (Fresh(t)' <=> Fresh(t))
    PROVE  IInv'
<1>1. t \in Threads /\ t # 0 /\ 0 \in Threads
  BY NThreadsType DEF Workers
<1>2. /\ ProgramCounters' /\ pc'[t] = p /\ \A u \in Threads \ {t} : SameThread(u)
      /\ pc'[0] = pc[0] /\ pc'[t] \notin InGraph
  BY <1>1 DEF Go, IInv, Types, ProgramCounters, SameThread, WaitPC, InGraph, Workers
<1>3. Types'
  BY <1>2 DEF IInv, Types, ChunkIds
<1>4. Outside(t)' /\ ~Waiting(t) /\ ~Waiting(t)' /\ ~Holds(t)' /\ ~Holds(t)
  BY <1>2 DEF Outside, Waiting, Released, Holds, Heading, InGraph, WaitPC
<1>5. \A u \in Threads : Local(u)'
  <2>1. Local(t)'
    BY <1>2, <1>4 DEF Local, InGraph
  <2> QED  BY <1>2, <2>1, FrameLocal DEF IInv
<1>6. \A u \in Workers : Worker(u)'
  BY <1>2, FrameLocal DEF IInv, Workers
<1>7. Active' = Active /\ Active \subseteq Threads
  BY ActiveType DEF Active, IInv
<1>8. CASE Busy
  <2>1. Computing
    BY <1>8 DEF IInv
  <2>2. \A u \in Threads : (Waiting(u)' <=> Waiting(u)) /\
                           (pc'[u] \in {"reset", "release"} <=> pc[u] \in {"reset", "release"})
                           /\ (pc[u] = "release" <=> pc'[u] = "release")
    <3>1. pc[t] \notin {"reset", "release"} /\ pc'[t] \notin {"reset", "release"}
      BY <1>2 DEF Outside, Released, InGraph
    <3> QED  BY <1>2, <1>4, <3>1, FramePlace DEF SameThread
  <2>3. Arrived' = Arrived /\ Opener' = Opener
    BY <1>7, <2>2 DEF Arrived, Opener
  <2>4. Barrier'
    <3>1. /\ nBarrier' = Cardinality(Arrived') \/ Opener' # {}
          /\ Opener' = {} => nBarrier' < nGraph'.threads
      BY <2>1, <2>3 DEF Computing, Barrier
    <3>2. ASSUME NEW o \in Opener'
          PROVE  /\ \A u \in Active' \ {o} : Waiting(u)'
                 /\ pc'[o] = "release" => nBarrier' = 0
      <4>1. o \in Opener /\ o \in Threads /\ \A u \in Active \ {o} : Waiting(u)
        BY <1>7, <2>1, <2>3, <3>2 DEF Computing, Barrier, Opener
      <4>2. pc[o] = "release" => nBarrier = 0
        BY <2>1, <4>1 DEF Computing, Barrier
      <4> QED  BY <1>7, <2>2, <4>1, <4>2
    <3> QED  BY <3>1, <3>2 DEF Barrier
  <2>5. PICK k \in Activities, d \in Nat, s \in 1 .. Len(graph) + 1, e \in 1 .. Len(graph) + 1 :
            Segment(k, d, s, e)
    BY <2>1 DEF Computing
  <2>6. t \in Active => Place(t, k, d, s, e)'
    <3>1. SUFFICES ASSUME t \in Active  PROVE Place(t, k, d, s, e)'
      OBVIOUS
    <3>2. Place(t, k, d, s, e) /\ (Fresh(t)' <=> Fresh(t)) /\ done'[t] = done[t]
      BY <2>5, <3>1 DEF Segment
    <3>3. \/ Coming(t, k, d, s, e) /\ Fresh(t) /\ s = 1 /\ d = 0
          \/ Gone(t, k, d, s, e)
      BY <3>2 DEF Outside, Place, Coming, Working, Finishing, Meeting, Gone, Heading, AtBarrier,
                  Released, Waiting, InGraph
    <3> QED  BY <1>4, <3>2, <3>3 DEF Place, Coming, Gone
  <2>7. \A u \in Active : Place(u, k, d, s, e)'
    BY <1>2, <1>7, <2>5, <2>6, FramePlace DEF Segment
  <2>8. Path(k, d, s, e)'
    BY <2>5, FramePath DEF Segment
  <2>9. Claimed(k, d, s, e)'
    <3>1. pc[t] # "claim" /\ pc'[t] # "claim"
      BY <1>2 DEF Outside, Released, InGraph
    <3> QED  BY <1>1, <1>2, <1>4, <2>5, <3>1, FrameClaimed DEF Segment
  <2>10. Computing'
    BY <1>7, <2>1, <2>4, <2>5, <2>7, <2>8, <2>9 DEF Computing, Segment
  <2>11. Busy'
    BY <1>2, <1>8 DEF Busy
  <2> QED  BY <1>3, <1>5, <1>6, <2>10, <2>11 DEF IInv
<1>9. CASE ~Busy
  <2>1. Quiet /\ ~Busy'
    BY <1>2, <1>9 DEF IInv, Busy
  <2>2. t \in Active => last'[t] = nGraph /\ ~pending'[t]
    BY <1>1, <2>1 DEF Quiet, Fresh, Outside, Released, InGraph
  <2>3. \A u \in Workers : Outside(u)' /\ (u \in Active' => last'[u] = nGraph' /\ ~pending'[u])
    BY <1>2, <1>4, <1>7, <2>1, <2>2, FramePlace DEF Quiet, Workers
  <2>4. /\ Products' = Products
        /\ \A i : /\ Once(i)' <=> Once(i)
                  /\ Complete(i)' <=> Complete(i)
                  /\ Untouched(i)' <=> Untouched(i)
    BY DEF Products, Once, Complete, Untouched, NChunks, ChunkIds
  <2>5. Quiet'
    BY <1>2, <1>7, <2>1, <2>3, <2>4 DEF Quiet
  <2> QED  BY <1>3, <1>5, <1>6, <2>1, <2>5 DEF IInv
<1> QED  BY <1>8, <1>9

\* A step that only tells what the thread does next.
LEMMA WaitStep ==
    ASSUME IInv, NEW t \in Workers, pc[t] \in WaitPC \ {"dispatch"},
           NEW p \in WaitPC, Go(t, p),
           UNCHANGED <<graph, nGraph, nPassed, nBarrier, claims, chunk, abort, loc, node, done,
                       last, pending>>
    PROVE  IInv'
<1>1. t \in Threads /\ t # 0 /\ pc'[t] = p /\ Outside(t) /\ ~pending[t]
  BY DEF Workers, Go, IInv, Types, ProgramCounters, Outside, Worker, InGraph, WaitPC
<1>2. Worker(t)' /\ (Fresh(t)' <=> Fresh(t))
  BY <1>1 DEF Worker, IInv, Outside, Released, Fresh, WaitPC, InGraph
<1> QED  BY <1>1, <1>2, AwayStep DEF IInv, Types

\* A step that takes the graph.
LEMMA TakeStep ==
    ASSUME IInv, NEW t \in Workers, pc[t] \in {"look", "locking"}, TakeGraph(t),
           NEW p \in {"dispatch", "locking"}, Go(t, p), t < nGraph.threads => p = "dispatch",
           UNCHANGED <<graph, nGraph, nPassed, nBarrier, claims, chunk, abort, loc, node, done>>
    PROVE  IInv'
<1>1. /\ t \in Threads /\ t # 0 /\ pc'[t] = p /\ Outside(t) /\ t \in Nat /\ nGraph.threads \in Nat
      /\ t \in Active <=> t < nGraph.threads
  <2>1. t \in Threads /\ t # 0 /\ t \in Nat /\ nGraph.threads \in Nat
    BY NThreadsType DEF Workers, Threads, IInv, Types
  <2> QED  BY <2>1 DEF Go, IInv, Types, ProgramCounters, Outside, InGraph, Active
<1>2. /\ last' \in [Threads -> [count : Nat, threads : Nat]]
      /\ pending' \in [Threads -> BOOLEAN]
      /\ last'[t] = nGraph /\ (pending'[t] <=> t < nGraph.threads)
      /\ \A u \in Threads \ {t} : last'[u] = last[u] /\ pending'[u] = pending[u]
  <2>1. nGraph \in [count : Nat, threads : Nat]
    BY NThreadsType DEF IInv, Types
  <2>2. last' \in [Threads -> [count : Nat, threads : Nat]]
    BY <2>1 DEF TakeGraph, IInv, Types
  <2>3. (t < nGraph.threads) \in BOOLEAN
    OBVIOUS
  <2>4. pending' \in [Threads -> BOOLEAN]
    BY <2>3 DEF TakeGraph, IInv, Types
  <2>5. last'[t] = nGraph /\ (pending'[t] <=> t < nGraph.threads)
    BY <1>1 DEF TakeGraph, IInv, Types
  <2> QED  BY <2>2, <2>4, <2>5 DEF TakeGraph, IInv, Types
<1>3. Worker(t)'
  BY <1>1, <1>2 DEF Worker, Outside, InGraph, Active, IInv, Types
<1>4. t \in Active => (Fresh(t)' <=> Fresh(t))
  BY <1>1, <1>2 DEF Fresh, TakeGraph
<1> QED  BY <1>1, <1>2, <1>3, <1>4, AwayStep DEF WaitPC

\* To work on the graph that was taken, or back to the start of the loop.
LEMMA DispatchStep ==
    ASSUME IInv, NEW t \in Workers, Dispatch(t)
    PROVE  IInv'
<1>1. /\ t \in Threads /\ t # 0 /\ pc[t] = "dispatch" /\ Outside(t) /\ ~Waiting(t) /\ ~Holds(t)
  BY DEF Workers, Dispatch, Outside, InGraph, Waiting, Holds, Heading, Released
<1>2. /\ UNCHANGED <<graph, nGraph, nPassed, nBarrier, claims, chunk, abort, loc, node, done, last>>
      /\ pending' \in [Threads -> BOOLEAN] /\ ~pending'[t]
      /\ \A u \in Threads \ {t} : pending'[u] = pending[u]
  BY <1>1 DEF Dispatch, work, barrier, history, IInv, Types
<1>3. CASE ~pending[t]
  <2>1. Go(t, "top") /\ pc'[t] = "top"
    BY <1>1, <1>3 DEF Dispatch, Go, IInv, Types, ProgramCounters
  <2>2. Worker(t)' /\ (Fresh(t)' <=> Fresh(t))
    BY <1>1, <1>2, <1>3, <2>1 DEF Worker, IInv, Outside, Fresh, InGraph
  <2> QED  BY <1>1, <1>2, <2>1, <2>2, AwayStep DEF IInv, Types, WaitPC
<1>4. CASE pending[t]
  <2>1. last[t] = nGraph /\ t \in Active /\ Fresh(t)
    BY <1>1, <1>4 DEF IInv, Worker, Fresh
  <2>2. Busy /\ Computing
    BY <1>4, <2>1 DEF IInv, Quiet
  <2>3. ProgramCounters' /\ pc'[t] = "begin" /\ \A u \in Threads \ {t} : SameThread(u)
    BY <1>1, <1>2, <1>4, GoInside DEF Dispatch, IInv, Types, InGraph, SameThread
  <2>4. Types'
    BY <1>2, <2>3 DEF IInv, Types, ChunkIds
  <2>5. Busy' /\ ~Waiting(t)' /\ ~Holds(t)' /\ Fresh(t)' /\ pc'[t] \notin {"reset", "release"}
    BY <1>1, <2>2, <2>3, NThreadsType DEF Busy, SameThread, Waiting, Holds, Heading, Released, Fresh
  <2>6. Local(t)' /\ Worker(t)'
    BY <1>2, <2>1, <2>3 DEF Local, Worker, IInv, Active
  <2>7. ASSUME NEW k, NEW d, NEW s, NEW e, SegmentArgs(k, d, s, e), Segment(k, d, s, e)
        PROVE  Path(k, d, s, e)' /\ Place(t, k, d, s, e)' /\ Claimed(k, d, s, e)'
    <3>1. Path(k, d, s, e) /\ Place(t, k, d, s, e) /\ Claimed(k, d, s, e)
      BY <2>1, <2>7 DEF Segment
    <3>2. Coming(t, k, d, s, e) /\ s = 1 /\ d = 0
      BY <2>1, <3>1 DEF Place, Coming, Working, Finishing, Meeting, Gone
    <3>3. Place(t, k, d, s, e)'
      BY <1>2, <2>3, <2>5, <3>2 DEF Place, Coming
    <3>4. Path(k, d, s, e)'
      BY <1>2, <3>1, FramePath
    <3>5. Claimed(k, d, s, e)'
      BY <1>1, <1>2, <2>3, <2>5, <3>1, FrameClaimed
    <3> QED  BY <3>3, <3>4, <3>5
  <2> QED  BY <1>1, <1>2, <2>1, <2>2, <2>3, <2>4, <2>5, <2>6, <2>7, InsideStep
<1> QED  BY <1>3, <1>4

\* The threads that wait: they poll, sleep, are woken, or take a graph.
LEMMA WaitingStep ==
    ASSUME IInv, NEW t \in Workers, Wait(t) \/ WakeSpuriously(t)
    PROVE  IInv'
<1> USE DEF work, barrier, flags, state, history, WaitPC
<1>1. CASE Top(t)
  BY <1>1, WaitStep DEF Top
<1>2. CASE LockPaused(t)
  BY <1>2, WaitStep DEF LockPaused
<1>3. CASE Resume(t)
  BY <1>3, WaitStep DEF Resume
<1>4. CASE LookStop(t)
  BY <1>4, WaitStep DEF LookStop
<1>5. CASE Poll(t)
  BY <1>5, WaitStep DEF Poll
<1>6. CASE Look(t)
  <2>1. CASE TakeGraph(t) /\ Go(t, IF t < nGraph.threads THEN "dispatch" ELSE "locking")
    BY <1>6, <2>1, TakeStep DEF Look
  <2>2. CASE Go(t, "poll") /\ UNCHANGED <<pending, last>>
    BY <1>6, <2>2, WaitStep DEF Look
  <2>3. CASE Go(t, "locking") /\ UNCHANGED <<pending, last>>
    BY <1>6, <2>3, WaitStep DEF Look
  <2> QED  BY <1>6, <2>1, <2>2, <2>3 DEF Look
<1>7. CASE LockForWork(t)
  <2>1. CASE TakeGraph(t) /\ Go(t, "dispatch")
    BY <1>7, <2>1, TakeStep DEF LockForWork
  <2>2. CASE Go(t, "dispatch") /\ UNCHANGED <<pending, last>>
    BY <1>7, <2>2, WaitStep DEF LockForWork
  <2>3. CASE Go(t, "asleep") /\ UNCHANGED <<pending, last>>
    BY <1>7, <2>3, WaitStep DEF LockForWork
  <2> QED  BY <1>7, <2>1, <2>2, <2>3 DEF LockForWork
<1>8. CASE Dispatch(t)
  BY <1>8, DispatchStep
<1>9. CASE WakeSpuriously(t)
  BY <1>9, WaitStep DEF WakeSpuriously
<1> QED  BY <1>1, <1>2, <1>3, <1>4, <1>5, <1>6, <1>7, <1>8, <1>9 DEF Wait

\* Out of the loop of ggml_barrier.
LEMMA SpinStep ==
    ASSUME IInv, NEW t \in Threads, Spin(t)
    PROVE  IInv'
<1>1. /\ pc[t] = "spin" /\ Released(t) /\ ~Waiting(t) /\ Leave(t) /\ loc[t].after \in Places
      /\ UNCHANGED <<graph, nGraph, nPassed, nBarrier, abort, claims, chunk, node, done, loc,
                     last, pending>>
  <2>1. loc[t].after \in Places
    BY Same DEF IInv, Locals
  <2> QED  BY <2>1 DEF Spin, Released, Waiting, work, barrier, state, history
<1>2. CASE loc[t].after # "end"
  <2> DEFINE p == IF loc[t].after = "chunks" THEN "chunk" ELSE "node"
  <2>1. ~Outside(t) /\ Go(t, p)
    BY <1>1, <1>2 DEF Outside, Leave, Places, InGraph
  <2>2. Busy /\ t \in Active /\ Computing /\ ~Fresh(t)
    BY <1>1, <2>1, InsideIsActive, InsideFacts
  <2>3. ProgramCounters' /\ pc'[t] = p /\ \A u \in Threads \ {t} : SameThread(u)
    BY <1>1, <2>1, GoInside DEF IInv, Types, InGraph, SameThread
  <2>4. Types'
    BY <1>1, <2>3 DEF IInv, Types, ChunkIds
  <2>5. /\ Busy' /\ ~Waiting(t)' /\ ~Outside(t)' /\ ~Fresh(t)' /\ ~Released(t)'
        /\ Holds(t)' <=> Holds(t)
        /\ pc'[t] \notin {"reset", "release", "claim", "arrive", "spin"}
    BY <1>1, <1>2, <2>2, <2>3, NThreadsType
       DEF Busy, Waiting, Outside, Released, Fresh, Holds, Heading, InGraph, Places, SameThread
  <2>6. Local(t)' /\ (t \in Workers => Worker(t)')
    BY <1>1, <2>1, <2>2, <2>5 DEF Local, Worker, IInv, Active
  <2>7. ASSUME NEW k, NEW d, NEW s, NEW e, SegmentArgs(k, d, s, e), Segment(k, d, s, e)
        PROVE  Path(k, d, s, e)' /\ Place(t, k, d, s, e)' /\ Claimed(k, d, s, e)'
    <3>1. Path(k, d, s, e) /\ Place(t, k, d, s, e) /\ Claimed(k, d, s, e)
      BY <2>2, <2>7 DEF Segment
    <3>2. \/ Coming(t, k, d, s, e) /\ Heading(t, "next", "node") /\ node[t] \in s .. e
          \/ Working(t, k, d, s, e) /\ k = "chunks" /\ Heading(t, "chunks", "chunk")
      BY <1>1, <2>1, <2>2, <3>1
         DEF Place, Coming, Working, Finishing, Meeting, Gone, AtBarrier, Heading
    <3>3. Place(t, k, d, s, e)'
      BY <1>1, <2>3, <2>5, <3>2 DEF Place, Coming, Working, Heading, Released
    <3>4. Path(k, d, s, e)'
      BY <1>1, <3>1, FramePath
    <3>5. Claimed(k, d, s, e)'
      BY <1>1, <2>3, <2>5, <3>1, FrameClaimed
    <3> QED  BY <3>3, <3>4, <3>5
  <2> QED  BY <1>1, <2>2, <2>3, <2>4, <2>5, <2>6, <2>7, InsideStep
<1>3. CASE loc[t].after = "end" /\ t \in Workers
  <2>1. Go(t, "top") /\ Outside(t) /\ t # 0
    BY <1>1, <1>3 DEF Leave, Outside, Workers
  <2>2. pc'[t] = "top"
    BY <2>1 DEF Go, IInv, Types, ProgramCounters
  <2>3. Worker(t)' /\ (Fresh(t)' <=> Fresh(t))
    BY <1>1, <1>3, <2>1, <2>2 DEF Worker, IInv, Outside, Fresh, InGraph
  <2> QED  BY <1>1, <1>3, <2>1, <2>3, AwayStep DEF IInv, Types, WaitPC
<1>4. CASE loc[t].after = "end" /\ t = 0
  <2>1. /\ Busy /\ Computing /\ Go(0, "idle") /\ Outside(0) /\ ~Fresh(0)
    BY <1>1, <1>4 DEF Busy, IInv, InGraph, Leave, Outside, Released, Fresh
  <2>2. /\ ProgramCounters' /\ pc'[0] = "idle" /\ \A u \in Threads \ {0} : SameThread(u)
    BY <1>1, <2>1, NThreadsType DEF Go, IInv, Types, ProgramCounters, SameThread, MainPC, Workers
  <2>3. Types'
    BY <1>1, <2>2 DEF IInv, Types, ChunkIds
  <2>4. /\ Active' = Active /\ Active \subseteq Threads /\ 0 \in Active
        /\ 0 \in Threads /\ Workers = Threads \ {0}
    BY <1>1, <2>1, ActiveType, NThreadsType DEF Active, IInv, Computing, Workers
  <2>5. /\ ~Busy' /\ Outside(0)' /\ ~Fresh(0)' /\ ~Holds(0) /\ ~Holds(0)'
    BY <1>1, <1>4, <2>2 DEF Busy, Outside, Fresh, Holds, Heading, Released, InGraph
  <2>6. \A u \in Threads : Local(u)'
    <3>1. Local(0)'
      BY <2>2, <2>5 DEF Local
    <3> QED  BY <1>1, <2>2, <3>1, FrameLocal DEF IInv
  <2>7. \A u \in Workers : Worker(u)'
    BY <1>1, <2>2, <2>4, FrameLocal DEF IInv
  <2>8. PICK k \in Activities, d \in Nat, s \in 1 .. Len(graph) + 1, e \in 1 .. Len(graph) + 1 :
            Segment(k, d, s, e)
    BY <2>1 DEF Computing
  <2>9. Gone(0, k, d, s, e)
    BY <1>1, <1>4, <2>1, <2>4, <2>8
       DEF Segment, Place, Coming, Working, Finishing, Meeting, Gone, Heading, AtBarrier,
           Released, Waiting
  <2>10. Gone(0, k, d, s, e)'
    BY <1>1, <2>5, <2>9 DEF Gone
  <2>11. Segment(k, d, s, e)'
    <3>1. \A u \in Active : Place(u, k, d, s, e)'
      BY <1>1, <2>2, <2>4, <2>8, <2>10, FramePlace DEF Segment, Place
    <3>2. Path(k, d, s, e)'
      BY <1>1, <2>8, FramePath DEF Segment
    <3>3. Claimed(k, d, s, e)'
      BY <1>1, <1>4, <2>2, <2>4, <2>5, <2>8, FrameClaimed DEF Segment
    <3> QED  BY <2>4, <3>1, <3>2, <3>3 DEF Segment
  <2>12. nBarrier = 0
    <3>1. \A u \in Active : Outside(u)
      BY <2>8, <2>9 DEF Segment, Place, Coming, Working, Finishing, Meeting, Gone
    <3>2. Arrived = {} /\ Opener = {}
      BY <3>1 DEF Arrived, Opener, Outside, Waiting, Released, InGraph
    <3> QED  BY <2>1, <3>2, FS_EmptySet DEF Computing, Barrier
  <2>13. Quiet'
    BY <1>1, <2>1, <2>2, <2>3, <2>7, <2>11, <2>12, EndIsQuiet DEF Computing
  <2> QED  BY <2>3, <2>5, <2>6, <2>7, <2>13 DEF IInv
<1> QED  BY <1>2, <1>3, <1>4, NThreadsType DEF Workers

------------------------------------------------------------------------------
(* Thread 0 outside a graph.                                               *)

\* Signals and flags: nothing changes but who sleeps.
LEMMA MainStep ==
    ASSUME IInv, pc' \in [Threads -> WaitPC \cup InGraph \cup MainPC],
           \A u \in Workers : \/ pc'[u] = pc[u]
                              \/ pc[u] \in WaitPC \ {"dispatch"} /\ pc'[u] \in WaitPC,
           UNCHANGED <<graph, nGraph, nPassed, nBarrier, claims, chunk, abort, loc, node, done,
                       last, pending>>,
           \/ ~Busy /\ pc'[0] \in MainPC \ {"signal", "kick"}
           \/ pc[0] = "signal" /\ pc'[0] = "begin"
    PROVE  IInv'
<1>1. /\ 0 \in Threads /\ Workers = Threads \ {0}
      /\ Active' = Active /\ Active \subseteq Threads
  BY NThreadsType, ActiveType DEF Active, Workers, IInv
<1>2. \A u \in Workers : pc'[u] \in InGraph \cup WaitPC
  BY DEF IInv, Types, ProgramCounters
<1>3. Types'
  BY <1>2 DEF IInv, Types, ProgramCounters, ChunkIds, InGraph, MainPC
<1>4. ASSUME NEW u \in Workers
      PROVE  /\ Outside(u)' <=> Outside(u)
             /\ Waiting(u)' <=> Waiting(u)
             /\ Holds(u)' <=> Holds(u)
             /\ Fresh(u)' <=> Fresh(u)
             /\ pc'[u] \in InGraph => pc'[u] = pc[u]
             /\ pc[u] \in InGraph => pc'[u] = pc[u]
             /\ pc[u] = "dispatch" => pc'[u] = "dispatch"
             /\ \A k, d, s, e : Place(u, k, d, s, e) => Place(u, k, d, s, e)'
  <2>1. CASE pc'[u] = pc[u]
    <3>1. SameThread(u)
      BY <2>1 DEF SameThread
    <3> QED  BY <2>1, <3>1, FramePlace
  <2>2. CASE pc[u] \in WaitPC \ {"dispatch"} /\ pc'[u] \in WaitPC
    <3>1. pc[u] \notin InGraph /\ pc'[u] \notin InGraph
      BY <2>2 DEF WaitPC, InGraph
    <3>2. /\ Outside(u)' /\ Outside(u) /\ ~Waiting(u)' /\ ~Waiting(u) /\ ~Holds(u)' /\ ~Holds(u)
          /\ Fresh(u)' <=> Fresh(u)
      BY <1>1, <3>1 DEF Outside, Waiting, Holds, Heading, Released, Fresh, InGraph
    <3>3. ASSUME NEW k, NEW d, NEW s, NEW e, Place(u, k, d, s, e)
          PROVE  Place(u, k, d, s, e)'
      <4>1. \/ Coming(u, k, d, s, e) /\ Fresh(u) /\ s = 1 /\ d = 0
            \/ Gone(u, k, d, s, e)
        BY <3>1, <3>2, <3>3 DEF Place, Coming, Working, Finishing, Meeting, Gone, Heading, AtBarrier,
                    Released, InGraph
      <4> QED  BY <3>2, <4>1 DEF Place, Coming, Gone
    <3> QED  BY <2>2, <3>1, <3>2, <3>3
  <2> QED  BY <2>1, <2>2
<1>5. \A u \in Threads : Local(u)'
  <2>1. Local(0)'
    BY DEF Local, MainPC, InGraph, Outside
  <2>2. ASSUME NEW u \in Workers  PROVE Local(u)'
    BY <1>1, <1>4 DEF IInv, Local, InGraph
  <2> QED  BY <1>1, <2>1, <2>2
<1>6. \A u \in Workers : Worker(u)'
  BY <1>1, <1>4 DEF IInv, Worker
<1>7. CASE ~Busy /\ pc'[0] \in MainPC \ {"signal", "kick"}
  <2>1. Quiet /\ ~Busy' /\ pc'[0] # "kick"
    BY <1>7 DEF IInv, Busy, MainPC, InGraph
  <2>2. /\ Products' = Products
        /\ \A i : /\ Once(i)' <=> Once(i)
                  /\ Complete(i)' <=> Complete(i)
                  /\ Untouched(i)' <=> Untouched(i)
    BY DEF Products, Once, Complete, Untouched, NChunks, ChunkIds
  <2>3. Quiet'
    BY <1>1, <1>4, <2>1, <2>2 DEF Quiet
  <2> QED  BY <1>3, <1>5, <1>6, <2>1, <2>3 DEF IInv
<1>8. CASE pc[0] = "signal" /\ pc'[0] = "begin"
  <2>1. Busy /\ Busy' /\ Computing
    BY <1>8 DEF IInv, Busy, InGraph
  <2>2. /\ ~Waiting(0) /\ ~Waiting(0)' /\ ~Holds(0) /\ ~Holds(0)' /\ Fresh(0) /\ Fresh(0)'
        /\ Outside(0)
    BY <1>8 DEF Waiting, Holds, Heading, Released, Fresh, Outside, InGraph
  <2>3. \A u \in Threads : /\ Waiting(u)' <=> Waiting(u)
                           /\ Holds(u)' <=> Holds(u)
                           /\ pc'[u] = "reset" <=> pc[u] = "reset"
                           /\ pc'[u] = "release" <=> pc[u] = "release"
                           /\ pc'[u] = "claim" <=> pc[u] = "claim"
    BY <1>1, <1>4, <1>8, <2>2 DEF InGraph
  <2>4. Arrived' = Arrived /\ Opener' = Opener /\ Opener \subseteq Threads
    BY <1>1, <2>3 DEF Arrived, Opener
  <2>5. Barrier'
    <3>1. /\ nBarrier' = Cardinality(Arrived') \/ Opener' # {}
          /\ Opener' = {} => nBarrier' < nGraph'.threads
      BY <2>1, <2>4 DEF Computing, Barrier
    <3>2. ASSUME NEW o \in Opener'
          PROVE  /\ \A u \in Active' \ {o} : Waiting(u)'
                 /\ pc'[o] = "release" => nBarrier' = 0
      <4>1. o \in Opener /\ o \in Threads /\ \A u \in Active \ {o} : Waiting(u)
        BY <1>1, <2>1, <2>4, <3>2 DEF Computing, Barrier
      <4>2. pc[o] = "release" => nBarrier = 0
        BY <2>1, <4>1 DEF Computing, Barrier
      <4> QED  BY <1>1, <2>3, <4>1, <4>2
    <3> QED  BY <3>1, <3>2 DEF Barrier
  <2>6. PICK k \in Activities, d \in Nat, s \in 1 .. Len(graph) + 1, e \in 1 .. Len(graph) + 1 :
            Segment(k, d, s, e)
    BY <2>1 DEF Computing
  <2>7. \A u \in Active : Place(u, k, d, s, e)'
    <3>1. 0 \in Active => Place(0, k, d, s, e)'
      <4>1. SUFFICES ASSUME 0 \in Active  PROVE Place(0, k, d, s, e)'
        OBVIOUS
      <4>2. Coming(0, k, d, s, e) /\ s = 1 /\ d = 0
        BY <2>2, <2>6, <4>1 DEF Segment, Place, Coming, Working, Finishing, Meeting, Gone
      <4> QED  BY <1>8, <2>2, <4>2 DEF Place, Coming
    <3> QED  BY <1>1, <1>4, <2>6, <3>1 DEF Segment
  <2>8. Path(k, d, s, e)'
    BY <2>6, FramePath DEF Segment
  <2>9. Claimed(k, d, s, e)'
    <3>1. /\ Products' = Products
          /\ \A i : /\ Once(i)' <=> Once(i)
                    /\ Complete(i)' <=> Complete(i)
                    /\ Untouched(i)' <=> Untouched(i)
      BY DEF Products, Once, Complete, Untouched, NChunks, ChunkIds
    <3>2. Shared(e) => Shared(e)'
      BY <1>1, <2>3, <3>1 DEF Shared, NChunks, ChunkIds
    <3> QED  BY <1>1, <2>6, <3>1, <3>2 DEF Segment, Claimed
  <2>10. Computing'
    BY <1>1, <2>1, <2>5, <2>6, <2>7, <2>8, <2>9 DEF Computing, Segment
  <2> QED  BY <1>3, <1>5, <1>6, <2>1, <2>10 DEF IInv
<1> QED  BY <1>7, <1>8

\* A graph is handed over: nobody looks at what is set for it.
LEMMA SubmitStep ==
    ASSUME IInv, NEW g \in Graphs, NEW n \in 1 .. NThreads, Submit(g, n)
    PROVE  IInv'
<1>1. /\ 0 \in Threads /\ Workers = Threads \ {0} /\ NThreads \in Nat
      /\ Active' = Active /\ Active \subseteq Threads
  BY NThreadsType, ActiveType DEF Active, Workers, IInv, Submit
<1>2. /\ pc[0] = "idle" /\ Go(0, "kick")
      /\ graph' = g /\ chunk' = 0 /\ abort' = -1 /\ done' = [t \in Threads |-> 0]
      /\ claims' = [i \in DOMAIN g |-> [c \in ChunkIds |-> 0]]
      /\ UNCHANGED <<nGraph, nPassed, nBarrier, pending, last, node>>
      /\ g \in Seq(Kinds) /\ n \in Nat
  BY <1>1, PoolAssumption DEF Submit, barrier, state
<1>3. Quiet /\ ~Busy
  BY <1>2 DEF IInv, Busy, InGraph
<1>4. /\ loc' \in [Threads -> Locals] /\ loc'[0].threads = n
      /\ \A u \in Workers : loc'[u] = loc[u]
  <2>1. loc \in [Threads -> Locals]
    BY DEF IInv, Types
  <2>2. loc' = [loc EXCEPT ![0] = [loc[0] EXCEPT !.threads = n]]
    BY <2>1 DEF Submit
  <2>3. [loc[0] EXCEPT !.threads = n] \in Locals /\ [loc[0] EXCEPT !.threads = n].threads = n
    BY <1>1, <1>2, <2>1 DEF Locals
  <2> QED  BY <1>1, <2>1, <2>2, <2>3
<1>5. /\ ProgramCounters' /\ pc'[0] = "kick" /\ \A u \in Workers : pc'[u] = pc[u]
  BY <1>1, <1>2 DEF Go, IInv, Types, ProgramCounters, MainPC
<1>6. Types'
  <2>1. claims' \in [DOMAIN g -> [ChunkIds -> Nat]] /\ ChunkIds' = ChunkIds
    BY <1>2 DEF ChunkIds
  <2> QED  BY <1>2, <1>4, <1>5, <2>1 DEF IInv, Types
<1>7. \A u \in Workers : (Outside(u)' <=> Outside(u)) /\ Outside(u)
  BY <1>2, <1>3, <1>4, <1>5 DEF Quiet, Outside, Released
<1>8. \A u \in Threads : Local(u)'
  <2>1. Local(0)'
    BY <1>5 DEF Local, Outside, InGraph
  <2>2. ASSUME NEW u \in Workers  PROVE Local(u)'
    BY <1>1, <1>2, <1>4, <1>5, <1>7 DEF IInv, Local, Outside, Released, InGraph
  <2> QED  BY <1>1, <2>1, <2>2
<1>9. \A u \in Workers : Worker(u)'
  BY <1>1, <1>2, <1>5, <1>7 DEF IInv, Worker
<1>10. \A i \in Products' : Untouched(i)' /\ Once(i)'
  BY <1>2 DEF Products, Untouched, Once, ChunkIds
<1>11. Quiet'
  <2>1. \A u \in Threads : done'[u] = 0
    BY <1>2
  <2>2. \A u \in Workers : Outside(u)' /\ (u \in Active' => last'[u] = nGraph' /\ ~pending'[u])
    BY <1>1, <1>2, <1>3, <1>7 DEF Quiet
  <2> QED  BY <1>1, <1>2, <1>3, <1>4, <1>10, <2>1, <2>2 DEF Quiet
<1>12. ~Busy'
  BY <1>5 DEF Busy, InGraph
<1> QED  BY <1>6, <1>8, <1>9, <1>11, <1>12 DEF IInv

\* The kickoff: a new number that every thread has yet to see.
LEMMA KickStoreStep ==
    ASSUME IInv, KickStore
    PROVE  IInv'
<1> DEFINE n == loc[0].threads
<1>1. /\ 0 \in Threads /\ Workers = Threads \ {0} /\ NThreads \in Nat
  BY NThreadsType DEF Workers
<1>2. /\ pc[0] = "kick" /\ Go(0, "signal")
      /\ nGraph' = [count |-> nGraph.count + 1, threads |-> n]
      /\ UNCHANGED <<graph, abort, chunk, claims, done, nPassed, nBarrier, pending, last, node, loc>>
  BY DEF KickStore, work, barrier, state, history
<1>3. /\ Quiet /\ ~Busy /\ n \in 1 .. NThreads /\ (\A t \in Threads : done[t] = 0)
      /\ (\A i \in Products : Untouched(i)) /\ nBarrier = 0
  BY <1>2 DEF IInv, Busy, InGraph, Quiet
<1>4. /\ nGraph' \in [count : Nat, threads : 0 .. NThreads] /\ nGraph'.threads = n
      /\ nGraph'.count = nGraph.count + 1 /\ nGraph.count \in Nat
  BY <1>1, <1>2, <1>3 DEF IInv, Types
<1>5. ProgramCounters' /\ pc'[0] = "signal" /\ \A u \in Workers : pc'[u] = pc[u]
  BY <1>1, <1>2 DEF Go, IInv, Types, ProgramCounters, MainPC
<1>6. Types'
  BY <1>2, <1>4, <1>5 DEF IInv, Types, ChunkIds
<1>7. \A u \in Workers : Outside(u)' /\ Outside(u) /\ ~Waiting(u)'
  BY <1>2, <1>3, <1>5 DEF Quiet, Outside, Released, Waiting, InGraph
<1>8. /\ Active' = 0 .. n - 1 /\ 0 \in Active' /\ Active' \subseteq Threads
  BY <1>1, <1>3, <1>4 DEF Active, Threads
<1>9. \A u \in Threads : Local(u)'
  <2>1. Local(0)'
    BY <1>5 DEF Local, Outside, InGraph
  <2>2. ASSUME NEW u \in Workers  PROVE Local(u)'
    BY <1>1, <1>2, <1>5, <1>7 DEF IInv, Local, Outside, Released, InGraph
  <2> QED  BY <1>1, <2>1, <2>2
<1>10. \A u \in Workers : ~pending[u] /\ last[u].count <= nGraph.count /\ last[u].count \in Nat
  BY <1>1, <1>3 DEF IInv, Worker, Quiet, Types
<1>11. \A u \in Workers : Worker(u)' /\ last'[u] # nGraph'
  BY <1>2, <1>4, <1>7, <1>10 DEF Worker
<1>12. \A u \in Active' : Fresh(u)' /\ Outside(u)' /\ done'[u] = 0
  BY <1>1, <1>2, <1>3, <1>5, <1>7, <1>8, <1>11 DEF Fresh, Outside, InGraph
<1>13. Barrier'
  <2>1. Arrived' = {} /\ Opener' = {}
    BY <1>1, <1>5, <1>7, <1>8 DEF Arrived, Opener, Waiting, Outside, Released, InGraph
  <2> QED  BY <1>2, <1>3, <1>4, <2>1, FS_EmptySet DEF Barrier
<1>14. 1 \in 1 .. Len(graph) + 1 /\ 0 \in Nat /\ Len(graph) \in Nat
  BY DEF IInv, Types
<1>15. PICK k \in {"over", "plain", "prepare"}, e \in 1 .. Len(graph) + 1 : Path(k, 0, 1, e)
  BY <1>14, PathExists DEF IInv
<1>16. Segment(k, 0, 1, e)'
  <2>1. Path(k, 0, 1, e)'
    BY <1>2, <1>15, FramePath
  <2>2. \A u \in Active' : Place(u, k, 0, 1, e)'
    BY <1>12, <1>15 DEF Place, Coming
  <2>3. Claimed(k, 0, 1, e)'
    <3>1. Products' = Products /\ \A i \in Products : Untouched(i)' /\ i \in Nat /\ i >= 1
      BY <1>2, <1>3, <1>14 DEF Products, Untouched, ChunkIds, IInv, Types
    <3>2. \A u \in Active' : done'[u] # 0 + 1
      BY <1>12
    <3> QED  BY <1>8, <1>15, <3>1, <3>2 DEF Claimed
  <2> QED  BY <2>1, <2>2, <2>3 DEF Segment
<1>17. Computing'
  <2>1. k \in Activities
    BY <1>15 DEF Activities
  <2>2. nGraph'.threads > 0
    BY <1>3, <1>4
  <2>3. \E s \in 1 .. Len(graph) + 1 : Segment(k, 0, s, e)'
    BY <1>14, <1>16
  <2> QED  BY <1>2, <1>13, <1>14, <1>15, <2>1, <2>2, <2>3 DEF Computing
<1>18. Busy'
  BY <1>5 DEF Busy
<1> QED  BY <1>6, <1>9, <1>11, <1>17, <1>18 DEF IInv

LEMMA MainSteps ==
    ASSUME IInv, Call \/ Carry
    PROVE  IInv'
<1>1. /\ 0 \in Threads /\ Workers = Threads \ {0}
      /\ pc \in [Threads -> WaitPC \cup InGraph \cup MainPC]
  BY NThreadsType DEF Workers, IInv, Types, ProgramCounters
\* Those that are woken.
<1>2. /\ Awake(pc) \in [Threads -> WaitPC \cup InGraph \cup MainPC]
      /\ \A t \in Threads : \/ Awake(pc)[t] = pc[t]
                            \/ pc[t] \in WaitPC \ {"dispatch"} /\ Awake(pc)[t] \in WaitPC
  <2>1. \A t \in Threads : \/ Awake(pc)[t] = pc[t]
                           \/ /\ pc[t] \in WaitPC \ {"dispatch"}
                              /\ Awake(pc)[t] \in WaitPC
    BY DEF Awake, WaitPC
  <2>2. \A t \in Threads : Awake(pc)[t] \in WaitPC \cup InGraph \cup MainPC
    BY <1>1, <2>1
  <2>3. Awake(pc) = [t \in Threads |-> Awake(pc)[t]]
    BY DEF Awake
  <2> QED  BY <2>1, <2>2, <2>3
<1>3. /\ pc[0] = "idle" \/ pc[0] = "freeing" \/ pc[0] = "join" => ~Busy
      /\ pc[0] = "idle" => Awake(pc)[0] = "idle"
  BY <1>1 DEF Busy, InGraph, Awake
<1> USE DEF work, barrier, flags, state, history, MainPC
<1>4. CASE \E g \in Graphs, n \in 1 .. NThreads : Submit(g, n)
  BY <1>4, SubmitStep
<1>5. ASSUME NEW p \in BOOLEAN, SetPause(p)  PROVE IInv'
  BY <1>1, <1>2, <1>3, <1>5, MainStep DEF SetPause
<1>6. CASE FreeStop
  BY <1>1, <1>3, <1>6, MainStep DEF FreeStop, Go
<1>7. CASE KickStore
  BY <1>7, KickStoreStep
<1>8. CASE KickSignal
  BY <1>1, <1>2, <1>8, MainStep DEF KickSignal, InGraph
<1>9. CASE FreeSignal
  BY <1>1, <1>2, <1>3, <1>9, MainStep DEF FreeSignal
<1>10. CASE Join
  BY <1>1, <1>3, <1>10, MainStep DEF Join, Go
<1> QED  BY <1>4, <1>5, <1>6, <1>7, <1>8, <1>9, <1>10 DEF Call, Carry

------------------------------------------------------------------------------
LEMMA InitHolds == Init => IInv
<1> SUFFICES ASSUME Init  PROVE IInv
  OBVIOUS
<1>1. 0 \in Threads /\ Workers = Threads \ {0} /\ NThreads \in Nat
  BY NThreadsType DEF Workers
<1>2. Types
  <2>1. ProgramCounters
    BY <1>1 DEF Init, ProgramCounters, WaitPC, MainPC
  <2>2. <<>> \in Seq(Kinds) /\ DOMAIN <<>> = {}
    OBVIOUS
  <2>3. loc \in [Threads -> Locals]
    BY <2>2 DEF Init, Locals, Places
  <2>4. claims \in [DOMAIN graph -> [ChunkIds -> Nat]]
    BY <2>2 DEF Init
  <2>5. /\ nGraph \in [count : Nat, threads : 0 .. NThreads]
        /\ last \in [Threads -> [count : Nat, threads : Nat]]
    BY <1>1 DEF Init
  <2> QED  BY <2>1, <2>2, <2>3, <2>4, <2>5 DEF Init, Types
<1>3. \A t \in Threads : Outside(t) /\ Local(t)
  BY DEF Init, Outside, Local, InGraph
<1>4. \A t \in Workers : Worker(t)
  BY <1>1, <1>3 DEF Init, Worker
<1>5. Active = {} /\ Products = {} /\ pc[0] = "idle"
  BY <1>1 DEF Init, Active, Products
<1> QED  BY <1>1, <1>2, <1>3, <1>4, <1>5 DEF Init, IInv, Busy, Quiet, InGraph

LEMMA ComputeStep ==
    ASSUME IInv, NEW t \in Threads, Compute(t)
    PROVE  IInv'
BY BeginStep, NextNodeStep, WorkStep, PrepareStep, ChunkStep, ClaimStep, FinishNodeStep,
   EnterStep, EnterAloneStep, ArriveStep, ResetStep, ReleaseStep, SpinStep DEF Compute

LEMMA StepHolds == IInv /\ [Next]_vars => IInv'
<1> SUFFICES ASSUME IInv, [Next]_vars  PROVE IInv'
  OBVIOUS
<1>1. CASE UNCHANGED vars
  <2>1. UNCHANGED <<pc, graph, nGraph, nPassed, nBarrier, claims, chunk, abort, loc, node, done,
                    last, pending>>
    BY <1>1 DEF vars, barrier, flags, state, history
  <2>2. Types' /\ \A u \in Threads : SameThread(u) /\ Local(u)'
    BY <2>1, FrameLocal DEF IInv, Types, ProgramCounters, ChunkIds, SameThread
  <2>3. \A u \in Workers : Worker(u)'
    BY <2>1, <2>2, FrameLocal, ActiveType DEF IInv
  <2>4. CASE Busy
    <3>1. Busy' /\ Computing
      BY <2>1, <2>4 DEF Busy, IInv
    <3>2. 0 \in Threads /\ 0 \in Active
      BY <3>1, NThreadsType, ActiveType DEF Computing, IInv
    <3>3. Barrier'
      BY <2>1, <3>1 DEF Computing, Barrier, Arrived, Opener, Active, Waiting
    <3>4. Active' = Active /\ Active \subseteq Threads /\ (Holds(0)' <=> Holds(0))
      BY <2>1, <2>2, <3>2, ActiveType, FramePlace DEF Active, IInv
    <3>5. ASSUME NEW k, NEW d, NEW s, NEW e, SegmentArgs(k, d, s, e), Segment(k, d, s, e)
          PROVE  Path(k, d, s, e)' /\ Place(0, k, d, s, e)' /\ Claimed(k, d, s, e)'
      <4>1. Path(k, d, s, e)'
        BY <2>1, <3>5, FramePath DEF Segment
      <4>2. Place(0, k, d, s, e)'
        BY <2>1, <2>2, <3>2, <3>5, FramePlace DEF Segment
      <4>3. Claimed(k, d, s, e)'
        BY <2>1, <2>2, <3>2, <3>4, <3>5, FrameClaimed DEF Segment
      <4> QED  BY <4>1, <4>2, <4>3
    <3> QED  BY <2>1, <2>2, <2>3, <2>4, <3>1, <3>2, <3>3, <3>5, ActiveStep DEF Workers
  <2>5. CASE ~Busy
    <3>1. ~Busy' /\ Quiet
      BY <2>1, <2>5 DEF Busy, IInv
    <3>2. Quiet'
      BY <2>1, <3>1 DEF Quiet, Outside, Released, Active, Products, Once, Complete, Untouched,
                        NChunks, ChunkIds
    <3> QED  BY <2>2, <2>3, <3>1, <3>2 DEF IInv
  <2> QED  BY <2>4, <2>5
<1>2. CASE Call \/ Carry
  BY <1>2, MainSteps
<1>3. ASSUME NEW t \in Threads, Compute(t)  PROVE IInv'
  BY <1>3, ComputeStep
<1>4. ASSUME NEW t \in Workers, Wait(t) \/ WakeSpuriously(t)  PROVE IInv'
  BY <1>4, WaitingStep
<1> QED  BY <1>1, <1>2, <1>3, <1>4 DEF Next

LEMMA Invariance == Spec => []IInv
BY InitHolds, StepHolds, PTL DEF Spec

------------------------------------------------------------------------------
(* What follows.                                                           *)

\* Threads that are computing, and the part of the graph they are in.
LEMMA InSegment ==
    ASSUME IInv, NEW t \in Threads, ~Outside(t)
    PROVE  /\ t \in Active /\ Busy /\ Computing
           /\ \E k \in Activities, d \in Nat, s, e \in 1 .. Len(graph) + 1 :
                  Segment(k, d, s, e) /\ Place(t, k, d, s, e)
BY InsideIsActive DEF Computing, Segment

\* The barrier, for any number of threads, any graph and any chunks: whoever
\* works on a part of the graph finds the parts before it finished by all.
THEOREM BarrierHolds == Spec => []PhasesInOrder
<1>1. ASSUME IInv, NEW t \in Threads, pc[t] \in {"work", "prepare", "chunk", "claim"},
             NEW u \in Active
      PROVE  done[u] >= done[t]
  <2>1. ~Outside(t)
    BY <1>1 DEF Outside, Released, InGraph
  <2>2. PICK k \in Activities, d \in Nat, s \in 1 .. Len(graph) + 1, e \in 1 .. Len(graph) + 1 :
            Segment(k, d, s, e) /\ Place(t, k, d, s, e)
    BY <1>1, <2>1, InSegment
  <2>3. done[t] = d
    BY <1>1, <2>2
       DEF Place, Coming, Working, Finishing, Meeting, Gone, Heading, AtBarrier, Waiting, Released,
           Outside, InGraph
  <2>4. done[u] \in {d, d + 1}
    BY <2>2 DEF Segment, Place, Coming, Working, Finishing, Meeting, Gone
  <2> QED  BY <2>3, <2>4
<1>2. IInv => PhasesInOrder
  BY <1>1 DEF PhasesInOrder
<1> QED  BY Invariance, <1>2, PTL

\* Between two graphs the parameters of the pool are thread 0's alone.
THEOREM ParametersAreFree == Spec => []NobodyReads
<1>1. IInv => NobodyReads
  BY DEF IInv, Quiet, NobodyReads, Busy, MainPC, InGraph, Outside, Released
<1> QED  BY Invariance, <1>1, PTL

\* The threads that compute are those the last kickoff asked for, and they
\* compute its graph.
THEOREM SameGraph == Spec => []SameWork
<1>1. ASSUME IInv, NEW t \in Threads, pc[t] \in InGraph \ {"begin", "spin"}
      PROVE  t \in Active /\ loc[t].job = graph /\ loc[t].nth = nGraph.threads
  <2>1. ~Outside(t)
    BY <1>1 DEF Outside, Released
  <2> QED  BY <1>1, <2>1, InsideIsActive, InsideFacts
<1>2. IInv => SameWork
  BY <1>1 DEF SameWork
<1> QED  BY Invariance, <1>2, PTL

\* An abort stops all threads of the graph at the same node.
THEOREM AbortsTogether == Spec => []AbortAgreed
<1>1. IInv => AbortAgreed
  BY DEF IInv, Quiet, AbortAgreed, Busy, InGraph
<1> QED  BY Invariance, <1>1, PTL

\* The chunks of a product are computed once, and all of them.
THEOREM NoChunkTwice == Spec => []ChunksOnce
<1>1. ASSUME IInv, NEW i \in DOMAIN claims, graph[i] = "product"
      PROVE  \A c \in ChunkIds : claims[i][c] <= 1
  <2>1. i \in Products
    BY <1>1 DEF IInv, Types, Products
  <2>2. Untouched(i) => Once(i)
    BY DEF Untouched, Once
  <2>3. CASE Busy
    <3>1. PICK k \in Activities, d \in Nat, s \in 1 .. Len(graph) + 1, e \in 1 .. Len(graph) + 1 :
              Segment(k, d, s, e)
      BY <1>1, <2>3 DEF IInv, Computing
    <3>2. i \in Int /\ (k = "chunks" => s = e)
      BY <2>1, <3>1 DEF IInv, Types, Products, Segment, Path
    <3> QED  BY <2>1, <2>2, <3>1, <3>2 DEF Segment, Claimed, Shared, Once, Activities
  <2>4. CASE ~Busy
    BY <1>1, <2>1, <2>4 DEF IInv, Quiet, Once
  <2> QED  BY <2>3, <2>4
<1>2. ASSUME IInv, NEW i \in DOMAIN claims, graph[i] = "product", NEW t \in Active,
             node[t] > i, pc[t] \in {"work", "prepare", "chunk"}
      PROVE  \A c \in 0 .. NChunks(nGraph.threads) - 1 : claims[i][c] = 1
  <2>1. ~Outside(t) /\ t \in Threads /\ i \in Products /\ i \in Int
    BY <1>2, ActiveType DEF Outside, Released, InGraph, Products, IInv, Types
  <2>2. PICK k \in Activities, d \in Nat, s \in 1 .. Len(graph) + 1, e \in 1 .. Len(graph) + 1 :
            Segment(k, d, s, e) /\ Place(t, k, d, s, e)
    BY <1>2, <2>1, InSegment
  <2>3. k \in {"plain", "prepare", "chunks"} /\ node[t] = e
    BY <1>2, <2>1, <2>2
       DEF Place, Coming, Working, Finishing, Meeting, Gone, Heading, AtBarrier, Waiting, Released
  <2>4. i < s
    BY <1>2, <2>1, <2>2, <2>3 DEF Segment, Path
  <2> QED  BY <2>1, <2>2, <2>3, <2>4 DEF Segment, Claimed, Complete
<1>3. ASSUME IInv, NEW i \in DOMAIN claims, graph[i] = "product", pc[0] = "idle",
             NEW c0 \in ChunkIds, claims[i][c0] = 1
      PROVE  \A c \in 0 .. NChunks(nGraph.threads) - 1 : claims[i][c] = 1
  <2>1. i \in Products /\ ~Busy
    BY <1>3 DEF IInv, Types, Products, Busy, InGraph
  <2> QED  BY <1>3, <2>1 DEF IInv, Quiet, Untouched, Complete
<1>4. IInv => ChunksOnce
  BY <1>1, <1>2, <1>3 DEF ChunksOnce
<1> QED  BY Invariance, <1>4, PTL
===============================================================================
